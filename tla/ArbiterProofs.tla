--------------------------- MODULE ArbiterProofs ---------------------------
(***************************************************************************)
(* RunOnceInOrder of Arbiter.tla, proved for any commands, any parts and   *)
(* schedulers and any number of crashes, lost calls and moved parts.       *)
(*                                                                         *)
(* Commands are numbered as they are given.  On each of the two ways, the  *)
(* queues are rising and what is behind in a queue was given later, so     *)
(* that what a scheduler has run is before everything of the same kind     *)
(* that still waits (DoneBefore): that is what makes order and uniqueness  *)
(* inductive.  A lost answer is the one exception, and again remembers it. *)
(*                                                                         *)
(* Then what the arbiter does before it has anything to send: the          *)
(* configuration is cut and serialized completely (Cut.tla, CutInv).       *)
(***************************************************************************)
EXTENDS Arbiter, ListProofs, SequenceTheorems, FiniteSetTheorems, TLAPS

\* The elements of a list.
In(s) == {s[i] : i \in 1..Len(s)}

Below(S, T) == \A x \in S, y \in T : x < y

\* Two commands that must be run in the order they were given.
Similar(c, d) ==
    Entry(c) = Entry(d) /\ (Entry(c) = "receiver" => Target(c) = Target(d))

\* The commands given so far by one of the two ways.
Given(by) == {c \in 1..given : Entry(c) = by}

\* From the modules of the master to its external_commands; the spare gets none.
ModuleWay ==
    /\ q["spare"] = <<>>
    /\ Rising(from_q) /\ Rising(q["master"]) /\ Below(In(q["master"]), In(from_q))
    /\ In(from_q) \subseteq Given("module") /\ In(q["master"]) \subseteq Given("module")

\* From the receiver to the list of a part.
ReceiverWay ==
    /\ Rising(rq) /\ In(rq) \subseteq Given("receiver")
    /\ \A p \in Parts :
         /\ Rising(pack[p]) /\ Below(In(pack[p]), In(rq))
         /\ In(pack[p]) \subseteq {c \in Given("receiver") : Target(c) = p}

WaitingCmds ==
    In(from_q) \cup In(q["master"]) \cup In(rq) \cup UNION {In(pack[p]) : p \in Parts}

\* What was run is before what waits.
DoneBefore ==
    \A s \in Schedulers : \A d \in In(done[s]) :
        /\ d \in 1..given
        /\ \A c \in WaitingCmds : Similar(d, c) /\ d \notin again => d < c

DoneInOrder ==
    \A s \in Schedulers : \A m, n \in 1..Len(done[s]) :
        /\ m < n /\ Similar(done[s][m], done[s][n]) /\ done[s][m] \notin again
        => done[s][m] < done[s][n]

IInv == TypeOK /\ ModuleWay /\ ReceiverWay /\ DoneBefore /\ DoneInOrder /\ AtMostOnce

-----------------------------------------------------------------------------
(* Lists *)

LEMMA InEmpty == In(<<>>) = {} /\ Rising(<<>>)
  BY DEF In, Rising

LEMMA InType ==
    ASSUME NEW S, NEW s \in Seq(S)
    PROVE  In(s) \subseteq S
<1>1. \A i \in 1..Len(s) : s[i] \in S
  OBVIOUS
<1> QED
  BY <1>1 DEF In

LEMMA InConcat ==
    ASSUME NEW S, S \subseteq Nat, NEW s \in Seq(S), NEW t \in Seq(S)
    PROVE  /\ s \o t \in Seq(S)
           /\ In(s \o t) = In(s) \cup In(t)
           /\ Rising(s) /\ Rising(t) /\ Below(In(s), In(t)) => Rising(s \o t)
<1>1. /\ s \o t \in Seq(S)
      /\ Len(s \o t) = Len(s) + Len(t) /\ Len(s) \in Nat /\ Len(t) \in Nat
  OBVIOUS
<1>2. \A i \in 1..Len(s) : (s \o t)[i] = s[i]
  OBVIOUS
<1>3. \A i \in 1..Len(t) : (s \o t)[Len(s) + i] = t[i]
  OBVIOUS
<1>4. \A i \in 1..Len(s \o t) : \/ i \in 1..Len(s)
                                \/ i - Len(s) \in 1..Len(t) /\ i = Len(s) + (i - Len(s))
  BY <1>1
<1> HIDE <1>1
<1>5. In(s \o t) = In(s) \cup In(t)
  <2>1. ASSUME NEW x \in In(s \o t) PROVE x \in In(s) \cup In(t)
    BY <1>2, <1>3, <1>4 DEF In
  <2>2. ASSUME NEW x \in In(s) \cup In(t) PROVE x \in In(s \o t)
    <3>1. \A i \in 1..Len(s) : i \in 1..Len(s \o t)
      BY <1>1
    <3>2. \A i \in 1..Len(t) : Len(s) + i \in 1..Len(s \o t)
      BY <1>1
    <3>3. CASE x \in In(s)
      <4>1. PICK i \in 1..Len(s) : x = s[i]
        BY <3>3 DEF In
      <4> QED
        BY <1>2, <3>1, <4>1 DEF In
    <3>4. CASE x \in In(t)
      <4>1. PICK i \in 1..Len(t) : x = t[i]
        BY <3>4 DEF In
      <4>2. x = (s \o t)[Len(s) + i]
        BY <1>3, <4>1
      <4> QED
        BY <3>2, <4>1, <4>2 DEF In
    <3> QED
      BY <2>2, <3>3, <3>4
  <2> QED
    BY <2>1, <2>2
<1>6. ASSUME Rising(s), Rising(t), Below(In(s), In(t))
      PROVE  Rising(s \o t)
  <2>1. \A i \in 1..Len(s), j \in 1..Len(t) : s[i] < t[j]
    BY <1>6 DEF Below, In
  <2> SUFFICES ASSUME NEW i \in 1..Len(s \o t), NEW j \in 1..Len(s \o t), i < j
               PROVE  (s \o t)[i] < (s \o t)[j]
    BY DEF Rising
  <2>2. CASE i \in 1..Len(s) /\ j \in 1..Len(s)
    BY <1>2, <1>6, <2>2 DEF Rising
  <2>3. CASE i \in 1..Len(s) /\ j - Len(s) \in 1..Len(t)
    BY <1>2, <1>3, <1>4, <2>1, <2>3, <1>1
  <2>4. CASE i - Len(s) \in 1..Len(t) /\ j - Len(s) \in 1..Len(t)
    <3> DEFINE a == i - Len(s)
               b == j - Len(s)
    <3>1. a < b /\ i = Len(s) + a /\ j = Len(s) + b
      BY <1>1, <2>4
    <3>2. t[a] < t[b]
      BY <1>6, <2>4, <3>1 DEF Rising
    <3> QED
      BY <1>3, <2>4, <3>1, <3>2
  <2>5. CASE i - Len(s) \in 1..Len(t) /\ j \in 1..Len(s)
    BY <1>1, <2>5
  <2> QED
    BY <1>4, <2>2, <2>3, <2>4, <2>5
<1> QED
  BY <1>1, <1>5, <1>6

LEMMA InAppend ==
    ASSUME NEW S, S \subseteq Nat, NEW s \in Seq(S), NEW x \in S
    PROVE  /\ Append(s, x) \in Seq(S)
           /\ In(Append(s, x)) = In(s) \cup {x}
           /\ Rising(s) /\ Below(In(s), {x}) => Rising(Append(s, x))
<1>1. Append(s, x) = s \o <<x>> /\ <<x>> \in Seq(S)
  OBVIOUS
<1>2. In(<<x>>) = {x} /\ Rising(<<x>>)
  BY DEF In, Rising
<1> DEFINE t == <<x>>
<1>3. Append(s, x) = s \o t /\ t \in Seq(S) /\ In(t) = {x} /\ Rising(t)
  BY <1>1, <1>2
<1> HIDE DEF t
<1>4. /\ s \o t \in Seq(S)
      /\ In(s \o t) = In(s) \cup In(t)
      /\ Rising(s) /\ Rising(t) /\ Below(In(s), In(t)) => Rising(s \o t)
  BY <1>3, InConcat
<1> QED
  BY <1>3, <1>4, Zenon

LEMMA CmdAppend ==
    ASSUME Cmds \subseteq Nat, NEW s \in Seq(Cmds), NEW x \in Cmds
    PROVE  /\ In(Append(s, x)) = In(s) \cup {x}
           /\ Rising(s) /\ Below(In(s), {x}) => Rising(Append(s, x))
<1>1. /\ Append(s, x) \in Seq(Cmds)
      /\ In(Append(s, x)) = In(s) \cup {x}
      /\ Rising(s) /\ Below(In(s), {x}) => Rising(Append(s, x))
  BY InAppend, ZenonT(30)
<1> QED
  BY <1>1, Zenon

LEMMA InFilter ==
    ASSUME NEW S, S \subseteq Nat, NEW s \in Seq(S), NEW Keep
    PROVE  /\ Filter(s, Keep) \in Seq(S)
           /\ Rising(s) => /\ Rising(Filter(s, Keep))
                           /\ In(Filter(s, Keep)) \subseteq In(s) \cap Keep
<1>1. Filter(s, Keep) \in Seq(S)
  BY FilterType
<1>2. ASSUME Rising(s)
      PROVE  Rising(Filter(s, Keep)) /\ In(Filter(s, Keep)) \subseteq In(s) \cap Keep
  <2>1. s \in Seq(Nat)
    <3>1. Len(s) \in Nat /\ s \in [1..Len(s) -> S]
      OBVIOUS
    <3>2. s \in [1..Len(s) -> Nat]
      BY <3>1
    <3>3. \E n \in Nat : s \in [1..n -> Nat]
      BY <3>1, <3>2
    <3>4. s \in UNION {[1..n -> Nat] : n \in Nat}
      BY <3>3
    <3> QED
      BY <3>4, SeqDef
  <2>2. Rising(Filter(s, Keep)) /\ Among(Filter(s, Keep), s, Len(s), Keep)
    BY <1>2, <2>1, FilterRises
  <2> QED
    BY <2>2 DEF Among, In
<1> QED
  BY <1>1, <1>2

\* The lists of commands.
LEMMA CmdsAre ==
    ASSUME TypeOK
    PROVE  /\ Cmds \subseteq Nat /\ Len(plan) \in Nat /\ <<>> \in CmdSeq
           /\ given \in Nat /\ 1..given \subseteq Cmds
           /\ \A c \in Cmds : Target(c) \in Parts \cup Elsewhere
               /\ Entry(c) \in {"module", "receiver"}
<1>1. plan \in Seq(Command) /\ given \in 0..Len(plan)
  BY DEF TypeOK
<1>2. Len(plan) \in Nat /\ \A c \in 1..Len(plan) : plan[c] \in Command
  BY <1>1
<1>3. given \in Nat /\ 1..given \subseteq 1..Len(plan) /\ 1..Len(plan) \subseteq Nat
  BY <1>1, <1>2
<1>4. <<>> \in Seq(Cmds)
  OBVIOUS
<1> QED
  BY <1>2, <1>3, <1>4 DEF Cmds, Target, Entry, Command, CmdSeq

-----------------------------------------------------------------------------
(* Types *)

LEMMA FaultType ==
    ASSUME TypeOK, Fault
    PROVE  faults' \in 0..MaxFaults
  BY ConstantsAssumption DEF Fault, TypeOK

\* The variables that Turn, the spare and the faults of others change beside the queues.
Daemons ==
    /\ mode \in [Arbs -> {"down", "waiting", "running"}]
    /\ pc \in [Arbs -> {"handle", "dispatch", "objects", "broks", "satellites", "push",
                        "expired"}]
    /\ must_run \in BOOLEAN /\ silence \in 0..MasterTimeout + 1 /\ cut \in BOOLEAN
    /\ broks \in [Arbs -> BOOLEAN] /\ brokerUp \in BOOLEAN /\ brokerAlive \in BOOLEAN
    /\ up \subseteq Schedulers /\ alive \subseteq Schedulers
    /\ assigned \in [Parts -> Schedulers \cup {None}]

Queues ==
    /\ from_q \in CmdSeq /\ q \in [Arbs -> CmdSeq]
    /\ rq \in CmdSeq /\ back \in CmdSeq /\ pack \in [Parts -> CmdSeq]
    /\ addr \in [Parts -> Schedulers \cup {None}] /\ con \subseteq Parts /\ todo \in Seq(Parts)
    /\ done \in [Schedulers -> CmdSeq] /\ again \subseteq Cmds
    /\ plan \in Seq(Command) /\ direct_routing \in BOOLEAN
    /\ given \in 0..Len(plan) /\ faults \in 0..MaxFaults

LEMMA Types == TypeOK <=> Daemons /\ Queues
  BY DEF TypeOK, Daemons, Queues

LEMMA InitTypes ==
    ASSUME Init
    PROVE  TypeOK
<1>1. PICK x \in Plans : plan = x.cmds /\ direct_routing = x.direct
  BY DEF Init
<1>2. plan \in Seq(Command) /\ direct_routing \in BOOLEAN
  BY <1>1, ConstantsAssumption
<1>3. given \in 0..Len(plan) /\ faults \in 0..MaxFaults
  BY <1>2, ConstantsAssumption DEF Init
<1>4. <<>> \in CmdSeq /\ <<>> \in Seq(Parts)
  BY DEF CmdSeq
<1>5. Daemons
  <2>1. FirstAssigned \in [Parts -> Schedulers \cup {None}]
    BY ConstantsAssumption
  <2>2. silence \in 0..MasterTimeout + 1
    BY ConstantsAssumption DEF Init
  <2> QED
    BY <2>1, <2>2 DEF Init, Daemons, Arbs
<1>6. addr \in [Parts -> Schedulers \cup {None}]
  BY <1>5 DEF Init, Daemons
<1>7. /\ from_q \in CmdSeq /\ q \in [Arbs -> CmdSeq] /\ rq \in CmdSeq /\ back \in CmdSeq
      /\ pack \in [Parts -> CmdSeq] /\ done \in [Schedulers -> CmdSeq] /\ todo \in Seq(Parts)
      /\ con \subseteq Parts /\ again \subseteq Cmds
  BY <1>4 DEF Init
<1> QED
  BY <1>2, <1>3, <1>5, <1>6, <1>7, Types DEF Queues

\* The daemons follow each other, fail and come back.
LEMMA DaemonsStep ==
    ASSUME Daemons, [Next]_vars
    PROVE  Daemons'
<1>1. CASE UNCHANGED <<arbVars, brokVars, schedVars>>
  BY <1>1 DEF Daemons, arbVars, brokVars, schedVars
<1>2. ASSUME NEW a \in Arbs, Turn(a) PROVE Daemons'
  <2>1. CASE handleRequests(a)
    BY <2>1, ConstantsAssumption DEF handleRequests, At, Goto, Daemons, brokVars, schedVars
  <2>2. CASE check_dispatch(a)
    <3>1. /\ pc' = [pc EXCEPT ![a] = "objects"] /\ alive' = up /\ brokerAlive' = brokerUp
          /\ assigned' \in [Parts -> Schedulers \cup {None}]
          /\ UNCHANGED <<mode, cut, broks, brokerUp, up>>
      BY <2>2 DEF check_dispatch, Goto
    <3>2. \/ must_run' = FALSE /\ silence' = 0
          \/ must_run' = must_run /\ silence' = silence
      BY <2>2 DEF check_dispatch
    <3>3. must_run \in BOOLEAN /\ brokerUp \in BOOLEAN
      BY DEF Daemons
    <3>4. silence \in 0..MasterTimeout + 1 /\ 0 \in 0..MasterTimeout + 1
      BY ConstantsAssumption DEF Daemons
    <3>5. must_run' \in BOOLEAN /\ silence' \in 0..MasterTimeout + 1 /\ brokerAlive' \in BOOLEAN
      BY <3>1, <3>2, <3>3, <3>4, Zenon
    <3> QED
      BY <3>1, <3>5 DEF Daemons
  <2>3. CASE get_objects_from_from_queues(a)
    BY <2>3 DEF get_objects_from_from_queues, At, Goto, Daemons, schedVars
  <2>4. CASE push_broks_to_broker(a)
    BY <2>4 DEF push_broks_to_broker, At, Goto, Daemons, schedVars
  <2>5. CASE get_external_commands_from_satellites(a)
    BY <2>5 DEF get_external_commands_from_satellites, At, Goto, Daemons, brokVars, schedVars
  <2>6. CASE push_external_commands_to_schedulers(a)
    BY <2>6 DEF push_external_commands_to_schedulers, At, Goto, Daemons, brokVars, schedVars
  <2> QED
    BY <1>2, <2>1, <2>2, <2>3, <2>4, <2>5, <2>6 DEF Turn
<1>3. CASE Waiting
  <2>1. CASE Second
    BY <2>1, ConstantsAssumption DEF Second, Daemons, brokVars, schedVars
  <2>2. CASE wait_for_master_death
    BY <2>2 DEF wait_for_master_death, Goto, Daemons, brokVars, schedVars
  <2>3. CASE TakeLead
    BY <2>3 DEF TakeLead, Goto, Daemons, brokVars, schedVars
  <2> QED
    BY <1>3, <2>1, <2>2, <2>3 DEF Waiting
<1>4. CASE MasterCrash
  BY <1>4 DEF MasterCrash, Daemons, brokVars, schedVars
<1>5. CASE MasterRestart
  BY <1>5 DEF MasterRestart, Daemons, brokVars, schedVars
<1>6. CASE Breaks
  BY <1>6 DEF Breaks, Daemons
<1>7. CASE Repaired
  BY <1>7 DEF Repaired, Daemons
<1>8. CASE Give
  BY <1>1, <1>8 DEF Give
<1>9. CASE Receiver
  <2>1. UNCHANGED <<arbVars, brokVars, schedVars>>
    BY <1>9 DEF Receiver, ForTheArbiter, resolve_command, ReceiverDies, setup_new_conf,
                NotConnected, NothingToSend, CallFails, Sent
  <2> QED
    BY <1>1, <2>1
<1>10. CASE UNCHANGED vars
  BY <1>1, <1>10 DEF vars
<1> QED
  BY <1>2, <1>3, <1>4, <1>5, <1>6, <1>7, <1>8, <1>9, <1>10 DEF Next

\* The steps that only move the daemons.
NoQueue == UNCHANGED <<from_q, q, recvVars, done, plan, given>>

LEMMA NoQueueTypes ==
    ASSUME TypeOK, NoQueue, Fault \/ faults' = faults
    PROVE  Queues'
<1>1. faults' \in 0..MaxFaults
  BY FaultType DEF TypeOK
<1> QED
  BY <1>1 DEF TypeOK, NoQueue, recvVars, Queues, CmdSeq, Cmds

\* A queue that follows another is one.
LEMMA ConcatType ==
    ASSUME TypeOK, NEW s \in CmdSeq, NEW t \in CmdSeq
    PROVE  s \o t \in CmdSeq
  BY DEF CmdSeq

LEMMA QueuesStep ==
    ASSUME TypeOK, [Next]_vars
    PROVE  Queues'
<1>0. /\ from_q \in CmdSeq /\ q \in [Arbs -> CmdSeq] /\ rq \in CmdSeq /\ back \in CmdSeq
      /\ pack \in [Parts -> CmdSeq] /\ done \in [Schedulers -> CmdSeq] /\ todo \in Seq(Parts)
      /\ con \subseteq Parts /\ again \subseteq Cmds /\ Cmds \subseteq Nat
      /\ <<>> \in CmdSeq /\ <<>> \in Seq(Parts) /\ PartSeq \in Seq(Parts)
  <2>1. PartSeq \in Seq(Parts)
    BY ConstantsAssumption
  <2> QED
    BY <2>1, CmdsAre DEF TypeOK
<1>1. CASE Give
  <2>1. given' \in 0..Len(plan) /\ given' \in Cmds
    BY <1>1 DEF Give, TypeOK, Cmds
  <2>2. from_q' \in CmdSeq /\ rq' \in CmdSeq
    <3>1. Append(from_q, given') \in CmdSeq /\ Append(rq, given') \in CmdSeq
      BY <1>0, <2>1 DEF CmdSeq
    <3>2. from_q' \in {from_q, Append(from_q, given')} /\ rq' \in {rq, Append(rq, given')}
      BY <1>1 DEF Give
    <3> QED
      BY <1>0, <3>1, <3>2, Zenon
  <2> QED
    BY <1>1, <2>1, <2>2 DEF Give, TypeOK, Queues, CmdSeq, Cmds
<1>2. ASSUME NEW a \in Arbs, Turn(a) PROVE Queues'
  <2>1. CASE handleRequests(a) \/ check_dispatch(a) \/ push_broks_to_broker(a)
    BY <2>1, NoQueueTypes DEF handleRequests, check_dispatch, push_broks_to_broker, NoQueue
  <2>2. CASE get_objects_from_from_queues(a)
    <3>1. q[a] \o from_q \in CmdSeq
      BY <1>0, ConcatType
    <3>2. from_q' \in CmdSeq /\ q' \in [Arbs -> CmdSeq]
      BY <1>0, <2>2, <3>1 DEF get_objects_from_from_queues
    <3> QED
      BY <2>2, <3>2 DEF get_objects_from_from_queues, TypeOK, Queues, CmdSeq, Cmds, recvVars
  <2>3. CASE get_external_commands_from_satellites(a)
    <3>1. q[a] \o Returned(back) \in CmdSeq
      BY <1>0, ConcatType DEF Returned
    <3>2. back' \in CmdSeq /\ q' \in [Arbs -> CmdSeq]
      BY <1>0, <2>3, <3>1 DEF get_external_commands_from_satellites
    <3> QED
      BY <2>3, <3>2 DEF get_external_commands_from_satellites, TypeOK, Queues, CmdSeq, Cmds
  <2>4. CASE push_external_commands_to_schedulers(a)
    <3>1. q' \in [Arbs -> CmdSeq]
      BY <1>0, <2>4 DEF push_external_commands_to_schedulers
    <3>2. ASSUME NEW s \in Schedulers
          PROVE  done[s] \o run_external_commands(s,
                                                  search_host_and_dispatch(s, q[a])) \in CmdSeq
      <4>1. search_host_and_dispatch(s, q[a]) \in CmdSeq
        BY <1>0, FilterType DEF search_host_and_dispatch, CmdSeq
      <4>2. run_external_commands(s, search_host_and_dispatch(s, q[a])) \in CmdSeq
        BY <4>1, FilterType DEF run_external_commands, CmdSeq
      <4> QED
        BY <1>0, <4>2, ConcatType
    <3>3. done' \in [Schedulers -> CmdSeq]
      BY <1>0, <2>4, <3>2 DEF push_external_commands_to_schedulers
    <3> QED
      BY <2>4, <3>1, <3>3 DEF push_external_commands_to_schedulers, TypeOK, Queues, CmdSeq,
                              Cmds, recvVars
  <2> QED
    BY <1>2, <2>1, <2>2, <2>3, <2>4 DEF Turn
<1>3. CASE Waiting
  BY <1>3, NoQueueTypes DEF Waiting, Second, wait_for_master_death, TakeLead, NoQueue
<1>4. CASE MasterCrash
  <2>1. faults' \in 0..MaxFaults
    BY <1>4, FaultType DEF MasterCrash
  <2>2. from_q' \in CmdSeq /\ q' \in [Arbs -> CmdSeq]
    BY <1>0, <1>4 DEF MasterCrash
  <2> QED
    BY <1>4, <2>1, <2>2 DEF MasterCrash, TypeOK, Queues, CmdSeq, Cmds, recvVars
<1>5. CASE MasterRestart \/ Breaks \/ Repaired
  BY <1>5, NoQueueTypes DEF MasterRestart, Breaks, Repaired, NoQueue
<1>6. CASE ForTheArbiter
  <2>1. back' \in CmdSeq /\ rq' \in CmdSeq
    BY <1>0, <1>6, ConcatType DEF ForTheArbiter
  <2> QED
    BY <1>6, <2>1 DEF ForTheArbiter, TypeOK, Queues, CmdSeq, Cmds
<1>7. CASE resolve_command
  <2>1. ASSUME NEW p \in Parts PROVE pack[p] \o ForPart(p) \in CmdSeq
    <3>1. ForPart(p) \in CmdSeq
      BY <1>0, FilterType DEF ForPart, CmdSeq
    <3> QED
      BY <1>0, <3>1, ConcatType
  <2>2. pack' \in [Parts -> CmdSeq] /\ rq' \in CmdSeq /\ todo' \in Seq(Parts)
    BY <1>0, <1>7, <2>1 DEF resolve_command
  <2> QED
    BY <1>7, <2>2 DEF resolve_command, TypeOK, Queues, CmdSeq, Cmds
<1>8. CASE ReceiverDies
  <2>1. rq' \in CmdSeq /\ back' \in CmdSeq /\ pack' \in [Parts -> CmdSeq]
    BY <1>0, <1>8 DEF ReceiverDies
  <2> QED
    BY <1>8, <2>1 DEF ReceiverDies, TypeOK, Queues, CmdSeq, Cmds
<1>9. ASSUME NEW p \in Parts,
             setup_new_conf(p) \/ NotConnected(p) \/ NothingToSend(p) \/ CallFails(p)
      PROVE  Queues'
  <2>1. todo # <<>> => Tail(todo) \in Seq(Parts)
    BY <1>0
  <2>2. [pack EXCEPT ![p] = <<>>] \in [Parts -> CmdSeq] /\ back \o pack[p] \in CmdSeq
    BY <1>0, ConcatType
  <2>3. CASE setup_new_conf(p)
    <3>1. addr' \in [Parts -> Schedulers \cup {None}] /\ con' \subseteq Parts
      BY <2>3 DEF setup_new_conf, TypeOK
    <3> QED
      BY <2>2, <2>3, <3>1 DEF setup_new_conf, TypeOK, Queues, CmdSeq, Cmds
  <2>4. CASE NotConnected(p)
    BY <2>1, <2>2, <2>4 DEF NotConnected, SendTo, TypeOK, Queues, CmdSeq, Cmds
  <2>5. CASE NothingToSend(p)
    BY <2>1, <2>5 DEF NothingToSend, SendTo, TypeOK, Queues, CmdSeq, Cmds
  <2>6. CASE CallFails(p)
    BY <1>0, <2>6 DEF CallFails, TypeOK, Queues, CmdSeq, Cmds
  <2> QED
    BY <1>9, <2>3, <2>4, <2>5, <2>6
<1>10. ASSUME NEW p \in Parts, NEW answered \in BOOLEAN, Sent(p, answered) PROVE Queues'
  <2>1. run_external_commands(addr[p], pack[p]) \in CmdSeq
    BY <1>0, FilterType DEF run_external_commands, CmdSeq
  <2>2. \A s \in Schedulers : done[s] \o run_external_commands(addr[p], pack[p]) \in CmdSeq
    BY <1>0, <2>1, ConcatType
  <2>3. done' \in [Schedulers -> CmdSeq] /\ con' \subseteq Parts
    BY <1>0, <1>10, <2>2 DEF Sent
  <2>4. ToSet(pack[p]) \subseteq Cmds
    BY <1>0 DEF ToSet, CmdSeq
  <2>5. pack' \in [Parts -> CmdSeq] /\ todo' \in Seq(Parts) /\ again' \subseteq Cmds
    <3>1. todo # <<>> => Tail(todo) \in Seq(Parts)
      BY <1>0
    <3>2. [pack EXCEPT ![p] = <<>>] \in [Parts -> CmdSeq]
      BY <1>0
    <3>3. CASE answered
      BY <1>0, <1>10, <3>1, <3>2, <3>3 DEF Sent, SendTo
    <3>4. CASE ~answered
      BY <1>0, <1>10, <2>4, <3>4 DEF Sent
    <3> QED
      BY <3>3, <3>4
  <2>6. faults' \in 0..MaxFaults
    <3>1. Fault \/ faults' = faults
      BY <1>10 DEF Sent
    <3> QED
      BY <3>1, FaultType DEF TypeOK
  <2> QED
    BY <1>10, <2>3, <2>5, <2>6 DEF Sent, TypeOK, Queues, CmdSeq, Cmds
<1>11. CASE UNCHANGED vars
  BY <1>11, NoQueueTypes DEF vars, NoQueue
<1> QED
  BY <1>1, <1>2, <1>3, <1>4, <1>5, <1>6, <1>7, <1>8, <1>9, <1>10, <1>11 DEF Next, Receiver

LEMMA TypeStep ==
    ASSUME TypeOK, [Next]_vars
    PROVE  TypeOK'
<1>1. Daemons'
  BY DaemonsStep, Types
<1>2. Queues'
  BY QueuesStep
<1> QED
  BY <1>1, <1>2 DEF TypeOK, Daemons, Queues

-----------------------------------------------------------------------------
(* Order *)

\* The place of an element of two lists.
LEMMA ConcatIndex ==
    ASSUME NEW S, NEW s \in Seq(S), NEW t \in Seq(S), NEW i \in 1..Len(s \o t)
    PROVE  \/ i \in 1..Len(s) /\ (s \o t)[i] = s[i] /\ s[i] \in S
           \/ i - Len(s) \in 1..Len(t) /\ (s \o t)[i] = t[i - Len(s)] /\ t[i - Len(s)] \in S
  OBVIOUS

LEMMA WaitingGiven ==
    ASSUME TypeOK, ModuleWay, ReceiverWay
    PROVE  WaitingCmds \subseteq 1..given
<1>1. Given("module") \subseteq 1..given /\ Given("receiver") \subseteq 1..given
  BY DEF Given
<1>2. \A p \in Parts : In(pack[p]) \subseteq 1..given
  BY <1>1 DEF ReceiverWay
<1> QED
  BY <1>1, <1>2 DEF WaitingCmds, ModuleWay, ReceiverWay

\* What is run stays before what waits, when only later commands join these.
LEMMA StillBefore ==
    ASSUME TypeOK, DoneBefore, DoneInOrder, AtMostOnce, UNCHANGED <<plan, done, again>>,
           given' \in Nat, given <= given',
           \A c \in WaitingCmds' : c \in WaitingCmds \/ (c \in Nat /\ given < c)
    PROVE  DoneBefore' /\ DoneInOrder' /\ AtMostOnce'
<1>1. DoneInOrder' /\ AtMostOnce'
  BY DEF DoneInOrder, AtMostOnce, Similar, Entry, Target
<1>2. given \in Nat
  BY CmdsAre
<1>3. ASSUME NEW s \in Schedulers, NEW d \in In(done[s])
      PROVE  /\ d \in 1..given'
             /\ \A c \in WaitingCmds' : Similar(d, c) /\ d \notin again => d < c
  <2>1. d \in 1..given /\ \A c \in WaitingCmds : Similar(d, c) /\ d \notin again => d < c
    BY <1>3 DEF DoneBefore
  <2>2. \A c \in Nat : given < c => d < c
    BY <1>2, <2>1
  <2>3. d \in 1..given'
    BY <1>2, <2>1
  <2> QED
    BY <2>1, <2>2, <2>3
<1>4. DoneBefore'
  BY <1>3 DEF DoneBefore, Similar, Entry, Target
<1> QED
  BY <1>1, <1>4

\* Schedulers run lists of waiting commands, each about its own parts.
LEMMA RunsKeep ==
    ASSUME TypeOK, ModuleWay, ReceiverWay, DoneBefore, DoneInOrder, AtMostOnce,
           UNCHANGED <<plan, given>>, again \subseteq again', NEW L,
           \A s \in Schedulers :
             /\ L[s] \in CmdSeq /\ Rising(L[s]) /\ In(L[s]) \subseteq WaitingCmds
             /\ done'[s] = done[s] \o L[s]
             /\ \A c \in In(L[s]) : Target(c) \in Parts => assigned[Target(c)] = s,
           WaitingCmds' \subseteq WaitingCmds,
           \A s \in Schedulers : \A d \in In(L[s]), c \in WaitingCmds' :
             Similar(d, c) /\ d \notin again' => d < c
    PROVE  DoneBefore' /\ DoneInOrder' /\ AtMostOnce'
<1>1. /\ Cmds \subseteq Nat /\ WaitingCmds \subseteq 1..given
      /\ \A s \in Schedulers : done[s] \in Seq(Cmds) /\ L[s] \in Seq(Cmds)
  BY CmdsAre, WaitingGiven DEF TypeOK, CmdSeq
<1>2. \A c, d : Similar(c, d)' <=> Similar(c, d)
  BY DEF Similar, Entry, Target
<1>3. \A c : Target(c)' = Target(c)
  BY DEF Target
<1>4. \A s \in Schedulers : \A d \in In(done[s]), c \in WaitingCmds :
        Similar(d, c) /\ d \notin again => d < c
  BY DEF DoneBefore
<1>5. ASSUME NEW s \in Schedulers
      PROVE  /\ Len(done[s]) \in Nat /\ Len(L[s]) \in Nat
             /\ DOMAIN done[s] = 1..Len(done[s]) /\ DOMAIN done'[s] = 1..Len(done'[s])
             /\ \A i \in 1..Len(done'[s]) :
                  \/ i \in 1..Len(done[s]) /\ done'[s][i] = done[s][i]
                      /\ done[s][i] \in In(done[s])
                  \/ /\ i - Len(done[s]) \in 1..Len(L[s])
                      /\ done'[s][i] = L[s][i - Len(done[s])]
                     /\ L[s][i - Len(done[s])] \in In(L[s])
  <2> DEFINE x == done[s]
             y == L[s]
  <2>1. x \in Seq(Cmds) /\ y \in Seq(Cmds) /\ done'[s] = x \o y
    BY <1>1
  <2> HIDE DEF x, y
  <2>2. Len(x) \in Nat /\ Len(y) \in Nat /\ DOMAIN x = 1..Len(x)
      /\ DOMAIN (x \o y) = 1..Len(x \o y)
    BY <2>1
  <2>3. \A i \in 1..Len(x \o y) : \/ i \in 1..Len(x) /\ (x \o y)[i] = x[i]
                                  \/ i - Len(x) \in 1..Len(y) /\ (x \o y)[i] = y[i - Len(x)]
    BY <2>1, ConcatIndex
  <2>4. \A i \in 1..Len(x) : x[i] \in In(x)
    BY DEF In
  <2>5. \A i \in 1..Len(y) : y[i] \in In(y)
    BY DEF In
  <2>6. \A i \in 1..Len(x \o y) :
          \/ i \in 1..Len(x) /\ (x \o y)[i] = x[i] /\ x[i] \in In(x)
          \/ i - Len(x) \in 1..Len(y) /\ (x \o y)[i] = y[i - Len(x)] /\ y[i - Len(x)] \in In(y)
    BY <2>3, <2>4, <2>5
  <2> QED
    BY <2>1, <2>2, <2>6 DEF x, y
<1>6. DoneBefore'
  <2> SUFFICES ASSUME NEW s \in Schedulers, NEW i \in 1..Len(done'[s])
               PROVE  /\ done'[s][i] \in 1..given
                      /\ \A c \in WaitingCmds' :
                           Similar(done'[s][i], c)
                               /\ done'[s][i] \notin again' => done'[s][i] < c
    BY <1>2 DEF DoneBefore, In
  <2>1. CASE done'[s][i] \in In(done[s])
    BY <1>4, <2>1 DEF DoneBefore
  <2>2. CASE done'[s][i] \in In(L[s])
    BY <1>1, <2>2
  <2> QED
    BY <1>5, <2>1, <2>2
<1>7. DoneInOrder'
  <2> SUFFICES ASSUME NEW s \in Schedulers, NEW m \in 1..Len(done'[s]),
      NEW n \in 1..Len(done'[s]),
                      m < n, Similar(done'[s][m], done'[s][n]), done'[s][m] \notin again'
               PROVE  done'[s][m] < done'[s][n]
    BY <1>2 DEF DoneInOrder
  <2> DEFINE k == Len(done[s])
  <2>1. k \in Nat /\ m \in Int /\ n \in Int /\ done'[s][m] \notin again
    BY <1>5
  <2>2. CASE m \in 1..k /\ n \in 1..k
    BY <1>5, <2>1, <2>2 DEF DoneInOrder
  <2>3. CASE m \in 1..k /\ n - k \in 1..Len(L[s])
    <3>1. done'[s][m] \in In(done[s]) /\ done'[s][n] \in WaitingCmds
      <4>1. m - k \notin 1..Len(L[s]) /\ n \notin 1..k
        BY <2>1, <2>3
      <4> QED
        BY <1>5, <4>1
    <3> QED
      BY <1>4, <2>1, <3>1
  <2>4. CASE m - k \in 1..Len(L[s]) /\ n - k \in 1..Len(L[s])
    <3>1. m \notin 1..k /\ n \notin 1..k /\ m - k < n - k
      BY <2>1, <2>4
    <3>2. done'[s][m] = L[s][m - k] /\ done'[s][n] = L[s][n - k]
      BY <1>5, <3>1
    <3> QED
      BY <2>4, <3>1, <3>2 DEF Rising
  <2>5. CASE m - k \in 1..Len(L[s]) /\ n \in 1..k
    BY <2>1, <2>5
  <2> QED
    BY <1>5, <2>2, <2>3, <2>4, <2>5
<1>8. AtMostOnce'
  <2> SUFFICES ASSUME NEW s \in Schedulers, NEW t \in Schedulers,
                      NEW m \in DOMAIN done'[s], NEW n \in DOMAIN done'[t],
                      done'[s][m] = done'[t][n], Target(done'[s][m]) \in Parts,
                      done'[s][m] \notin again'
               PROVE  s = t /\ m = n
    BY <1>3 DEF AtMostOnce
  <2>a. m \in 1..Len(done'[s]) /\ n \in 1..Len(done'[t])
    BY <1>5
  <2> DEFINE c == done'[s][m]
             j == Len(done[s])
             k == Len(done[t])
  <2>b. Target(c) \in Parts /\ c \notin again
    OBVIOUS
  <2>1. /\ j \in Nat /\ k \in Nat /\ m \in Int /\ n \in Int
        /\ DOMAIN done[s] = 1..j /\ DOMAIN done[t] = 1..k
    BY <1>5, <2>a
  <2>2. /\ (m \in 1..j /\ c = done[s][m] /\ c \in In(done[s]))
             \/ (m - j \in 1..Len(L[s]) /\ c = L[s][m - j] /\ c \in In(L[s]))
        /\ (n \in 1..k /\ c = done[t][n] /\ c \in In(done[t]))
             \/ (n - k \in 1..Len(L[t]) /\ c = L[t][n - k] /\ c \in In(L[t]))
    <3>1. \/ m \in 1..j /\ c = done[s][m] /\ c \in In(done[s])
          \/ m - j \in 1..Len(L[s]) /\ c = L[s][m - j] /\ c \in In(L[s])
      BY <1>5, <2>a
    <3>2. \/ n \in 1..k /\ done'[t][n] = done[t][n] /\ done'[t][n] \in In(done[t])
          \/ /\ n - k \in 1..Len(L[t]) /\ done'[t][n] = L[t][n - k]
             /\ done'[t][n] \in In(L[t])
      BY <1>5, <2>a
    <3>3. c = done'[t][n]
      OBVIOUS
    <3> QED
      BY <3>1, <3>2, <3>3, Zenon
  <2> HIDE DEF c
  <2>3. \A r, u \in Schedulers : ~(c \in In(done[r]) /\ c \in In(L[u]))
    <3> SUFFICES ASSUME NEW r \in Schedulers, NEW u \in Schedulers, c \in In(done[r]),
        c \in In(L[u])
                 PROVE  FALSE
      OBVIOUS
    <3>a. c \in WaitingCmds
      OBVIOUS
    <3>b. Similar(c, c)
      BY DEF Similar
    <3>c. c \in Nat
      <4>1. 1..given \subseteq Nat
        BY CmdsAre
      <4> QED
        BY <1>1, <3>a, <4>1
    <3>1. c \in WaitingCmds /\ c \in Nat /\ Similar(c, c)
      BY <3>a, <3>b, <3>c
    <3>2. c < c
      BY <1>4, <2>b, <3>1
    <3> QED
      BY <3>1, <3>2
  <2>4. CASE m \in 1..j /\ c = done[s][m] /\ n \in 1..k /\ c = done[t][n]
    <3>1. /\ m \in DOMAIN done[s] /\ n \in DOMAIN done[t] /\ done[s][m] = done[t][n]
          /\ Target(done[s][m]) \in Parts /\ done[s][m] \notin again
      BY <2>1, <2>4, <2>b, Zenon
    <3>2. \A x, y \in Schedulers : \A a \in DOMAIN done[x], b \in DOMAIN done[y] :
            done[x][a] = done[y][b] /\ Target(done[x][a]) \in Parts /\ done[x][a] \notin again
              => x = y /\ a = b
      BY DEF AtMostOnce
    <3> QED
      BY <3>1, <3>2
  <2>5. CASE /\ m - j \in 1..Len(L[s]) /\ c = L[s][m - j] /\ c \in In(L[s])
             /\ n - k \in 1..Len(L[t]) /\ c = L[t][n - k] /\ c \in In(L[t])
    <3>1. s = t
      BY <2>5, <2>b
    <3>2. c \in WaitingCmds
      BY <2>5
    <3>3. ~(c < c)
      BY <1>1, <3>2
    <3>4. Rising(L[s])
      OBVIOUS
    <3> DEFINE a == m - j
               b == n - k
    <3>5. a \in 1..Len(L[s]) /\ b \in 1..Len(L[s]) /\ c = L[s][a] /\ c = L[s][b]
      BY <2>5, <3>1
    <3>6. /\ j = k
          /\ a = b => m = n
          /\ a < b \/ b < a \/ a = b
      BY <2>1, <3>1
    <3> HIDE DEF a, b
    <3>7. \A x, y \in 1..Len(L[s]) : x < y => L[s][x] < L[s][y]
      BY <3>4 DEF Rising
    <3>8. a < b => L[s][a] < L[s][b]
      BY <3>5, <3>7, Zenon
    <3>9. b < a => L[s][b] < L[s][a]
      BY <3>5, <3>7, Zenon
    <3>10. ~(a < b) /\ ~(b < a)
      BY <3>3, <3>5, <3>8, <3>9, Zenon
    <3> QED
      BY <3>1, <3>6, <3>10
  <2> QED
    BY <2>2, <2>3, <2>4, <2>5
<1> QED
  BY <1>6, <1>7, <1>8

-----------------------------------------------------------------------------
(* The steps *)

Others == DoneBefore /\ DoneInOrder /\ AtMostOnce

LEMMA GivenGrows ==
    ASSUME TypeOK, plan' = plan, given' \in Nat, given <= given'
    PROVE  \A by : Given(by) \subseteq Given(by)'
<1>1. given \in Nat
  BY CmdsAre
<1>2. 1..given \subseteq 1..given'
  BY <1>1
<1> QED
  BY <1>2 DEF Given, Entry

LEMMA ModuleStays ==
    ASSUME TypeOK, ModuleWay, UNCHANGED <<plan, from_q, q>>, given' \in Nat, given <= given'
    PROVE  ModuleWay'
<1>1. Given("module") \subseteq Given("module")'
  BY GivenGrows
<1> QED
  BY <1>1 DEF ModuleWay

LEMMA ReceiverStays ==
    ASSUME TypeOK, ReceiverWay, UNCHANGED <<plan, rq, pack>>, given' \in Nat, given <= given'
    PROVE  ReceiverWay'
<1>1. Given("receiver") \subseteq Given("receiver")'
  BY GivenGrows
<1>2. \A c : Target(c)' = Target(c)
  BY DEF Target
<1> QED
  BY <1>1, <1>2 DEF ReceiverWay

\* Nothing that the invariant is about changes.
LEMMA QuietStep ==
    ASSUME IInv, UNCHANGED <<from_q, q, rq, pack, done, again, plan, given>>
    PROVE  ModuleWay' /\ ReceiverWay' /\ Others'
<1>1. TypeOK /\ ModuleWay /\ ReceiverWay /\ DoneBefore /\ DoneInOrder /\ AtMostOnce
  BY DEF IInv
<1>2. given' \in Nat /\ given <= given'
  BY <1>1, CmdsAre
<1>3. WaitingCmds' = WaitingCmds
  BY DEF WaitingCmds
<1> QED
  BY <1>1, <1>2, <1>3, ModuleStays, ReceiverStays, StillBefore DEF Others

\* The types of the queues, as the steps below use them.
LEMMA QueueTypes ==
    ASSUME TypeOK
    PROVE  /\ from_q \in Seq(Cmds) /\ q["master"] \in Seq(Cmds) /\ q["spare"] \in Seq(Cmds)
           /\ rq \in Seq(Cmds) /\ \A p \in Parts : pack[p] \in Seq(Cmds)
  BY DEF TypeOK, CmdSeq, Arbs

\* The next command is later than all others.
LEMMA GiveStep ==
    ASSUME IInv, Give
    PROVE  ModuleWay' /\ ReceiverWay' /\ Others'
<1>1. TypeOK /\ ModuleWay /\ ReceiverWay /\ DoneBefore /\ DoneInOrder /\ AtMostOnce
  BY DEF IInv
<1> DEFINE g == given + 1
<1>2. given' = g /\ UNCHANGED <<q, pack, done, again, plan>> /\ given < Len(plan)
  BY DEF Give
<1>3. given \in Nat /\ g \in Nat /\ g \in 1..g /\ g \in Cmds /\ Cmds \subseteq Nat /\ given <= g
    /\ given < g
  <2>1. given \in Nat /\ Len(plan) \in Nat
    BY <1>1, CmdsAre
  <2> QED
    BY <1>2, <2>1 DEF Cmds
<1>4. \A c \in 1..given : c < g
  BY <1>3
<1>5. \A by : Given(by) \subseteq Given(by)' /\ Given(by) \subseteq 1..given
  BY <1>1, <1>2, <1>3, GivenGrows DEF Given
<1>6. \/ Entry(g) = "module" /\ from_q' = Append(from_q, g) /\ rq' = rq
      \/ Entry(g) # "module" /\ rq' = Append(rq, g) /\ from_q' = from_q
  BY <1>2 DEF Give
<1> HIDE DEF g
<1>7. CASE Entry(g) = "module" /\ from_q' = Append(from_q, g) /\ rq' = rq
  <2>1. g \in Given("module")'
    BY <1>2, <1>3, <1>7 DEF Given, Entry
  <2>2. Below(In(from_q), {g}) /\ Below(In(q["master"]), {g})
    BY <1>1, <1>4, <1>5 DEF ModuleWay, Below
  <2>3. from_q \in Seq(Cmds)
    BY <1>1, QueueTypes
  <2>4. In(from_q') = In(from_q) \cup {g} /\ Rising(from_q')
    <3>1. /\ In(Append(from_q, g)) = In(from_q) \cup {g}
          /\ Rising(from_q) /\ Below(In(from_q), {g}) => Rising(Append(from_q, g))
      <4>1. Cmds \subseteq Nat /\ g \in Cmds
        BY <1>3
      <4> QED
        BY <2>3, <4>1, CmdAppend
    <3> QED
      BY <1>1, <1>7, <2>2, <3>1 DEF ModuleWay
  <2>5. ModuleWay'
    BY <1>1, <1>2, <1>5, <2>1, <2>2, <2>4 DEF ModuleWay, Below
  <2>6. ReceiverWay'
    BY <1>1, <1>2, <1>3, <1>7, ReceiverStays
  <2>7. WaitingCmds' = WaitingCmds \cup {g}
    BY <1>2, <1>7, <2>4 DEF WaitingCmds
  <2> QED
    BY <1>1, <1>2, <1>3, <2>5, <2>6, <2>7, StillBefore DEF Others
<1>8. CASE Entry(g) # "module" /\ rq' = Append(rq, g) /\ from_q' = from_q
  <2>1. g \in Given("receiver")'
    <3>1. Entry(g) = "receiver"
      BY <1>1, <1>3, <1>8, CmdsAre
    <3> QED
      BY <1>2, <1>3, <3>1 DEF Given, Entry
  <2>2. Below(In(rq), {g}) /\ \A p \in Parts : Below(In(pack[p]), {g})
    BY <1>1, <1>4, <1>5 DEF ReceiverWay, Below
  <2>3. rq \in Seq(Cmds)
    BY <1>1, QueueTypes
  <2>4. In(rq') = In(rq) \cup {g} /\ Rising(rq')
    <3>1. /\ In(Append(rq, g)) = In(rq) \cup {g}
          /\ Rising(rq) /\ Below(In(rq), {g}) => Rising(Append(rq, g))
      <4>1. Cmds \subseteq Nat /\ g \in Cmds
        BY <1>3
      <4> QED
        BY <2>3, <4>1, CmdAppend
    <3> QED
      BY <1>1, <1>8, <2>2, <3>1 DEF ReceiverWay
  <2>5. ReceiverWay'
    <3>1. \A c : Target(c)' = Target(c)
      BY <1>2 DEF Target
    <3> QED
      BY <1>1, <1>2, <1>5, <2>1, <2>2, <2>4, <3>1 DEF ReceiverWay, Below
  <2>6. ModuleWay'
    BY <1>1, <1>2, <1>3, <1>8, ModuleStays
  <2>7. WaitingCmds' = WaitingCmds \cup {g}
    BY <1>2, <1>8, <2>4 DEF WaitingCmds
  <2> QED
    BY <1>1, <1>2, <1>3, <2>5, <2>6, <2>7, StillBefore DEF Others
<1> QED
  BY <1>6, <1>7, <1>8

\* The arbiter collects commands, or loses them.
LEMMA CollectStep ==
    ASSUME IInv,
           \/ \E a \in Arbs : get_objects_from_from_queues(a) \/ get_external_commands_from_satellites(a)
           \/ MasterCrash
    PROVE  ModuleWay' /\ ReceiverWay' /\ Others'
<1>1. TypeOK /\ ModuleWay /\ ReceiverWay /\ DoneBefore /\ DoneInOrder /\ AtMostOnce
  BY DEF IInv
<1>2. UNCHANGED <<rq, pack, done, again, plan, given>>
  BY DEF get_objects_from_from_queues, get_external_commands_from_satellites, MasterCrash,
      recvVars
<1>3. given \in Nat /\ given' \in Nat /\ given <= given' /\ Cmds \subseteq Nat
  BY <1>1, <1>2, CmdsAre
<1>4. /\ from_q \in Seq(Cmds) /\ q["master"] \in Seq(Cmds) /\ q["spare"] \in Seq(Cmds)
      /\ q \in [Arbs -> CmdSeq] /\ Arbs = {"master", "spare"}
  BY <1>1, QueueTypes DEF TypeOK, Arbs
<1> DEFINE Collected ==
             /\ q'["spare"] = q["spare"]
             /\ \/ q'["master"] = q["master"] \o from_q /\ from_q' = <<>>
                \/ q'["master"] = q["master"] /\ from_q' = from_q
                \/ q'["master"] = <<>> /\ from_q' = <<>>
<1>5. Collected
  <2>1. ASSUME NEW a \in Arbs, get_objects_from_from_queues(a) PROVE Collected
    <3>1. CASE a = "master"
      BY <1>4, <2>1, <3>1 DEF get_objects_from_from_queues
    <3>2. CASE a = "spare"
      BY <1>4, <2>1, <3>2 DEF get_objects_from_from_queues
    <3> QED
      BY <1>4, <3>1, <3>2
  <2>2. ASSUME NEW a \in Arbs, get_external_commands_from_satellites(a) PROVE Collected
    <3>1. q["master"] \o <<>> = q["master"] /\ q["spare"] \o <<>> = q["spare"]
      BY <1>4
    <3>2. from_q' = from_q /\ q' = [q EXCEPT ![a] = @ \o <<>>]
      BY <2>2 DEF get_external_commands_from_satellites, Returned
    <3> QED
      BY <1>4, <3>1, <3>2
  <2>3. CASE MasterCrash
    BY <1>4, <2>3 DEF MasterCrash
  <2> QED
    BY <2>1, <2>2, <2>3
<1>6. /\ In(q["master"] \o from_q) = In(q["master"]) \cup In(from_q)
      /\ Rising(q["master"] \o from_q)
  <2> DEFINE x == q["master"]
  <2>1. x \in Seq(Cmds)
    BY <1>4
  <2> HIDE DEF x
  <2>2. /\ In(x \o from_q) = In(x) \cup In(from_q)
        /\ Rising(x) /\ Rising(from_q) /\ Below(In(x), In(from_q)) => Rising(x \o from_q)
    BY <1>3, <1>4, <2>1, InConcat
  <2> QED
    BY <1>1, <2>2 DEF ModuleWay, x
<1>7. ModuleWay'
  <2>1. Given("module")' = Given("module")
    BY <1>2 DEF Given, Entry
  <2> QED
    BY <1>1, <1>5, <1>6, <2>1, InEmpty DEF ModuleWay, Below
<1>8. ReceiverWay'
  BY <1>1, <1>2, <1>3, ReceiverStays
<1>9. WaitingCmds' \subseteq WaitingCmds
  BY <1>2, <1>5, <1>6, InEmpty DEF WaitingCmds
<1> QED
  BY <1>1, <1>2, <1>3, <1>7, <1>8, <1>9, StillBefore DEF Others

\* The receiver drops the commands of some of its lists, or leaves them to the arbiter.
LEMMA DropStep ==
    ASSUME IInv,
           \/ ForTheArbiter \/ ReceiverDies
           \/ \E p \in Parts : setup_new_conf(p) \/ NotConnected(p)
    PROVE  ModuleWay' /\ ReceiverWay' /\ Others'
<1>1. TypeOK /\ ModuleWay /\ ReceiverWay /\ DoneBefore /\ DoneInOrder /\ AtMostOnce
  BY DEF IInv
<1>2. UNCHANGED <<from_q, q, done, again, plan, given>>
  BY DEF ForTheArbiter, ReceiverDies, setup_new_conf, NotConnected
<1>3. given \in Nat /\ given' \in Nat /\ given <= given' /\ pack \in [Parts -> CmdSeq]
  BY <1>1, <1>2, CmdsAre DEF TypeOK
<1>4. rq' \in {rq, <<>>} /\ \A p \in Parts : pack'[p] \in {pack[p], <<>>}
  BY <1>3 DEF ForTheArbiter, ReceiverDies, setup_new_conf, NotConnected
<1>5. /\ In(rq') \subseteq In(rq) /\ (Rising(rq) => Rising(rq'))
      /\ \A p \in Parts : In(pack'[p]) \subseteq In(pack[p])
          /\ (Rising(pack[p]) => Rising(pack'[p]))
  BY <1>4, InEmpty
<1>6. ModuleWay'
  BY <1>1, <1>2, <1>3, ModuleStays
<1>7. ReceiverWay'
  <2>1. Given("receiver")' = Given("receiver") /\ \A c : Target(c)' = Target(c)
    BY <1>2 DEF Given, Entry, Target
  <2> QED
    BY <1>1, <1>5, <2>1 DEF ReceiverWay, Below
<1>8. WaitingCmds' \subseteq WaitingCmds
  BY <1>2, <1>5 DEF WaitingCmds
<1> QED
  BY <1>1, <1>2, <1>3, <1>6, <1>7, <1>8, StillBefore DEF Others

\* The new commands follow those of their part that could not be sent.
LEMMA ResolveStep ==
    ASSUME IInv, resolve_command
    PROVE  ModuleWay' /\ ReceiverWay' /\ Others'
<1>1. TypeOK /\ ModuleWay /\ ReceiverWay /\ DoneBefore /\ DoneInOrder /\ AtMostOnce
  BY DEF IInv
<1>2. UNCHANGED <<from_q, q, done, again, plan, given>> /\ rq' = <<>>
  BY DEF resolve_command
<1>3. given \in Nat /\ given' \in Nat /\ given <= given' /\ Cmds \subseteq Nat
  BY <1>1, <1>2, CmdsAre
<1>4. ASSUME NEW p \in Parts
      PROVE  /\ Rising(pack'[p]) /\ In(pack'[p]) \subseteq In(pack[p]) \cup In(rq)
             /\ In(pack'[p]) \subseteq {c \in Given("receiver") : Target(c) = p}
  <2> DEFINE x == pack[p]
             y == ForPart(p)
             Keep == {c \in Cmds : Target(c) = p}
  <2>1. x \in Seq(Cmds) /\ rq \in Seq(Cmds)
    BY <1>1, QueueTypes
  <2>2. pack'[p] = x \o y /\ y = Filter(rq, Keep)
    BY DEF resolve_command, ForPart
  <2>3. Rising(rq) /\ Rising(x) /\ Below(In(x), In(rq))
    BY <1>1 DEF ReceiverWay
  <2>4. \A c \in Keep : Target(c) = p
    OBVIOUS
  <2>5. In(x) \subseteq {c \in Given("receiver") : Target(c) = p}
      /\ In(rq) \subseteq Given("receiver")
    BY <1>1 DEF ReceiverWay
  <2> HIDE DEF x, y, Keep
  <2>6. y \in Seq(Cmds) /\ Rising(y) /\ In(y) \subseteq In(rq) \cap Keep
    BY <1>3, <2>1, <2>2, <2>3, InFilter
  <2>7. Below(In(x), In(y))
    BY <2>3, <2>6 DEF Below
  <2>8. Rising(x \o y) /\ In(x \o y) = In(x) \cup In(y)
    BY <1>3, <2>1, <2>3, <2>6, <2>7, InConcat
  <2>9. In(x \o y) \subseteq {c \in Given("receiver") : Target(c) = p}
    BY <2>4, <2>5, <2>6, <2>8
  <2> QED
    BY <2>2, <2>6, <2>8, <2>9 DEF x
<1>5. ModuleWay'
  BY <1>1, <1>2, <1>3, ModuleStays
<1>6. ReceiverWay'
  <2>1. Given("receiver")' = Given("receiver") /\ \A c : Target(c)' = Target(c)
    BY <1>2 DEF Given, Entry, Target
  <2>2. In(rq') = {} /\ Rising(rq')
    BY <1>2, InEmpty
  <2> QED
    BY <1>4, <2>1, <2>2 DEF ReceiverWay, Below
<1>7. WaitingCmds' \subseteq WaitingCmds
  <2>1. In(rq') = {}
    BY <1>2, InEmpty
  <2> QED
    BY <1>2, <1>4, <2>1 DEF WaitingCmds
<1> QED
  BY <1>1, <1>2, <1>3, <1>5, <1>6, <1>7, StillBefore DEF Others

\* What a scheduler runs of a rising list: commands of the list, in order, about its parts.
LEMMA RunIs ==
    ASSUME TypeOK, NEW s, NEW x \in Seq(Cmds), Rising(x)
    PROVE  LET y == run_external_commands(s, x) IN
             /\ y \in Seq(Cmds) /\ Rising(y) /\ In(y) \subseteq In(x)
             /\ \A c \in In(y) : Target(c) \in Parts => assigned[Target(c)] = s
<1> DEFINE Keep == {c \in Cmds : \/ Target(c) \in {"all", "group"}
                                 \/ Target(c) \in Parts /\ assigned[Target(c)] = s}
           y == run_external_commands(s, x)
<1>1. y = Filter(x, Keep)
  BY DEF run_external_commands
<1>2. \A c \in Keep : Target(c) \in Parts => assigned[Target(c)] = s
  BY ConstantsAssumption DEF Elsewhere
<1>3. Cmds \subseteq Nat
  BY CmdsAre
<1> HIDE DEF Keep, y
<1>4. y \in Seq(Cmds) /\ Rising(y) /\ In(y) \subseteq In(x) \cap Keep
  BY <1>1, <1>3, InFilter
<1>5. /\ y \in Seq(Cmds) /\ Rising(y) /\ In(y) \subseteq In(x)
      /\ \A c \in In(y) : Target(c) \in Parts => assigned[Target(c)] = s
  BY <1>2, <1>4
<1> QED
  BY <1>5 DEF y

\* The arbiter pushes its list to the schedulers and empties it.
LEMMA PushStep ==
    ASSUME IInv, NEW a \in Arbs, push_external_commands_to_schedulers(a)
    PROVE  ModuleWay' /\ ReceiverWay' /\ Others'
<1>1. TypeOK /\ ModuleWay /\ ReceiverWay /\ DoneBefore /\ DoneInOrder /\ AtMostOnce
  BY DEF IInv
<1>2. UNCHANGED <<from_q, rq, pack, again, plan, given>>
  BY DEF push_external_commands_to_schedulers, recvVars
<1>3. given \in Nat /\ given' \in Nat /\ given <= given' /\ Cmds \subseteq Nat
  BY <1>1, <1>2, CmdsAre
<1>4. /\ q["master"] \in Seq(Cmds) /\ q["spare"] \in Seq(Cmds)
      /\ q \in [Arbs -> CmdSeq] /\ Arbs = {"master", "spare"}
  BY <1>1, QueueTypes DEF TypeOK, Arbs
<1>5. q'["spare"] = <<>> /\ (q'["master"] = q["master"] \/ q'["master"] = <<>>) /\ q'[a] = <<>>
  <2>1. q' = [q EXCEPT ![a] = <<>>]
    BY DEF push_external_commands_to_schedulers
  <2> QED
    BY <1>1, <1>4, <2>1 DEF ModuleWay
<1>6. In(q'["master"]) \subseteq In(q["master"]) /\ Rising(q'["master"])
  BY <1>1, <1>5, InEmpty DEF ModuleWay
<1>7. ModuleWay'
  <2>1. Given("module")' = Given("module")
    BY <1>2 DEF Given, Entry
  <2> QED
    BY <1>1, <1>2, <1>5, <1>6, <2>1 DEF ModuleWay, Below
<1>8. ReceiverWay'
  BY <1>1, <1>2, <1>3, ReceiverStays
<1>9. WaitingCmds' \subseteq WaitingCmds
  BY <1>2, <1>6 DEF WaitingCmds
<1> DEFINE L == [s \in Schedulers |->
                   IF s \in alive \cap up
                   THEN run_external_commands(s, search_host_and_dispatch(s, q[a]))
                   ELSE <<>>]
<1>10. Rising(q[a]) /\ q[a] \in Seq(Cmds)
  BY <1>1, <1>4, InEmpty DEF ModuleWay
<1>11. ASSUME NEW s \in Schedulers
       PROVE  /\ L[s] \in Seq(Cmds) /\ Rising(L[s]) /\ In(L[s]) \subseteq In(q[a])
              /\ done'[s] = done[s] \o L[s]
              /\ \A c \in In(L[s]) : Target(c) \in Parts => assigned[Target(c)] = s
  <2>1. CASE s \in alive \cap up
    <3> DEFINE x == search_host_and_dispatch(s, q[a])
               y == run_external_commands(s, x)
               z == q[a]
               Keep == {c \in Cmds : \/ Target(c) \in {"all", "group"} /\ s \in alive
                                     \/ Target(c) \in Parts /\ assigned[Target(c)] = s}
    <3>1. L[s] = y /\ done'[s] = done[s] \o y
      BY <2>1 DEF push_external_commands_to_schedulers
    <3>2. x = Filter(z, Keep) /\ z \in Seq(Cmds) /\ Rising(z)
      BY <1>10 DEF search_host_and_dispatch
    <3> HIDE DEF x, z, Keep
    <3>3. x \in Seq(Cmds) /\ Rising(x) /\ In(x) \subseteq In(z)
      BY <1>3, <3>2, InFilter
    <3>4. /\ y \in Seq(Cmds) /\ Rising(y) /\ In(y) \subseteq In(x)
          /\ \A c \in In(y) : Target(c) \in Parts => assigned[Target(c)] = s
      BY <1>1, <3>3, RunIs
    <3> HIDE DEF y, L
    <3> QED
      BY <3>1, <3>3, <3>4 DEF z
  <2>2. CASE s \notin alive \cap up
    <3>1. L[s] = <<>> /\ done'[s] = done[s]
      BY <2>2 DEF push_external_commands_to_schedulers
    <3>2. done[s] \in Seq(Cmds)
      BY <1>1 DEF TypeOK, CmdSeq
    <3>3. done[s] \o <<>> = done[s] /\ <<>> \in Seq(Cmds)
      BY <3>2
    <3> HIDE DEF L
    <3> QED
      BY <3>1, <3>3, InEmpty
  <2> QED
    BY <2>1, <2>2
<1> HIDE DEF L
<1>12. In(q[a]) \subseteq WaitingCmds
  <2>1. CASE a = "master"
    BY <2>1 DEF WaitingCmds
  <2>2. CASE a = "spare"
    BY <1>1, <2>2, InEmpty DEF ModuleWay
  <2> QED
    BY <1>4, <2>1, <2>2
<1>13. ASSUME NEW d \in In(q[a]), NEW c \in WaitingCmds', Similar(d, c)
       PROVE  d < c
  <2>1. a = "master"
    BY <1>1, <1>4, <1>13, InEmpty DEF ModuleWay
  <2>2. Entry(d) = "module" /\ Entry(c) = "module"
    BY <1>1, <1>13, <2>1 DEF ModuleWay, Given, Similar
  <2>3. c \notin In(rq) /\ \A p \in Parts : c \notin In(pack[p])
    BY <1>1, <2>2 DEF ReceiverWay, Given
  <2>4. In(q'["master"]) = {}
    BY <1>5, <2>1, InEmpty
  <2>5. c \in In(from_q)
    BY <1>2, <1>13, <2>3, <2>4 DEF WaitingCmds
  <2> QED
    BY <1>1, <1>13, <2>1, <2>5 DEF ModuleWay, Below
<1>14. \A s \in Schedulers :
         /\ L[s] \in CmdSeq /\ Rising(L[s]) /\ In(L[s]) \subseteq WaitingCmds
         /\ done'[s] = done[s] \o L[s]
         /\ \A c \in In(L[s]) : Target(c) \in Parts => assigned[Target(c)] = s
  BY <1>11, <1>12 DEF CmdSeq
<1>15. \A s \in Schedulers : \A d \in In(L[s]), c \in WaitingCmds' :
         Similar(d, c) /\ d \notin again' => d < c
  BY <1>11, <1>13
<1>16. Others'
  BY <1>1, <1>2, <1>9, <1>14, <1>15, RunsKeep DEF Others
<1> QED
  BY <1>7, <1>8, <1>16

\* The receiver sends the list of a part; it keeps it when the answer is lost.
LEMMA SentStep ==
    ASSUME IInv, NEW p \in Parts, NEW answered \in BOOLEAN, Sent(p, answered)
    PROVE  ModuleWay' /\ ReceiverWay' /\ Others'
<1>1. TypeOK /\ ModuleWay /\ ReceiverWay /\ DoneBefore /\ DoneInOrder /\ AtMostOnce
  BY DEF IInv
<1>2. UNCHANGED <<from_q, q, rq, plan, given>>
  BY DEF Sent
<1>3. given \in Nat /\ given' \in Nat /\ given <= given' /\ Cmds \subseteq Nat
  BY <1>1, <1>2, CmdsAre
<1>4. /\ \/ pack'[p] = <<>> /\ again' = again
         \/ pack' = pack /\ again' = again \cup ToSet(pack[p])
      /\ \A r \in Parts : r # p => pack'[r] = pack[r]
  <2>1. pack \in [Parts -> CmdSeq]
    BY <1>1 DEF TypeOK
  <2> QED
    BY <2>1 DEF Sent
<1>5. pack[p] \in Seq(Cmds) /\ Rising(pack[p]) /\ ToSet(pack[p]) = In(pack[p])
  <2>1. pack[p] \in Seq(Cmds) /\ Rising(pack[p])
    BY <1>1, QueueTypes DEF ReceiverWay
  <2> DEFINE x == pack[p]
  <2>2. x \in Seq(Cmds)
    BY <2>1
  <2> HIDE DEF x
  <2>3. ToSet(x) = In(x)
    BY <2>2 DEF ToSet, In
  <2> QED
    BY <2>1, <2>3 DEF x
<1>6. \A r \in Parts : In(pack'[r]) \subseteq In(pack[r]) /\ Rising(pack'[r])
  <2>1. \A r \in Parts : pack'[r] = pack[r] \/ pack'[r] = <<>>
    BY <1>4
  <2>2. \A r \in Parts : Rising(pack[r])
    BY <1>1 DEF ReceiverWay
  <2> QED
    BY <2>1, <2>2, InEmpty
<1>7. ModuleWay'
  BY <1>1, <1>2, <1>3, ModuleStays
<1>8. ReceiverWay'
  <2>1. Given("receiver")' = Given("receiver") /\ \A c : Target(c)' = Target(c)
    BY <1>2 DEF Given, Entry, Target
  <2> QED
    BY <1>1, <1>2, <1>6, <2>1 DEF ReceiverWay, Below
<1>9. WaitingCmds' \subseteq WaitingCmds
  BY <1>2, <1>6 DEF WaitingCmds
<1> DEFINE y == run_external_commands(addr[p], pack[p])
           L == [s \in Schedulers |-> IF s = addr[p] THEN y ELSE <<>>]
<1>10. /\ y \in Seq(Cmds) /\ Rising(y) /\ In(y) \subseteq In(pack[p])
       /\ \A c \in In(y) : Target(c) \in Parts => assigned[Target(c)] = addr[p]
  <2> DEFINE x == pack[p]
             s == addr[p]
  <2>1. x \in Seq(Cmds) /\ Rising(x)
    BY <1>5
  <2> HIDE DEF x, s, y
  <2>2. y = run_external_commands(s, x)
    BY DEF x, s, y
  <2>3. /\ y \in Seq(Cmds) /\ Rising(y) /\ In(y) \subseteq In(x)
        /\ \A c \in In(y) : Target(c) \in Parts => assigned[Target(c)] = s
    BY <1>1, <2>1, <2>2, RunIs
  <2> QED
    BY <2>3 DEF x, s
<1>11. done \in [Schedulers -> CmdSeq] /\ done' = [done EXCEPT ![addr[p]] = @ \o y]
  BY <1>1 DEF TypeOK, Sent
<1> HIDE DEF y
<1>12. ASSUME NEW s \in Schedulers
       PROVE  /\ L[s] \in Seq(Cmds) /\ Rising(L[s]) /\ In(L[s]) \subseteq In(pack[p])
              /\ done'[s] = done[s] \o L[s]
              /\ \A c \in In(L[s]) : Target(c) \in Parts => assigned[Target(c)] = s
  <2>1. CASE s = addr[p]
    <3>1. L[s] = y /\ done'[s] = done[s] \o y
      BY <1>11, <2>1
    <3> HIDE DEF L
    <3> QED
      BY <1>10, <2>1, <3>1
  <2>2. CASE s # addr[p]
    <3>1. L[s] = <<>> /\ done'[s] = done[s]
      BY <1>11, <2>2
    <3>2. done[s] \in Seq(Cmds)
      BY <1>11 DEF CmdSeq
    <3>3. done[s] \o <<>> = done[s] /\ <<>> \in Seq(Cmds)
      BY <3>2
    <3> HIDE DEF L
    <3> QED
      BY <3>1, <3>3, InEmpty
  <2> QED
    BY <2>1, <2>2
<1> HIDE DEF L
<1>13. In(pack[p]) \subseteq WaitingCmds /\ again \subseteq again'
  BY <1>4 DEF WaitingCmds
<1>14. ASSUME NEW d \in In(pack[p]), NEW c \in WaitingCmds', Similar(d, c), d \notin again'
       PROVE  d < c
  <2>1. pack'[p] = <<>>
    BY <1>4, <1>5, <1>14
  <2>2. Entry(d) = "receiver" /\ Target(d) = p
    BY <1>1, <1>14 DEF ReceiverWay, Given
  <2>3. Entry(c) = "receiver" /\ Target(c) = p
    BY <1>14, <2>2 DEF Similar
  <2>4. c \notin In(from_q) /\ c \notin In(q["master"])
    BY <1>1, <2>3 DEF ModuleWay, Given
  <2>5. \A r \in Parts : c \notin In(pack'[r])
    <3>1. \A r \in Parts : r # p => c \notin In(pack'[r])
      BY <1>1, <1>6, <2>3 DEF ReceiverWay
    <3>2. c \notin In(pack'[p])
      BY <2>1, InEmpty
    <3> QED
      BY <3>1, <3>2
  <2>6. c \in In(rq)
    BY <1>2, <1>14, <2>4, <2>5 DEF WaitingCmds
  <2> QED
    BY <1>1, <1>14, <2>6 DEF ReceiverWay, Below
<1>15. \A s \in Schedulers :
         /\ L[s] \in CmdSeq /\ Rising(L[s]) /\ In(L[s]) \subseteq WaitingCmds
         /\ done'[s] = done[s] \o L[s]
         /\ \A c \in In(L[s]) : Target(c) \in Parts => assigned[Target(c)] = s
  BY <1>12, <1>13 DEF CmdSeq
<1>16. \A s \in Schedulers : \A d \in In(L[s]), c \in WaitingCmds' :
         Similar(d, c) /\ d \notin again' => d < c
  BY <1>12, <1>14
<1>17. Others'
  BY <1>1, <1>2, <1>9, <1>13, <1>15, <1>16, RunsKeep DEF Others
<1> QED
  BY <1>7, <1>8, <1>17

-----------------------------------------------------------------------------
(* The theorems *)

LEMMA InitIInv ==
    ASSUME Init
    PROVE  IInv
<1>1. TypeOK
  BY InitTypes
<1>2. /\ from_q = <<>> /\ q["master"] = <<>> /\ q["spare"] = <<>> /\ rq = <<>>
      /\ \A p \in Parts : pack[p] = <<>>
      /\ \A s \in Schedulers : done[s] = <<>>
  BY DEF Init, Arbs
<1>3. ModuleWay /\ ReceiverWay
  BY <1>2, InEmpty DEF ModuleWay, ReceiverWay, Below
<1>4. DoneBefore /\ DoneInOrder
  BY <1>2, InEmpty DEF DoneBefore, DoneInOrder
<1>5. AtMostOnce
  BY <1>2 DEF AtMostOnce
<1> QED
  BY <1>1, <1>3, <1>4, <1>5 DEF IInv

LEMMA Step ==
    ASSUME IInv, [Next]_vars
    PROVE  IInv'
<1>1. TypeOK'
  BY TypeStep DEF IInv
<1> SUFFICES ModuleWay' /\ ReceiverWay' /\ Others'
  BY <1>1 DEF IInv, Others
<1>2. ASSUME NEW a \in Arbs, Turn(a) PROVE ModuleWay' /\ ReceiverWay' /\ Others'
  <2>1. CASE handleRequests(a) \/ check_dispatch(a) \/ push_broks_to_broker(a)
    BY <2>1, QuietStep DEF handleRequests, check_dispatch, push_broks_to_broker, recvVars
  <2>2. CASE get_objects_from_from_queues(a) \/ get_external_commands_from_satellites(a)
    BY <2>2, CollectStep
  <2>3. CASE push_external_commands_to_schedulers(a)
    BY <2>3, PushStep
  <2> QED
    BY <1>2, <2>1, <2>2, <2>3 DEF Turn
<1>3. CASE Receiver
  <2>1. CASE ForTheArbiter \/ ReceiverDies \/ \E p \in Parts : setup_new_conf(p) \/ NotConnected(p)
    BY <2>1, DropStep
  <2>2. CASE resolve_command
    BY <2>2, ResolveStep
  <2>3. CASE \E p \in Parts : NothingToSend(p) \/ CallFails(p)
    BY <2>3, QuietStep DEF NothingToSend, CallFails
  <2>4. CASE \E p \in Parts : \E answered \in BOOLEAN : Sent(p, answered)
    BY <2>4, SentStep
  <2> QED
    BY <1>3, <2>1, <2>2, <2>3, <2>4 DEF Receiver
<1>4. CASE Waiting
  BY <1>4, QuietStep DEF Waiting, Second, wait_for_master_death, TakeLead, recvVars
<1>5. CASE Give
  BY <1>5, GiveStep
<1>6. CASE MasterCrash
  BY <1>6, CollectStep
<1>7. CASE MasterRestart \/ Breaks \/ Repaired
  BY <1>7, QuietStep DEF MasterRestart, Breaks, Repaired, recvVars
<1>8. CASE UNCHANGED vars
  BY <1>8, QuietStep DEF vars, recvVars
<1> QED
  BY <1>2, <1>3, <1>4, <1>5, <1>6, <1>7, <1>8 DEF Next

\* The inductive invariant of Arbiter.tla.
THEOREM Invariance == Spec => []IInv
<1>1. Init => IInv
  BY InitIInv
<1>2. IInv /\ [Next]_vars => IInv'
  BY Step
<1> QED
  BY <1>1, <1>2, PTL DEF Spec

\* RunOnceInOrder: a scheduler runs the commands about a host that came by one way in
\* the order they were given, and no command about a host is run twice
\* (arbiterdaemon.py and receiverdaemon.py push_external_commands_to_schedulers).
THEOREM CommandsRunOnceInOrder == Spec => []RunOnceInOrder
<1>1. IInv => RunOnceInOrder
  <2> SUFFICES ASSUME IInv PROVE InOrder
    BY DEF IInv, RunOnceInOrder
  <2> SUFFICES ASSUME NEW s \in Schedulers, NEW m \in DOMAIN done[s], NEW n \in DOMAIN done[s],
                      m < n, plan[done[s][m]] = plan[done[s][n]], done[s][m] \notin again
               PROVE  done[s][m] <= done[s][n]
    BY DEF InOrder
  <2>1. done[s] \in Seq(Cmds) /\ Cmds \subseteq Nat
    BY CmdsAre DEF IInv, TypeOK, CmdSeq
  <2>2. m \in 1..Len(done[s]) /\ n \in 1..Len(done[s]) /\ done[s][m] \in Nat
      /\ done[s][n] \in Nat
    <3> DEFINE x == done[s]
    <3>1. x \in Seq(Cmds) /\ m \in DOMAIN x /\ n \in DOMAIN x
      BY <2>1
    <3> HIDE DEF x
    <3>2. m \in 1..Len(x) /\ n \in 1..Len(x) /\ x[m] \in Cmds /\ x[n] \in Cmds
      BY <3>1
    <3> QED
      BY <2>1, <3>2 DEF x
  <2>3. Similar(done[s][m], done[s][n])
    BY DEF Similar, Entry, Target
  <2>4. done[s][m] < done[s][n]
    BY <2>2, <2>3 DEF IInv, DoneInOrder
  <2> QED
    BY <2>2, <2>4
<1> QED
  BY <1>1, Invariance, PTL

-----------------------------------------------------------------------------
(* Cut.tla: the arbiter cuts the configuration into parts and serializes them. *)

CONSTANTS HostSeq, RealmSeq, Farms, Places, DefaultRealm, Relations, MaxDeaths,
          loop_check(_), get_accessibility_packs(_), Reach(_, _)
VARIABLES phase, parents, realm, schedulers, multi, errors, ungiven, packs, assoc, confs, rconfs,
          children, rnow, results, sent, deaths

Ct == INSTANCE Cut WITH todo <- ungiven, q <- results

\* What the arbiter's configuration is like, and that graph.py finds the related hosts.
CutAssumption ==
    /\ RealmSeq \in Seq(Ct!Realms) /\ RealmSeq # <<>> /\ OneToOne(RealmSeq)
    /\ None \notin Ct!Realms
    /\ Places \subseteq Ct!Realms \cup {None} /\ DefaultRealm \in Ct!Realms \cup {None}
    /\ \A farm \in Farms : IsFiniteSet(DOMAIN farm)
    /\ \A links \in Relations :
         Ct!AreComponents(get_accessibility_packs(Ct!BothWays(links)), Ct!BothWays(links))

Sets == SUBSET Ct!Hosts

CutTypes ==
    /\ phase \in {"packs", "balance", "parts", "serialize", "wait", "ready", "exit"}
    /\ parents \in Relations /\ realm \in [Ct!Hosts -> Places] /\ schedulers \in Farms
    /\ errors \in BOOLEAN
    /\ ungiven \in [Ct!Realms -> Seq(Sets)] /\ packs \in [Ct!Realms -> Seq(Sets)]
    /\ rnow \in 1..Len(RealmSeq)

\* The realm that a host's pack is for.
Home(h) == Ct!RealmOf(Ct!Related(h))

\* A pack that is not given yet is of related hosts, once, in the list of their realm.
PacksWait ==
    \A r \in Ct!Realms :
        /\ OneToOne(ungiven[r])
        /\ \A a \in DOMAIN ungiven[r] : \A h \in ungiven[r][a] :
             h \in Ct!Hosts /\ ungiven[r][a] = Ct!Related(h) /\ Home(h) = r

\* A host that was given to a scheduler is of its realm, given once and with its pack.
GivenOnce ==
    \A r \in Ct!Realms : \A i \in DOMAIN packs[r] : \A h \in packs[r][i] :
        /\ h \in Ct!Hosts /\ Home(h) = r /\ Ct!Related(h) \subseteq packs[r][i]
        /\ \A a \in DOMAIN ungiven[r] : ungiven[r][a] # Ct!Related(h)
        /\ \A j \in DOMAIN packs[r] : h \in packs[r][j] => j = i

\* No host is forgotten.
AllAreSeen ==
    ~errors => \A h \in Ct!Hosts :
        /\ Home(h) \in Ct!Realms
        /\ \/ \E a \in DOMAIN ungiven[Home(h)] : ungiven[Home(h)][a] = Ct!Related(h)
           \/ \E i \in DOMAIN packs[Home(h)] : h \in packs[Home(h)][i]

\* There is a pack for each scheduler of the realm, or none as long as nothing was given.
PackPerScheduler ==
    \A r \in Ct!Realms : packs[r] = <<>> \/ Len(packs[r]) = Len(Ct!NoSpare(r))

\* The realms before the present one have given all their packs.
RealmsInOrder ==
    /\ phase = "packs" => packs = [r \in Ct!Realms |-> <<>>]
    /\ phase = "balance" => \A j \in 1..(rnow - 1) : ungiven[RealmSeq[j]] = <<>>
    /\ phase = "parts" => rnow = 1
    /\ phase \in {"parts", "serialize", "wait", "ready", "exit"} =>
         \A r \in Ct!Realms : ungiven[r] = <<>>

\* What is noted of hosts is the last index of the present realm.
NotedIsLast ==
    phase = "balance" =>
        \A h \in DOMAIN assoc : assoc[h] = Len(Ct!NoSpare(RealmSeq[rnow])) - 1

\* A host is in one part, with all that is related to it, for the realm of its pack.
PartsTell ==
    phase \in {"serialize", "wait", "ready"} =>
        \A h \in Ct!Hosts :
            /\ Home(h) \in Ct!Realms
            /\ \E c \in DOMAIN confs :
                 /\ \A d \in DOMAIN confs : h \in confs[d] <=> d = c
                 /\ Ct!Related(h) \subseteq confs[c]
                 /\ \A r \in Ct!Realms : c \in rconfs[r] <=> r = Home(h)

\* While no child died: the realms before the present one are sent, and the parts of the
\* present one are in the list or with a child.
SendingGoesOn ==
    /\ DOMAIN sent = Ct!Realms /\ IsFiniteSet(results) /\ deaths \in Nat
    /\ deaths = 0 =>
         /\ phase \in {"serialize", "wait"} =>
              \A j \in 1..(rnow - 1) : sent[RealmSeq[j]] = rconfs[RealmSeq[j]]
         /\ phase = "wait" => rconfs[RealmSeq[rnow]] \subseteq children \cup results
         /\ phase = "ready" => \A r \in Ct!Realms : sent[r] = rconfs[r]

CutInv ==
    /\ CutTypes
    /\ phase # "packs" => PacksWait /\ GivenOnce /\ AllAreSeen /\ PackPerScheduler
    /\ RealmsInOrder /\ NotedIsLast /\ PartsTell /\ SendingGoesOn

Unchanged == UNCHANGED <<parents, realm, schedulers>>

\* What is related, and where hosts are at home, does not change.
LEMMA Same ==
    ASSUME Unchanged
    PROVE  /\ \A h : Ct!Related(h)' = Ct!Related(h) /\ Home(h)' = Home(h)
           /\ \A r : Ct!NoSpare(r)' = Ct!NoSpare(r)
<1>1. \A h : Ct!Related(h)' = Ct!Related(h)
  BY DEF Unchanged, Ct!Related, Ct!LinkGraph, Ct!BothWays
<1>2. \A h : Home(h)' = Home(h)
  BY <1>1 DEF Unchanged, Home, Ct!RealmOf, Ct!RealmsOf
<1>3. \A r : Ct!NoSpare(r)' = Ct!NoSpare(r)
  BY DEF Unchanged, Ct!NoSpare
<1> QED
  BY <1>1, <1>2, <1>3

\* The operators of the standard modules are the same in the instance.
LEMMA Cut0 ==
    /\ \A s, keep : Ct!Filter(s, keep) = Filter(s, keep)
    /\ \A s : Ct!Cardinality(s) = Cardinality(s)
    /\ \A s : Ct!ToSet(s) = {s[i] : i \in DOMAIN s}
<1>1. \A s, keep : Ct!Filter(s, keep) = Filter(s, keep)
  BY DEF Ct!Filter, Filter
<1>2. \A s : Ct!Cardinality(s) = Cardinality(s)
  BY DEF Ct!Cardinality, Cardinality
<1>3. \A s : Ct!ToSet(s) = {s[i] : i \in DOMAIN s}
  BY DEF Ct!ToSet
<1> QED
  BY <1>1, <1>2, <1>3

\* Lists of realms and hosts.
LEMMA RealmIndex ==
    ASSUME CutAssumption
    PROVE  /\ Len(RealmSeq) \in Nat /\ Len(RealmSeq) >= 1
           /\ \A k \in 1..Len(RealmSeq) : RealmSeq[k] \in Ct!Realms
           /\ \A r \in Ct!Realms : \E k \in 1..Len(RealmSeq) : r = RealmSeq[k]
           /\ \A k, l \in 1..Len(RealmSeq) : RealmSeq[k] = RealmSeq[l] => k = l
           /\ DOMAIN RealmSeq = 1..Len(RealmSeq)
           /\ IsFiniteSet(Ct!Realms)
<1>1. RealmSeq \in Seq(Ct!Realms) /\ RealmSeq # <<>> /\ OneToOne(RealmSeq)
  BY DEF CutAssumption
<1>2. Len(RealmSeq) \in Nat /\ Len(RealmSeq) >= 1 /\ DOMAIN RealmSeq = 1..Len(RealmSeq)
  BY <1>1
<1>3. Ct!Realms = {RealmSeq[k] : k \in 1..Len(RealmSeq)}
  BY <1>2, Cut0 DEF Ct!Realms
<1>4. IsFiniteSet(Ct!Realms)
  <2> DEFINE n == 1..Len(RealmSeq)
  <2>1. RealmSeq \in Surjection(n, Ct!Realms)
    BY <1>1, <1>2, <1>3 DEF Surjection
  <2>2. IsFiniteSet(n)
    BY <1>2, FS_Interval
  <2> QED
    BY <2>1, <2>2, FS_Surjection
<1> QED
  BY <1>1, <1>2, <1>3, <1>4 DEF OneToOne

LEMMA NextIndex ==
    ASSUME NEW n \in Nat, NEW k \in 1..n, k # n
    PROVE  k + 1 \in 1..n /\ (k + 1) - 1 = k
OBVIOUS

\* The place of an element in a list.
LEMMA IndexIs ==
    ASSUME NEW seq, NEW e, \E i \in DOMAIN seq : seq[i] = e
    PROVE  Ct!Index(seq, e) \in DOMAIN seq /\ seq[Ct!Index(seq, e)] = e
BY DEF Ct!Index

\* The schedulers of a realm that are no spares.
LEMMA NoSpareType ==
    ASSUME CutAssumption, CutTypes, NEW r
    PROVE  /\ Ct!NoSpare(r) \in Seq(Nat) /\ Len(Ct!NoSpare(r)) \in Nat
           /\ DOMAIN Ct!NoSpare(r) = 1..Len(Ct!NoSpare(r))
<1> DEFINE n == Cardinality(DOMAIN schedulers)
           all == [k \in 1..n |-> k - 1]
           Keep == {s \in DOMAIN schedulers : schedulers[s].realm = r /\ ~schedulers[s].spare}
<1>1. n \in Nat
  BY FS_CardinalityType DEF CutAssumption, CutTypes
<1>2. all \in Seq(Nat)
  <2> HIDE DEF n
  <2>1. \A k \in 1..n : k - 1 \in Nat
    BY <1>1
  <2> QED
    BY <1>1, <2>1
<1>3. Ct!NoSpare(r) = Filter(all, Keep)
  BY Cut0 DEF Ct!NoSpare
<1> HIDE DEF n, all, Keep
<1>4. Filter(all, Keep) \in Seq(Nat)
  BY <1>2, FilterType
<1> QED
  BY <1>3, <1>4

\* The scheduler that is loaded least is one of the realm, for the hosts of the realm are
\* noted with its last index or not at all.
LEMMA LeastLoadedIsOfRealm ==
    ASSUME NEW ids, ids # {}, NEW i, Ct!Noted \subseteq {i}
    PROVE  Ct!get_least_loaded_scheduler_id(ids) \subseteq ids
BY DEF Ct!get_least_loaded_scheduler_id

\* f counts the parts of the realms up to each.
Counts(f) ==
    /\ f[0] = 0
    /\ \A j \in 1..Len(RealmSeq) : f[j] = f[j - 1] + Len(packs[RealmSeq[j]])

\* The function that Offset is defined by.
LEMMA OffsetIs ==
    ASSUME CutAssumption, packs \in [Ct!Realms -> Seq(Sets)]
    PROVE  \E f : /\ Counts(f) /\ \A j \in 0..Len(RealmSeq) : f[j] \in Nat
                  /\ \A k \in 1..Len(RealmSeq) : Ct!Offset(k) = f[k - 1]
<1> DEFINE n == Len(RealmSeq)
           size == [j \in 1..n |-> Len(packs[RealmSeq[j]])]
           G == [x \in Nat \X (1..n) |-> x[1] + size[x[2]]]
<1>1. n \in Nat
  BY RealmIndex
<1>2. \A j \in 1..n : size[j] \in Nat
  BY RealmIndex
<1> HIDE DEF size
<1>3. G \in Steps(Nat, n)
  BY <1>2 DEF Steps
<1>4. \A m \in Nat, j \in 1..n : G[<<m, j>>] = m + size[j]
  OBVIOUS
<1> HIDE DEF G, n
<1>5. PICK f \in [0..n -> Nat] : Iterates(f, n, 0, G)
  BY <1>1, <1>3, Iteration
<1>6. \A j \in 1..n : f[j] = f[j - 1] + size[j]
  <2>1. \A j \in 1..n : f[j - 1] \in Nat
    BY <1>1
  <2> QED
    BY <1>4, <1>5, <2>1 DEF Iterates
<1> DEFINE Rec(g) == [j \in 0..n |-> IF j = 0 THEN 0
                                      ELSE g[j - 1] + Len(packs[RealmSeq[j]])]
<1>7. f = Rec(f)
  <2>1. \A j \in 0..n : j = 0 \/ j \in 1..n
    BY <1>1
  <2>2. \A j \in 1..n : size[j] = Len(packs[RealmSeq[j]])
    BY DEF size
  <2>3. \A j \in 0..n : f[j] = Rec(f)[j]
    BY <1>5, <1>6, <2>1, <2>2 DEF Iterates
  <2> QED
    BY <1>5, <2>3
<1> HIDE DEF Rec
<1> DEFINE F == CHOOSE g : g = Rec(g)
<1>8. F = Rec(F)
  BY <1>7
<1>9. \A k \in 1..n : Ct!Offset(k) = F[k - 1]
  BY DEF Ct!Offset, Rec, n
<1> HIDE DEF F
<1>10. Counts(F)
  <2>1. \A j \in 0..n : F[j] = Rec(F)[j]
    BY <1>8
  <2> QED
    BY <1>1, <2>1 DEF Rec, Counts, n
<1>11. \A j \in 0..n : F[j] \in Nat
  <2> DEFINE P == {j \in 0..n : F[j] \in Nat}
  <2>1. 0 \in P
    BY <1>1, <1>10 DEF Counts
  <2>2. ASSUME NEW j \in 1..n, j - 1 \in P PROVE j \in P
    <3>1. F[j] = F[j - 1] + size[j]
      BY <1>10 DEF Counts, size, n
    <3> QED
      BY <1>1, <1>2, <2>2, <3>1
  <2> HIDE DEF P
  <2>3. 0..n \subseteq P
    BY <1>1, <2>1, <2>2, Induction
  <2> QED
    BY <2>3 DEF P
<1> QED
  BY <1>9, <1>10, <1>11 DEF n

\* The numbers of the parts of a realm, and of no other.
LEMMA PartIdsAre ==
    ASSUME CutAssumption, packs \in [Ct!Realms -> Seq(Sets)]
    PROVE  /\ \A k \in 1..Len(RealmSeq) : Ct!Offset(k) \in Nat
           /\ \A k, l \in 1..Len(RealmSeq), i, j \in Nat :
                /\ i \in 1..Len(packs[RealmSeq[k]]) /\ j \in 1..Len(packs[RealmSeq[l]])
                /\ Ct!Offset(k) + i - 1 = Ct!Offset(l) + j - 1
                => k = l /\ i = j
<1> DEFINE n == Len(RealmSeq)
<1>1. PICK f : /\ Counts(f) /\ \A j \in 0..n : f[j] \in Nat
               /\ \A k \in 1..n : Ct!Offset(k) = f[k - 1]
  BY OffsetIs
<1>2. n \in Nat /\ \A k \in 1..n : Len(packs[RealmSeq[k]]) \in Nat
  BY RealmIndex
<1>3. \A k \in 1..n : f[k] = f[k - 1] + Len(packs[RealmSeq[k]])
  BY <1>1 DEF Counts
<1> HIDE DEF n
<1>4. \A k \in 0..n : \A l \in 0..n : k <= l => f[k] <= f[l]
  <2> DEFINE P == {l \in 0..n : \A k \in 0..n : k <= l => f[k] <= f[l]}
  <2>1. 0 \in P
    BY <1>1, <1>2
  <2>2. ASSUME NEW l \in 1..n, l - 1 \in P PROVE l \in P
    <3>1. ASSUME NEW k \in 0..n, k <= l PROVE f[k] <= f[l]
      <4>1. CASE k = l
        BY <1>1, <1>2, <4>1
      <4>2. CASE k # l
        <5>1. k <= l - 1
          BY <1>2, <3>1, <4>2
        <5>2. f[k] <= f[l - 1]
          BY <2>2, <5>1
        <5>3. f[l - 1] <= f[l] /\ f[l - 1] \in Nat /\ f[l] \in Nat /\ f[k] \in Nat
          BY <1>1, <1>2, <1>3
        <5> QED
          BY <5>2, <5>3
      <4> QED
        BY <4>1, <4>2
    <3> QED
      BY <1>2, <3>1
  <2> HIDE DEF P
  <2>3. 0..n \subseteq P
    BY <1>2, <2>1, <2>2, Induction
  <2> QED
    BY <2>3 DEF P
<1>5. ASSUME NEW k \in 1..n, NEW l \in 1..n, NEW i \in Nat, NEW j \in Nat,
             i \in 1..Len(packs[RealmSeq[k]]), j \in 1..Len(packs[RealmSeq[l]]),
             Ct!Offset(k) + i - 1 = Ct!Offset(l) + j - 1
      PROVE  k = l /\ i = j
  <2>0. k \in 0..n /\ l \in 0..n /\ k - 1 \in 0..n /\ l - 1 \in 0..n
    BY <1>2
  <2>1. /\ f[k - 1] \in Nat /\ f[l - 1] \in Nat /\ f[k] \in Nat /\ f[l] \in Nat
        /\ f[k - 1] + i = f[l - 1] + j
    <3>1. f[k - 1] \in Nat /\ f[l - 1] \in Nat /\ f[k] \in Nat /\ f[l] \in Nat
      BY <1>1, <2>0
    <3>2. Ct!Offset(k) = f[k - 1] /\ Ct!Offset(l) = f[l - 1]
      BY <1>1
    <3>3. f[k - 1] + i - 1 = f[l - 1] + j - 1
      BY <1>5, <3>2
    <3> QED
      BY ONLY <3>1, <3>3, i \in Nat, j \in Nat
  <2> DEFINE sizes == [m \in 1..n |-> Len(packs[RealmSeq[m]])]
  <2>2. f[k - 1] + i <= f[k] /\ f[l - 1] + j <= f[l]
    <3>1. f[k] = f[k - 1] + sizes[k] /\ f[l] = f[l - 1] + sizes[l]
      BY <1>3
    <3>2. i <= sizes[k] /\ j <= sizes[l]
      BY <1>2, <1>5
    <3>3. sizes[k] \in Nat /\ sizes[l] \in Nat
      BY <1>2
    <3> HIDE DEF sizes
    <3>4. f[k - 1] + i <= f[k - 1] + sizes[k] /\ f[l - 1] + j <= f[l - 1] + sizes[l]
      BY ONLY <2>1, <3>2, <3>3, i \in Nat, j \in Nat
    <3> QED
      BY <3>1, <3>4
  <2>3. CASE k < l
    <3>1. f[k] <= f[l - 1]
      BY <1>2, <1>4, <2>3
    <3> QED
      BY <1>2, <1>5, <2>1, <2>2, <3>1
  <2>4. CASE l < k
    <3>1. f[l] <= f[k - 1]
      BY <1>2, <1>4, <2>4
    <3> QED
      BY <1>2, <1>5, <2>1, <2>2, <3>1
  <2>5. CASE k = l
    BY <1>2, <1>5, <2>1, <2>5
  <2> QED
    BY <1>2, <2>3, <2>4, <2>5
<1>6. \A k \in 1..n : Ct!Offset(k) \in Nat
  BY <1>1, <1>2
<1> QED
  BY <1>5, <1>6 DEF n

\* The realm of a pack is a realm or None, and the one that is meant.
LEMMA RealmOfType ==
    ASSUME CutAssumption, CutTypes, NEW hosts \in SUBSET Ct!Hosts
    PROVE  /\ Ct!RealmsOf(hosts) \subseteq Ct!Realms
           /\ Ct!RealmOf(hosts) \in Ct!Realms \cup {None}
<1>1. Ct!RealmsOf(hosts) \subseteq Ct!Realms
  BY DEF Ct!RealmsOf, CutAssumption, CutTypes
<1> QED
  BY <1>1 DEF Ct!RealmOf, CutAssumption

LEMMA HomeIs ==
    ASSUME CutAssumption, CutTypes, NEW h, h \in Ct!Related(h),
           Ct!Related(h) \in SUBSET Ct!Hosts, Home(h) \in Ct!Realms
    PROVE  /\ Home(h) = (IF Ct!RealmsOf(Ct!Related(h)) = {} THEN DefaultRealm
                         ELSE CHOOSE x \in Ct!RealmsOf(Ct!Related(h)) : TRUE)
           /\ realm[h] # None => realm[h] = Home(h)
<1> DEFINE R == Ct!RealmsOf(Ct!Related(h))
<1>1. R \subseteq Ct!Realms /\ IsFiniteSet(R)
  BY RealmOfType, RealmIndex, FS_Subset
<1>2. R = {} \/ Ct!Cardinality(R) = 1
  BY DEF Home, Ct!RealmOf, CutAssumption
<1>3. R = {} \/ \E x : R = {x}
  BY <1>1, <1>2, Cut0, FS_Singleton
<1>4. realm[h] # None => realm[h] \in R
  BY DEF Ct!RealmsOf
<1>5. Home(h) = (IF R = {} THEN DefaultRealm ELSE CHOOSE x \in R : TRUE)
  BY <1>2 DEF Home, Ct!RealmOf
<1>6. realm[h] # None => realm[h] = Home(h)
  <2> HIDE DEF R
  <2> QED
    BY <1>3, <1>4, <1>5
<1> QED
  BY <1>5, <1>6

\* What the packs of related hosts are like.
LEMMA PacksAre ==
    ASSUME CutAssumption, CutTypes, NEW all, all = get_accessibility_packs(Ct!LinkGraph)
    PROVE  /\ all \in Seq(Sets) /\ OneToOne(all)
           /\ Len(all) \in Nat /\ DOMAIN all = 1..Len(all)
           /\ \A i \in 1..Len(all) : all[i] \in Sets /\ all[i] # {}
           /\ \A i \in 1..Len(all) : \A h \in all[i] : all[i] = Ct!Related(h)
           /\ \A h \in Ct!Hosts : \E i \in 1..Len(all) : all[i] = Ct!Related(h)
           /\ \A h \in Ct!Hosts : h \in Ct!Related(h) /\ Ct!Related(h) \in Sets
<1>1. Ct!AreComponents(all, Ct!LinkGraph)
  BY DEF CutAssumption, CutTypes, Ct!LinkGraph
<1>2. all \in Seq(Sets)
  BY <1>1 DEF Ct!AreComponents, Sets
<1>3. Len(all) \in Nat /\ DOMAIN all = 1..Len(all) /\ \A i \in 1..Len(all) : all[i] \in Sets
  BY <1>2
<1>4. OneToOne(all)
  BY <1>1, <1>3 DEF Ct!AreComponents, OneToOne
<1>5. \A i \in 1..Len(all) : all[i] # {} /\ \A h \in all[i] : all[i] = Ct!Related(h)
  BY <1>1, <1>3 DEF Ct!AreComponents, Ct!Related
<1>6. \A h \in Ct!Hosts : h \in Ct!Related(h) /\ \E i \in 1..Len(all) : all[i] = Ct!Related(h)
  BY <1>1, <1>3 DEF Ct!AreComponents, Ct!Related
<1>7. \A h \in Ct!Hosts : Ct!Related(h) \in Sets
  BY <1>3, <1>6
<1> QED
  BY <1>2, <1>3, <1>4, <1>5, <1>6, <1>7

LEMMA RelatedIs ==
    ASSUME CutAssumption, CutTypes
    PROVE  \A h \in Ct!Hosts : h \in Ct!Related(h) /\ Ct!Related(h) \in Sets
<1> DEFINE all == get_accessibility_packs(Ct!LinkGraph)
<1>1. all = get_accessibility_packs(Ct!LinkGraph)
  OBVIOUS
<1> HIDE DEF all
<1> QED
  BY <1>1, PacksAre

\* mine are the packs of the realm r.
IsShare(mine, all, r) == mine = Ct!Filter(all, {p \in Ct!ToSet(all) : Ct!RealmOf(p) = r})

\* The packs of all realms, as the first half of create_packs shares them out.
LEMMA PacksAreShared ==
    ASSUME CutAssumption, CutTypes, NEW all, all = get_accessibility_packs(Ct!LinkGraph),
           NEW r, NEW mine, IsShare(mine, all, r)
    PROVE  /\ mine \in Seq(Sets) /\ OneToOne(mine)
           /\ \A a \in DOMAIN mine : \A h \in mine[a] :
                h \in Ct!Hosts /\ mine[a] = Ct!Related(h) /\ Home(h) = r
           /\ \A h \in Ct!Hosts : Home(h) = r => \E a \in DOMAIN mine : mine[a] = Ct!Related(h)
<1> DEFINE Of == {p \in Ct!ToSet(all) : Ct!RealmOf(p) = r}
           n == Len(all)
<1>1. /\ all \in Seq(Sets) /\ OneToOne(all) /\ n \in Nat /\ DOMAIN all = 1..n
      /\ \A i \in 1..n : all[i] \in Sets /\ \A h \in all[i] : all[i] = Ct!Related(h)
      /\ \A h \in Ct!Hosts : \E i \in 1..n : all[i] = Ct!Related(h)
  BY PacksAre
<1>2. mine = Filter(all, Of)
  BY Cut0 DEF IsShare
<1>3. \A i \in 1..n : all[i] \in Of <=> Ct!RealmOf(all[i]) = r
  BY <1>1, Cut0
<1> HIDE DEF Of
<1>4. /\ mine \in Seq(Sets) /\ OneToOne(mine) /\ Among(mine, all, n, Of)
      /\ Has(mine, all, n, Of)
  <2>1. /\ Filter(all, Of) \in Seq(Sets) /\ OneToOne(Filter(all, Of))
        /\ Among(Filter(all, Of), all, n, Of) /\ Has(Filter(all, Of), all, n, Of)
    BY <1>1, FilterElements
  <2> QED
    BY <1>2, <2>1
<1>5. DOMAIN mine = 1..Len(mine)
  BY <1>4
<1> HIDE DEF n
<1>6. ASSUME NEW a \in DOMAIN mine, NEW h \in mine[a]
      PROVE  h \in Ct!Hosts /\ mine[a] = Ct!Related(h) /\ Home(h) = r
  <2>1. PICK j \in 1..n : mine[a] = all[j] /\ all[j] \in Of
    BY <1>4, <1>5 DEF Among
  <2>2. all[j] \in Sets /\ all[j] = Ct!Related(h) /\ Ct!RealmOf(all[j]) = r
    BY <1>1, <1>3, <2>1
  <2> QED
    BY <2>1, <2>2 DEF Home, Sets
<1>7. ASSUME NEW h \in Ct!Hosts, Home(h) = r
      PROVE  \E a \in DOMAIN mine : mine[a] = Ct!Related(h)
  <2>1. PICK j \in 1..n : all[j] = Ct!Related(h)
    BY <1>1
  <2>2. all[j] \in Of
    BY <1>3, <1>7, <2>1 DEF Home
  <2> QED
    BY <1>4, <1>5, <2>1, <2>2 DEF Has
<1> QED
  BY <1>4, <1>6, <1>7

\* The first half of create_packs.
LEMMA CreatePacksStep == ASSUME CutAssumption, CutInv, Ct!CreatePacks PROVE CutInv'
<1> DEFINE all == get_accessibility_packs(Ct!LinkGraph)
           Of(r) == {p \in Ct!ToSet(all) : Ct!RealmOf(p) = r}
<1>0. /\ phase = "packs" /\ phase' = "balance" /\ rnow' = 1
      /\ ungiven' = [r \in Ct!Realms |-> Ct!Filter(all, Of(r))]
      /\ errors' \in BOOLEAN
      /\ errors' = FALSE => \A p \in Ct!ToSet(all) : Ct!RealmOf(p) # None
      /\ assoc' = <<>>
      /\ UNCHANGED <<parents, realm, schedulers, packs, results, sent, deaths>>
  BY DEF Ct!CreatePacks, Ct!input
<1>1. CutTypes /\ packs = [r \in Ct!Realms |-> <<>>] /\ SendingGoesOn
  BY <1>0 DEF CutInv, RealmsInOrder
<1>2. Unchanged
  BY <1>0 DEF Unchanged
<1>3. \A i \in 1..Len(all) : all[i] \in Ct!ToSet(all) /\ all[i] \in Sets
  BY <1>1, PacksAre, Cut0
<1>4. ASSUME NEW r \in Ct!Realms
      PROVE  /\ ungiven'[r] \in Seq(Sets) /\ OneToOne(ungiven'[r])
             /\ \A a \in DOMAIN ungiven'[r] : \A h \in ungiven'[r][a] :
                  h \in Ct!Hosts /\ ungiven'[r][a] = Ct!Related(h) /\ Home(h) = r
             /\ \A h \in Ct!Hosts : Home(h) = r =>
                  \E a \in DOMAIN ungiven'[r] : ungiven'[r][a] = Ct!Related(h)
  <2> DEFINE mine == ungiven'[r]
             first == get_accessibility_packs(Ct!LinkGraph)
  <2>1. /\ first = get_accessibility_packs(Ct!LinkGraph)
        /\ IsShare(mine, first, r)
    BY <1>0 DEF IsShare
  <2> HIDE DEF mine, first
  <2>2. /\ mine \in Seq(Sets) /\ OneToOne(mine)
        /\ \A a \in DOMAIN mine : \A h \in mine[a] :
             h \in Ct!Hosts /\ mine[a] = Ct!Related(h) /\ Home(h) = r
        /\ \A h \in Ct!Hosts : Home(h) = r => \E a \in DOMAIN mine : mine[a] = Ct!Related(h)
    BY <1>1, <2>1, PacksAreShared
  <2> QED
    BY <2>2 DEF mine
<1>5. ASSUME errors' = FALSE, NEW h \in Ct!Hosts PROVE Home(h) \in Ct!Realms
  <2>1. PICK i \in 1..Len(all) : all[i] = Ct!Related(h)
    BY <1>1, PacksAre
  <2>2. Home(h) \in Ct!Realms \cup {None}
    BY <1>1, <1>3, <2>1, RealmOfType DEF Home, Sets
  <2>3. Home(h) # None
    BY <1>0, <1>3, <1>5, <2>1 DEF Home
  <2> QED
    BY <2>2, <2>3
<1> HIDE DEF all, Of
<1>6. CutTypes'
  <2>1. ungiven' \in [Ct!Realms -> Seq(Sets)]
    BY <1>0, <1>4
  <2> QED
    BY <1>0, <1>1, <2>1, RealmIndex DEF CutTypes
<1>7. PacksWait'
  BY <1>2, <1>4, Same DEF PacksWait
<1>8. GivenOnce' /\ PackPerScheduler'
  BY <1>0, <1>1 DEF GivenOnce, PackPerScheduler
<1>9. AllAreSeen'
  <2>1. ASSUME errors' = FALSE, NEW h \in Ct!Hosts
        PROVE  /\ Home(h)' \in Ct!Realms
               /\ \E a \in DOMAIN ungiven'[Home(h)'] : ungiven'[Home(h)'][a] = Ct!Related(h)'
    <3>1. Home(h) \in Ct!Realms /\ Home(h)' = Home(h) /\ Ct!Related(h)' = Ct!Related(h)
      BY <1>2, <1>5, <2>1, Same
    <3>2. \E a \in DOMAIN ungiven'[Home(h)] : ungiven'[Home(h)][a] = Ct!Related(h)
      BY <1>4, <3>1
    <3> QED
      BY <3>1, <3>2
  <2> QED
    BY <1>0, <2>1 DEF AllAreSeen
<1>10. RealmsInOrder' /\ NotedIsLast' /\ PartsTell' /\ SendingGoesOn'
  BY <1>0, <1>1, RealmIndex DEF RealmsInOrder, NotedIsLast, PartsTell, SendingGoesOn
<1> QED
  BY <1>6, <1>7, <1>8, <1>9, <1>10 DEF CutInv

\* A pack for each scheduler of the realm, with nothing in it.
LEMMA EmptyPacks ==
    ASSUME CutAssumption, CutTypes, NEW r, NEW empty,
           empty = [i \in DOMAIN Ct!NoSpare(r) |-> {}]
    PROVE  /\ empty \in Seq(Sets) /\ Len(empty) = Len(Ct!NoSpare(r))
           /\ DOMAIN empty = DOMAIN Ct!NoSpare(r)
           /\ \A i \in DOMAIN empty : empty[i] = {}
<1>1. /\ Len(Ct!NoSpare(r)) \in Nat
      /\ DOMAIN Ct!NoSpare(r) = 1..Len(Ct!NoSpare(r))
  BY NoSpareType
<1> DEFINE n == Len(Ct!NoSpare(r))
<1>2. n \in Nat /\ empty = [i \in 1..n |-> {}] /\ {} \in Sets
  BY <1>1 DEF Sets
<1> HIDE DEF n
<1>3. empty \in Seq(Sets) /\ Len(empty) = n /\ DOMAIN empty = 1..n
      /\ \A i \in 1..n : empty[i] = {}
  BY <1>2
<1> QED
  BY <1>1, <1>3 DEF n

\* The realm at its turn is passed.
LEMMA NextRealmStep ==
    ASSUME CutAssumption, CutInv, Ct!BalanceRealm, Ct!NextRealm(RealmSeq[rnow])
    PROVE  CutInv'
<1> DEFINE r == RealmSeq[rnow]
<1>0. /\ phase = "balance" /\ assoc' = <<>>
      /\ IF rnow = Len(RealmSeq) THEN phase' = "parts" /\ rnow' = 1
         ELSE rnow' = rnow + 1 /\ phase' = phase
      /\ UNCHANGED <<parents, realm, schedulers, rconfs, children, results, sent, deaths>>
  BY DEF Ct!BalanceRealm, Ct!NextRealm, Ct!input
<1>1. /\ CutTypes /\ PacksWait /\ GivenOnce /\ AllAreSeen /\ PackPerScheduler
      /\ \A j \in 1..(rnow - 1) : ungiven[RealmSeq[j]] = <<>>
      /\ SendingGoesOn
  BY <1>0 DEF CutInv, RealmsInOrder
<1>2. Unchanged
  BY <1>0 DEF Unchanged
<1>3. r \in Ct!Realms /\ rnow \in 1..Len(RealmSeq)
  BY <1>1, RealmIndex DEF CutTypes
<1>4. \/ errors' = TRUE /\ ungiven' = [ungiven EXCEPT ![r] = <<>>] /\ packs' = packs
      \/ /\ ungiven[r] = <<>> /\ ungiven' = ungiven /\ errors' = errors
         /\ \/ packs' = packs
            \/ /\ packs[r] = <<>>
               /\ packs' = [packs EXCEPT ![r] = [i \in DOMAIN Ct!NoSpare(r) |-> {}]]
  <2>1. CASE packs[r] = <<>>
    BY <2>1 DEF Ct!NextRealm
  <2>2. CASE packs[r] # <<>>
    <3>1. packs = [packs EXCEPT ![r] = @]
      BY <1>1 DEF CutTypes
    <3> QED
      BY <2>2, <3>1 DEF Ct!NextRealm
  <2> QED
    BY <2>1, <2>2
<1> HIDE DEF r
<1>5. /\ ungiven' \in [Ct!Realms -> Seq(Sets)] /\ ungiven'[r] = <<>>
      /\ \A x \in Ct!Realms : x # r => ungiven'[x] = ungiven[x]
      /\ errors' \in BOOLEAN
      /\ errors' = FALSE => errors = FALSE /\ ungiven' = ungiven
  <2>1. ungiven \in [Ct!Realms -> Seq(Sets)] /\ errors \in BOOLEAN /\ <<>> \in Seq(Sets)
    BY <1>1 DEF CutTypes
  <2>2. CASE errors' = TRUE /\ ungiven' = [ungiven EXCEPT ![r] = <<>>]
    <3> DEFINE T == Seq(Sets)
               none == <<>>
    <3>1. /\ ungiven \in [Ct!Realms -> T] /\ none \in T
          /\ ungiven' = [ungiven EXCEPT ![r] = none]
      BY <2>1, <2>2
    <3> HIDE DEF T, none
    <3>2. /\ ungiven' \in [Ct!Realms -> T] /\ ungiven'[r] = none
          /\ \A x \in Ct!Realms : x # r => ungiven'[x] = ungiven[x]
      BY <1>3, <3>1
    <3> QED
      BY <2>2, <3>2 DEF T, none
  <2>3. CASE ungiven[r] = <<>> /\ ungiven' = ungiven /\ errors' = errors
    BY <2>1, <2>3
  <2> QED
    BY <1>4, <2>2, <2>3
<1>6. \A x \in Ct!Realms :
        \/ packs'[x] = packs[x]
        \/ /\ packs[x] = <<>> /\ packs'[x] \in Seq(Sets)
           /\ Len(packs'[x]) = Len(Ct!NoSpare(x))
           /\ \A i \in DOMAIN packs'[x] : packs'[x][i] = {}
  <2>1. CASE packs' = packs
    BY <2>1
  <2>2. CASE packs[r] = <<>> /\ packs' = [packs EXCEPT ![r] = [i \in DOMAIN Ct!NoSpare(r) |-> {}]]
    <3>1. packs'[r] = [i \in DOMAIN Ct!NoSpare(r) |-> {}]
      BY <1>1, <1>3, <2>2 DEF CutTypes
    <3> DEFINE empty == packs'[r]
    <3>2. empty = [i \in DOMAIN Ct!NoSpare(r) |-> {}]
      BY <3>1
    <3> HIDE DEF empty
    <3>3. /\ empty \in Seq(Sets) /\ Len(empty) = Len(Ct!NoSpare(r))
          /\ \A i \in DOMAIN empty : empty[i] = {}
      BY <1>1, <3>2, EmptyPacks
    <3>4. \A x \in Ct!Realms : x # r => packs'[x] = packs[x]
      BY <1>1, <2>2 DEF CutTypes
    <3> QED
      BY <2>2, <3>3, <3>4 DEF empty
  <2> QED
    BY <1>4, <2>1, <2>2
<1>7. packs' \in [Ct!Realms -> Seq(Sets)]
  <2>1. \A x \in Ct!Realms : packs'[x] \in Seq(Sets)
    BY <1>1, <1>6 DEF CutTypes
  <2>2. packs' = [x \in Ct!Realms |-> packs'[x]]
    BY <1>1, <1>4 DEF CutTypes
  <2> QED
    BY <2>1, <2>2
<1>8. CutTypes'
  <2>1. rnow' \in 1..Len(RealmSeq)
    <3>1. CASE rnow = Len(RealmSeq)
      BY <1>0, <3>1, RealmIndex
    <3>2. CASE rnow # Len(RealmSeq)
      <4>1. rnow' = rnow + 1
        BY <1>0, <3>2
      <4> QED
        BY <1>3, <3>2, <4>1, NextIndex, RealmIndex
    <3> QED
      BY <3>1, <3>2
  <2>2. phase' \in {"balance", "parts"}
    BY <1>0
  <2> QED
    BY <1>0, <1>1, <1>5, <1>7, <2>1, <2>2 DEF CutTypes
<1>9. PacksWait'
  <2>1. \A x \in Ct!Realms : ungiven'[x] = ungiven[x] \/ ungiven'[x] = <<>>
    BY <1>5
  <2>2. OneToOne(<<>>) /\ DOMAIN <<>> = {}
    BY DEF OneToOne
  <2> QED
    BY <1>1, <1>2, <2>1, <2>2, Same DEF PacksWait
<1>10. GivenOnce'
  <2>1. ASSUME NEW x \in Ct!Realms, NEW i \in DOMAIN packs'[x], NEW h \in packs'[x][i]
        PROVE  /\ packs'[x] = packs[x]
               /\ ungiven'[x] = ungiven[x] \/ ungiven'[x] = <<>>
    BY <1>5, <1>6, <2>1
  <2>2. DOMAIN <<>> = {}
    OBVIOUS
  <2> QED
    BY <1>1, <1>2, <2>1, <2>2, Same DEF GivenOnce
<1>11. AllAreSeen'
  <2>1. ASSUME errors' = FALSE, NEW h \in Ct!Hosts
        PROVE  /\ Home(h)' \in Ct!Realms
               /\ \/ \E a \in DOMAIN ungiven'[Home(h)'] :
                        ungiven'[Home(h)'][a] = Ct!Related(h)'
                  \/ \E i \in DOMAIN packs'[Home(h)'] : h \in packs'[Home(h)'][i]
    <3>1. Home(h) \in Ct!Realms /\ Home(h)' = Home(h) /\ Ct!Related(h)' = Ct!Related(h)
      BY <1>1, <1>2, <1>5, <2>1, Same DEF AllAreSeen
    <3>2. \/ \E a \in DOMAIN ungiven'[Home(h)] : ungiven'[Home(h)][a] = Ct!Related(h)
          \/ \E i \in DOMAIN packs'[Home(h)] : h \in packs'[Home(h)][i]
      BY <1>1, <1>5, <1>6, <2>1, <3>1 DEF AllAreSeen
    <3> QED
      BY <3>1, <3>2
  <2> QED
    BY <1>5, <2>1 DEF AllAreSeen
<1>12. PackPerScheduler'
  BY <1>1, <1>2, <1>6, Same DEF PackPerScheduler
<1>13. RealmsInOrder'
  <2>1. \A j \in 1..rnow : ungiven'[RealmSeq[j]] = <<>>
    BY <1>1, <1>3, <1>5, RealmIndex DEF r
  <2>2. CASE rnow = Len(RealmSeq)
    BY <1>0, <2>1, <2>2, RealmIndex DEF RealmsInOrder
  <2>3. CASE rnow # Len(RealmSeq)
    <3>1. phase' = "balance" /\ rnow' - 1 = rnow
      <4>1. phase' = "balance" /\ rnow' = rnow + 1
        BY <1>0, <2>3
      <4> QED
        BY <1>3, <2>3, <4>1, NextIndex, RealmIndex
    <3> QED
      BY <2>1, <3>1 DEF RealmsInOrder
  <2> QED
    BY <2>2, <2>3
<1>14. NotedIsLast' /\ PartsTell' /\ SendingGoesOn'
  BY <1>0, <1>1 DEF NotedIsLast, PartsTell, SendingGoesOn
<1> QED
  BY <1>8, <1>9, <1>10, <1>11, <1>12, <1>13, <1>14 DEF CutInv

\* A pack is given to a scheduler of its realm.
LEMMA GivePackStep ==
    ASSUME CutAssumption, CutInv, Ct!BalanceRealm, Ct!GivePack(RealmSeq[rnow])
    PROVE  CutInv'
<1> DEFINE r == RealmSeq[rnow]
           N == Ct!NoSpare(r)
           list == ungiven[r]
           hosts == Head(list)
           before == IF packs[r] = <<>> THEN [k \in DOMAIN N |-> {}] ELSE packs[r]
<1>0. /\ phase = "balance" /\ phase' = phase /\ rnow' = rnow /\ errors' = errors
      /\ N # <<>> /\ list # <<>>
      /\ ungiven' = [ungiven EXCEPT ![r] = Tail(@)]
      /\ UNCHANGED <<parents, realm, schedulers, rconfs, children, results, sent, deaths>>
  BY DEF Ct!BalanceRealm, Ct!GivePack, Ct!input
<1>1. /\ CutTypes /\ PacksWait /\ GivenOnce /\ AllAreSeen /\ PackPerScheduler
      /\ \A j \in 1..(rnow - 1) : ungiven[RealmSeq[j]] = <<>>
      /\ \A h \in DOMAIN assoc : assoc[h] = Len(N) - 1
      /\ SendingGoesOn
  BY <1>0 DEF CutInv, RealmsInOrder, NotedIsLast
<1>2. Unchanged
  BY <1>0 DEF Unchanged
<1>3. r \in Ct!Realms /\ rnow \in 1..Len(RealmSeq)
  BY <1>1, RealmIndex DEF CutTypes
<1>4. assoc' = [h \in DOMAIN assoc \cup hosts |-> IF h \in hosts THEN Len(N) - 1 ELSE assoc[h]]
  BY DEF Ct!GivePack
<1>5. /\ N \in Seq(Nat) /\ Len(N) \in Nat /\ DOMAIN N = 1..Len(N)
  BY <1>1, NoSpareType
<1>6. PICK s \in Ct!get_least_loaded_scheduler_id(Ct!ToSet(N)) :
         packs' = [packs EXCEPT ![r] = [before EXCEPT ![Ct!Index(N, s)] = @ \cup hosts]]
  BY DEF Ct!GivePack
<1>7. s \in Ct!ToSet(N)
  <2>1. Ct!Noted \subseteq {Len(N) - 1}
    BY <1>1 DEF Ct!Noted
  <2>2. Ct!ToSet(N) # {}
    <3>1. Ct!ToSet(N) = {N[k] : k \in DOMAIN N}
      BY Cut0
    <3>2. 1 \in DOMAIN N
      <4>1. N \in Seq(Nat) /\ N # <<>>
        BY <1>0, <1>5
      <4> HIDE DEF N
      <4> QED
        BY <4>1
    <3> QED
      BY <3>1, <3>2
  <2> HIDE DEF N
  <2> QED
    BY <1>6, <2>1, <2>2, LeastLoadedIsOfRealm
<1> DEFINE i == Ct!Index(N, s)
<1>8. i \in 1..Len(N)
  <2>1. \E k \in DOMAIN N : N[k] = s
    BY <1>7, Cut0
  <2> QED
    BY <1>5, <2>1, IndexIs
<1>9. /\ before \in Seq(Sets) /\ Len(before) = Len(N)
      /\ before = packs[r] \/ \A k \in DOMAIN before : before[k] = {}
      /\ packs[r] # <<>> => before = packs[r]
  <2>1. CASE packs[r] = <<>>
    <3> DEFINE empty == [k \in DOMAIN N |-> {}]
    <3>1. /\ empty \in Seq(Sets) /\ Len(empty) = Len(N) /\ \A k \in DOMAIN empty : empty[k] = {}
      BY <1>1, EmptyPacks
    <3> HIDE DEF empty
    <3>2. before = empty
      BY <2>1 DEF empty
    <3> HIDE DEF before
    <3> QED
      BY <2>1, <3>1, <3>2
  <2>2. CASE packs[r] # <<>>
    BY <1>1, <1>3, <2>2 DEF CutTypes, PackPerScheduler
  <2> QED
    BY <2>1, <2>2
<1>10. list \in Seq(Sets) /\ hosts = list[1] /\ 1 \in DOMAIN list /\ hosts \in Sets
  <2>1. list \in Seq(Sets)
    BY <1>1, <1>3 DEF CutTypes
  <2> HIDE DEF list
  <2> QED
    BY <1>0, <2>1
<1>11. \A h \in hosts : h \in Ct!Hosts /\ hosts = Ct!Related(h) /\ Home(h) = r
  BY <1>1, <1>3, <1>10 DEF PacksWait
<1> DEFINE after == packs'[r]
<1>12. /\ after = [before EXCEPT ![i] = @ \cup hosts]
       /\ \A x \in Ct!Realms : x # r => packs'[x] = packs[x]
       /\ DOMAIN packs' = Ct!Realms
  <2> HIDE DEF i, before, hosts, r
  <2> QED
    BY <1>1, <1>3, <1>6 DEF CutTypes, i
<1>13. /\ ungiven'[r] = Tail(list)
       /\ \A x \in Ct!Realms : x # r => ungiven'[x] = ungiven[x]
       /\ DOMAIN ungiven' = Ct!Realms
  <2> HIDE DEF r
  <2> QED
    BY <1>0, <1>1, <1>3 DEF CutTypes
<1>14. /\ DOMAIN before = 1..Len(N) /\ i \in DOMAIN before
       /\ \A k \in 1..Len(N) : before[k] \in Sets
  <2> HIDE DEF before, N, i
  <2> QED
    BY <1>5, <1>8, <1>9
<1> HIDE DEF after, before, i, hosts, N
<1>15. /\ after \in Seq(Sets) /\ Len(after) = Len(N) /\ DOMAIN after = DOMAIN before
       /\ \A k \in DOMAIN before : \A h :
            h \in after[k] <=> h \in before[k] \/ (k = i /\ h \in hosts)
  <2>1. /\ DOMAIN after = DOMAIN before
        /\ \A k \in DOMAIN before :
             after[k] = IF k = i THEN before[k] \cup hosts ELSE before[k]
    BY <1>12, <1>14
  <2>2. \A k \in 1..Len(N) : after[k] \in Sets
    BY <1>10, <1>14, <2>1 DEF Sets
  <2>3. after = [k \in 1..Len(N) |-> after[k]]
    BY <1>12, <1>14
  <2>4. after \in Seq(Sets) /\ Len(after) = Len(N)
    <3> DEFINE m == Len(N)
    <3>1. m \in Nat /\ after = [k \in 1..m |-> after[k]] /\ \A k \in 1..m : after[k] \in Sets
      BY <1>5, <2>2, <2>3
    <3> HIDE DEF m
    <3>2. after \in Seq(Sets) /\ Len(after) = m
      BY <3>1
    <3> QED
      BY <3>2 DEF m
  <2>5. ASSUME NEW k \in DOMAIN before, NEW h
        PROVE  h \in after[k] <=> h \in before[k] \/ (k = i /\ h \in hosts)
    BY <2>1
  <2> QED
    BY <2>1, <2>4, <2>5
<1>16. \A k \in DOMAIN before : \A h \in before[k] :
          /\ h \in Ct!Hosts /\ Home(h) = r /\ Ct!Related(h) \subseteq before[k]
          /\ \A a \in DOMAIN list : list[a] # Ct!Related(h)
          /\ \A j \in DOMAIN before : h \in before[j] => j = k
  BY <1>1, <1>3, <1>9 DEF GivenOnce
<1>17. /\ Tail(list) \in Seq(Sets) /\ OneToOne(Tail(list))
       /\ \A a \in DOMAIN Tail(list) :
            a + 1 \in DOMAIN list /\ a + 1 # 1 /\ Tail(list)[a] = list[a + 1]
       /\ \A a \in DOMAIN list : a # 1 => a - 1 \in DOMAIN Tail(list) /\ Tail(list)[a - 1] = list[a]
       /\ \A a \in DOMAIN list : list[a] = hosts => a = 1
  <2>1. OneToOne(list)
    BY <1>1, <1>3 DEF PacksWait
  <2> HIDE DEF list
  <2>2. /\ Tail(list) \in Seq(Sets) /\ Len(list) \in Nat /\ Len(Tail(list)) = Len(list) - 1
        /\ DOMAIN list = 1..Len(list) /\ DOMAIN Tail(list) = 1..(Len(list) - 1)
        /\ \A a \in 1..(Len(list) - 1) : Tail(list)[a] = list[a + 1]
    BY <1>0, <1>10
  <2> DEFINE n == Len(list)
             rest == Tail(list)
  <2>3. /\ n \in Nat /\ Len(rest) = n - 1 /\ DOMAIN list = 1..n /\ DOMAIN rest = 1..(n - 1)
        /\ \A a \in 1..(n - 1) : rest[a] = list[a + 1]
        /\ \A a, b \in 1..n : list[a] = list[b] => a = b
    BY <2>1, <2>2 DEF OneToOne
  <2>4. 1 \in 1..n
    BY <1>10, <2>3
  <2> HIDE DEF n, rest
  <2>5. \A a \in 1..(n - 1) : a + 1 \in 1..n /\ a + 1 # 1
    BY <2>3
  <2>6. \A a \in 1..n : a # 1 => a - 1 \in 1..(n - 1) /\ (a - 1) + 1 = a
    BY <2>3
  <2>7. OneToOne(rest)
    <3>1. ASSUME NEW a \in 1..(n - 1), NEW b \in 1..(n - 1), rest[a] = rest[b] PROVE a = b
      <4>1. a + 1 = b + 1
        BY <2>3, <2>5, <3>1
      <4> QED
        BY <2>3, <4>1
    <3> QED
      BY <2>3, <3>1 DEF OneToOne
  <2>8. \A a \in 1..n : a # 1 => rest[a - 1] = list[a]
    BY <2>3, <2>6
  <2>9. \A a \in 1..n : list[a] = hosts => a = 1
    BY <1>10, <2>3, <2>4
  <2> QED
    BY <2>2, <2>3, <2>5, <2>6, <2>7, <2>8, <2>9 DEF rest
<1> HIDE DEF list, r
<1>18. CutTypes'
  <2>1. packs' \in [Ct!Realms -> Seq(Sets)]
    <3>1. \A x \in Ct!Realms : packs'[x] \in Seq(Sets)
      BY <1>1, <1>12, <1>15 DEF CutTypes, after
    <3>2. packs' = [x \in Ct!Realms |-> packs'[x]]
      BY <1>1, <1>6, <1>12 DEF CutTypes
    <3> QED
      BY <3>1, <3>2
  <2>2. ungiven' \in [Ct!Realms -> Seq(Sets)]
    <3>1. \A x \in Ct!Realms : ungiven'[x] \in Seq(Sets)
      BY <1>1, <1>13, <1>17 DEF CutTypes
    <3>2. ungiven' = [x \in Ct!Realms |-> ungiven'[x]]
      BY <1>0, <1>1, <1>13 DEF CutTypes
    <3> QED
      BY <3>1, <3>2
  <2> QED
    BY <1>0, <1>1, <2>1, <2>2 DEF CutTypes
<1>19. PacksWait'
  <2>1. ASSUME NEW x \in Ct!Realms
        PROVE  /\ OneToOne(ungiven'[x])
               /\ \A a \in DOMAIN ungiven'[x] : \E b \in DOMAIN ungiven[x] :
                    ungiven'[x][a] = ungiven[x][b]
    <3>1. CASE x = r
      <4>1. ungiven'[x] = Tail(list) /\ ungiven[x] = list
        BY <1>13, <3>1 DEF list
      <4>2. \A a \in DOMAIN Tail(list) : \E b \in DOMAIN list : Tail(list)[a] = list[b]
        BY <1>17
      <4> DEFINE rest == Tail(list)
      <4>3. OneToOne(rest) /\ ungiven'[x] = rest
        BY <1>17, <4>1
      <4>4. \A a \in DOMAIN rest : \E b \in DOMAIN list : rest[a] = list[b]
        BY <4>2
      <4> HIDE DEF rest
      <4> QED
        BY <4>1, <4>3, <4>4
    <3>2. CASE x # r
      BY <1>1, <1>13, <3>2 DEF PacksWait
    <3> QED
      BY <3>1, <3>2
  <2> QED
    BY <1>1, <1>2, <2>1, Same DEF PacksWait
<1>20. GivenOnce'
  <2> DEFINE Ok(x, k, h) ==
               /\ h \in Ct!Hosts /\ Home(h) = x /\ Ct!Related(h) \subseteq packs'[x][k]
               /\ \A a \in DOMAIN ungiven'[x] : ungiven'[x][a] # Ct!Related(h)
               /\ \A j \in DOMAIN packs'[x] : h \in packs'[x][j] => j = k
  <2>1. ASSUME NEW x \in Ct!Realms, x # r, NEW k \in DOMAIN packs'[x], NEW h \in packs'[x][k]
        PROVE  Ok(x, k, h)
    BY <1>1, <1>12, <1>13, <2>1 DEF GivenOnce
  <2>2. ASSUME NEW k \in DOMAIN after, NEW h \in after[k] PROVE Ok(r, k, h)
    <3>1. CASE h \in hosts
      <4>1. \A j \in DOMAIN before : h \notin before[j]
        BY <1>10, <1>11, <1>16, <3>1
      <4>2. k = i
        BY <1>15, <2>2, <4>1
      <4>3. h \in Ct!Hosts /\ Home(h) = r /\ hosts = Ct!Related(h)
        BY <1>11, <3>1
      <4>4. Ct!Related(h) \subseteq after[k]
        BY <1>14, <1>15, <4>2, <4>3
      <4>5. \A a \in DOMAIN Tail(list) : Tail(list)[a] # Ct!Related(h)
        BY <1>17, <4>3
      <4>6. \A j \in DOMAIN after : h \in after[j] => j = k
        BY <1>15, <4>1, <4>2
      <4> QED
        BY <1>13, <4>3, <4>4, <4>5, <4>6 DEF after
    <3>2. CASE h \notin hosts
      <4>1. k \in DOMAIN before /\ h \in before[k]
        BY <1>15, <2>2, <3>2
      <4>2. h \in Ct!Hosts /\ Home(h) = r /\ Ct!Related(h) \subseteq after[k]
        BY <1>15, <1>16, <4>1
      <4>3. \A a \in DOMAIN Tail(list) : Tail(list)[a] # Ct!Related(h)
        BY <1>16, <1>17, <4>1
      <4>4. \A j \in DOMAIN after : h \in after[j] => j = k
        BY <1>15, <1>16, <3>2, <4>1
      <4> QED
        BY <1>13, <4>2, <4>3, <4>4 DEF after
    <3> QED
      BY <3>1, <3>2
  <2>3. ASSUME NEW x \in Ct!Realms, NEW k \in DOMAIN packs'[x], NEW h \in packs'[x][k]
        PROVE  Ok(x, k, h)
    BY <2>1, <2>2, <2>3 DEF after
  <2> QED
    BY <1>2, <2>3, Same DEF GivenOnce
<1>21. AllAreSeen'
  <2>1. ASSUME errors' = FALSE, NEW h \in Ct!Hosts
        PROVE  /\ Home(h) \in Ct!Realms
               /\ \/ \E a \in DOMAIN ungiven'[Home(h)] : ungiven'[Home(h)][a] = Ct!Related(h)
                  \/ \E k \in DOMAIN packs'[Home(h)] : h \in packs'[Home(h)][k]
    <3>1. /\ Home(h) \in Ct!Realms
          /\ \/ \E a \in DOMAIN ungiven[Home(h)] : ungiven[Home(h)][a] = Ct!Related(h)
             \/ \E k \in DOMAIN packs[Home(h)] : h \in packs[Home(h)][k]
      BY <1>0, <1>1, <2>1 DEF AllAreSeen
    <3>2. CASE Home(h) # r
      BY <1>12, <1>13, <3>1, <3>2
    <3>3. ASSUME Home(h) = r, NEW a \in DOMAIN list, list[a] = Ct!Related(h)
          PROVE  \/ \E b \in DOMAIN Tail(list) : Tail(list)[b] = Ct!Related(h)
                 \/ h \in after[i]
      <4>1. h \in Ct!Related(h)
        BY <1>1, RelatedIs
      <4>2. CASE a = 1
        BY <1>10, <1>14, <1>15, <3>3, <4>1, <4>2
      <4>3. CASE a # 1
        BY <1>17, <3>3, <4>3
      <4> QED
        BY <4>2, <4>3
    <3>4. ASSUME Home(h) = r, NEW k \in DOMAIN packs[r], h \in packs[r][k]
          PROVE  k \in DOMAIN after /\ h \in after[k]
      <4>1. before = packs[r]
        <5>1. packs[r] # <<>>
          <6>1. DOMAIN <<>> = {}
            OBVIOUS
          <6> QED
            BY <3>4, <6>1
        <5> QED
          BY <1>9, <5>1
      <4> QED
        BY <1>15, <3>4, <4>1
    <3>5. CASE Home(h) = r
      <4>1. \/ \E a \in DOMAIN list : list[a] = Ct!Related(h)
            \/ \E k \in DOMAIN packs[r] : h \in packs[r][k]
        BY <3>1, <3>5 DEF list
      <4>2. \/ \E b \in DOMAIN Tail(list) : Tail(list)[b] = Ct!Related(h)
            \/ \E k \in DOMAIN after : h \in after[k]
        BY <1>14, <1>15, <3>3, <3>4, <3>5, <4>1
      <4> QED
        BY <1>13, <3>1, <3>5, <4>2 DEF after
    <3> QED
      BY <3>1, <3>2, <3>5
  <2> QED
    BY <1>0, <1>1, <1>2, <2>1, Same DEF AllAreSeen, CutTypes
<1>22. PackPerScheduler'
  <2>1. Len(packs'[r]) = Len(Ct!NoSpare(r))
    BY <1>15 DEF after, N
  <2>2. \A x \in Ct!Realms : x # r => packs'[x] = packs[x]
    BY <1>12
  <2> QED
    BY <1>1, <1>2, <2>1, <2>2, Same DEF PackPerScheduler
<1>23. RealmsInOrder'
  <2>1. ASSUME NEW j \in 1..(rnow - 1) PROVE ungiven'[RealmSeq[j]] = <<>>
    <3>1. j \in 1..Len(RealmSeq) /\ j # rnow
      BY <1>3, RealmIndex
    <3>2. RealmSeq[j] \in Ct!Realms /\ RealmSeq[j] # r
      BY <1>3, <3>1, RealmIndex DEF r
    <3> QED
      BY <1>1, <1>13, <3>2
  <2> QED
    BY <1>0, <2>1 DEF RealmsInOrder
<1>24. NotedIsLast'
  <2>1. \A h \in DOMAIN assoc' : assoc'[h] = Len(N) - 1
    BY <1>1, <1>4
  <2>2. Ct!NoSpare(RealmSeq[rnow])' = N
    BY <1>0, <1>2, Same DEF N, r
  <2> QED
    BY <2>1, <2>2 DEF NotedIsLast
<1>25. PartsTell' /\ SendingGoesOn'
  BY <1>0, <1>1 DEF PartsTell, SendingGoesOn
<1> QED
  BY <1>18, <1>19, <1>20, <1>21, <1>22, <1>23, <1>24, <1>25 DEF CutInv

LEMMA BalanceRealmStep == ASSUME CutAssumption, CutInv, Ct!BalanceRealm PROVE CutInv'
<1>1. Ct!NextRealm(RealmSeq[rnow]) \/ Ct!GivePack(RealmSeq[rnow])
  BY DEF Ct!BalanceRealm
<1> QED
  BY <1>1, NextRealmStep, GivePackStep

\* What cut_into_parts makes of the packs: the i-th pack of the k-th realm is a part.
LEMMA PartsAre ==
    ASSUME CutAssumption, CutInv, Ct!CutIntoParts
    PROVE  /\ \A r \in Ct!Realms : \A c : c \in rconfs'[r] <=>
                \E k \in 1..Len(RealmSeq) : RealmSeq[k] = r /\ c \in Ct!PartIds(k)
           /\ \A k \in 1..Len(RealmSeq) : \A i \in DOMAIN packs[RealmSeq[k]] :
                /\ Ct!Offset(k) + i - 1 \in DOMAIN confs'
                /\ Ct!Offset(k) + i - 1 \in Ct!PartIds(k)
                /\ confs'[Ct!Offset(k) + i - 1] = packs[RealmSeq[k]][i]
           /\ \A c \in DOMAIN confs' : \E k \in 1..Len(RealmSeq) :
                \E i \in DOMAIN packs[RealmSeq[k]] : c = Ct!Offset(k) + i - 1
<1> DEFINE n == Len(RealmSeq)
<1>1. CutTypes
  BY DEF CutInv
<1>2. /\ n \in Nat /\ DOMAIN RealmSeq = 1..n
      /\ \A k \in 1..n : RealmSeq[k] \in Ct!Realms
  BY RealmIndex
<1>3. \A k \in 1..n : DOMAIN packs[RealmSeq[k]] = 1..Len(packs[RealmSeq[k]])
                      /\ Len(packs[RealmSeq[k]]) \in Nat
  <2>1. ASSUME NEW k \in 1..n
        PROVE  DOMAIN packs[RealmSeq[k]] = 1..Len(packs[RealmSeq[k]])
               /\ Len(packs[RealmSeq[k]]) \in Nat
    <3> DEFINE p == packs[RealmSeq[k]]
    <3>1. p \in Seq(Sets)
      BY <1>1, <1>2 DEF CutTypes
    <3> HIDE DEF p
    <3>2. DOMAIN p = 1..Len(p) /\ Len(p) \in Nat
      BY <3>1
    <3> QED
      BY <3>2 DEF p
  <2> QED
    BY <2>1
<1>4. \A k \in 1..n : Ct!PartIds(k) = {Ct!Offset(k) + i - 1 : i \in DOMAIN packs[RealmSeq[k]]}
  BY DEF Ct!PartIds
<1>5. /\ DOMAIN confs' = UNION {Ct!PartIds(k) : k \in 1..n}
      /\ \A c \in DOMAIN confs' :
           confs'[c] = UNION {packs[RealmSeq[k]][c - Ct!Offset(k) + 1] :
                              k \in {j \in 1..n : c \in Ct!PartIds(j)}}
  BY <1>2 DEF Ct!CutIntoParts
<1>6. \A r \in Ct!Realms : rconfs'[r] = Ct!PartIds(Ct!Index(RealmSeq, r))
  BY DEF Ct!CutIntoParts
<1> HIDE DEF n
<1>7. ASSUME NEW r \in Ct!Realms, NEW c
      PROVE  c \in rconfs'[r] <=> \E k \in 1..n : RealmSeq[k] = r /\ c \in Ct!PartIds(k)
  <2> DEFINE x == Ct!Index(RealmSeq, r)
  <2>1. x \in 1..n /\ RealmSeq[x] = r
    <3>1. \E k \in DOMAIN RealmSeq : RealmSeq[k] = r
      BY RealmIndex
    <3> QED
      BY <1>2, <3>1, IndexIs
  <2>2. rconfs'[r] = Ct!PartIds(x)
    BY <1>6
  <2> HIDE DEF x
  <2>3. \A k \in 1..n : RealmSeq[k] = r => k = x
    BY <2>1, RealmIndex DEF n
  <2> QED
    BY <2>1, <2>2, <2>3
<1>8. ASSUME NEW k \in 1..n, NEW i \in DOMAIN packs[RealmSeq[k]]
      PROVE  /\ Ct!Offset(k) + i - 1 \in DOMAIN confs'
             /\ Ct!Offset(k) + i - 1 \in Ct!PartIds(k)
             /\ confs'[Ct!Offset(k) + i - 1] = packs[RealmSeq[k]][i]
  <2> DEFINE c == Ct!Offset(k) + i - 1
  <2>1. c \in Ct!PartIds(k)
    BY <1>4
  <2>2. c \in DOMAIN confs'
    BY <1>5, <2>1
  <2>3. \A j \in 1..n : c \in Ct!PartIds(j) => j = k
    <3>1. ASSUME NEW j \in 1..n, c \in Ct!PartIds(j) PROVE j = k
      <4>1. PICK m \in DOMAIN packs[RealmSeq[j]] : c = Ct!Offset(j) + m - 1
        BY <1>4, <3>1
      <4>2. /\ i \in 1..Len(packs[RealmSeq[k]]) /\ m \in 1..Len(packs[RealmSeq[j]])
            /\ i \in Nat /\ m \in Nat
        BY <1>3
      <4> QED
        BY <1>1, <4>1, <4>2, PartIdsAre DEF CutTypes, n
    <3> QED
      BY <3>1
  <2>4. {j \in 1..n : c \in Ct!PartIds(j)} = {k}
    BY <2>1, <2>3
  <2>5. c - Ct!Offset(k) + 1 = i
    <3>1. Ct!Offset(k) \in Nat
      BY <1>1, PartIdsAre DEF CutTypes, n
    <3>2. i \in Nat
      BY <1>3
    <3> QED
      BY <3>1, <3>2
  <2> HIDE DEF c
  <2>6. confs'[c] = UNION {packs[RealmSeq[j]][c - Ct!Offset(j) + 1] : j \in {k}}
    BY <1>5, <2>2, <2>4
  <2>7. confs'[c] = packs[RealmSeq[k]][c - Ct!Offset(k) + 1]
    BY <2>6
  <2> QED
    BY <2>1, <2>2, <2>5, <2>7 DEF c
<1>9. ASSUME NEW c \in DOMAIN confs'
      PROVE  \E k \in 1..n : \E i \in DOMAIN packs[RealmSeq[k]] : c = Ct!Offset(k) + i - 1
  <2>1. PICK k \in 1..n : c \in Ct!PartIds(k)
    BY <1>5
  <2> QED
    BY <1>4, <2>1
<1> QED
  BY <1>7, <1>8, <1>9 DEF n

\* Each host is in the part of its pack, and in no other.
LEMMA PartsTellStep ==
    ASSUME CutAssumption, CutInv, Ct!CutIntoParts, ~errors, NEW h \in Ct!Hosts
    PROVE  /\ Home(h) \in Ct!Realms
           /\ \E c \in DOMAIN confs' :
                /\ \A d \in DOMAIN confs' : h \in confs'[d] <=> d = c
                /\ Ct!Related(h) \subseteq confs'[c]
                /\ \A r \in Ct!Realms : c \in rconfs'[r] <=> r = Home(h)
<1> DEFINE n == Len(RealmSeq)
<1>0. phase = "parts"
  BY DEF Ct!CutIntoParts
<1>1. /\ CutTypes /\ GivenOnce /\ AllAreSeen
      /\ \A r \in Ct!Realms : ungiven[r] = <<>>
  BY <1>0 DEF CutInv, RealmsInOrder
<1>2. Home(h) \in Ct!Realms /\ \E i \in DOMAIN packs[Home(h)] : h \in packs[Home(h)][i]
  <2>1. DOMAIN <<>> = {}
    OBVIOUS
  <2> QED
    BY <1>1, <2>1 DEF AllAreSeen
<1>3. PICK i \in DOMAIN packs[Home(h)] : h \in packs[Home(h)][i]
  BY <1>2
<1>4. PICK k \in 1..n : RealmSeq[k] = Home(h)
  BY <1>2, RealmIndex
<1> DEFINE c == Ct!Offset(k) + i - 1
<1>5. c \in DOMAIN confs' /\ c \in Ct!PartIds(k) /\ confs'[c] = packs[Home(h)][i]
  BY <1>3, <1>4, PartsAre
<1>6. Ct!Related(h) \subseteq confs'[c]
  BY <1>1, <1>2, <1>3, <1>5 DEF GivenOnce
<1>7. ASSUME NEW d \in DOMAIN confs', h \in confs'[d] PROVE d = c
  <2>1. PICK l \in 1..n : \E j \in DOMAIN packs[RealmSeq[l]] : d = Ct!Offset(l) + j - 1
    BY PartsAre
  <2>2. PICK j \in DOMAIN packs[RealmSeq[l]] : d = Ct!Offset(l) + j - 1
    BY <2>1
  <2>3. h \in packs[RealmSeq[l]][j]
    BY <1>7, <2>2, PartsAre
  <2>4. RealmSeq[l] = Home(h)
    BY <1>1, <2>3, RealmIndex DEF GivenOnce
  <2>5. l = k
    BY <1>4, <2>4, RealmIndex
  <2>6. j = i
    BY <1>1, <1>2, <1>3, <2>3, <2>4 DEF GivenOnce
  <2> QED
    BY <2>2, <2>5, <2>6
<1>8. ASSUME NEW r \in Ct!Realms PROVE c \in rconfs'[r] <=> r = Home(h)
  <2>1. ASSUME NEW l \in 1..n, c \in Ct!PartIds(l) PROVE l = k
    <3>1. PICK j \in DOMAIN packs[RealmSeq[l]] : c = Ct!Offset(l) + j - 1
      BY <2>1 DEF Ct!PartIds
    <3>2. confs'[c] = packs[RealmSeq[l]][j]
      BY <3>1, PartsAre
    <3>3. RealmSeq[l] = Home(h)
      BY <1>1, <1>3, <1>5, <3>2, RealmIndex DEF GivenOnce
    <3> QED
      BY <1>4, <3>3, RealmIndex
  <2> HIDE DEF c
  <2>2. c \in rconfs'[r] <=> \E l \in 1..n : RealmSeq[l] = r /\ c \in Ct!PartIds(l)
    BY PartsAre
  <2> QED
    BY <1>4, <1>5, <2>1, <2>2
<1> HIDE DEF c
<1> QED
  BY <1>2, <1>3, <1>5, <1>6, <1>7, <1>8

\* What create_packs has found.
Packed == PacksWait /\ GivenOnce /\ AllAreSeen /\ PackPerScheduler
LEMMA PackedStays ==
    ASSUME Packed, UNCHANGED <<parents, realm, schedulers, errors, ungiven, packs>>
    PROVE  Packed'
<1>1. Unchanged
  BY DEF Unchanged
<1>2. PacksWait'
  BY <1>1, Same DEF Packed, PacksWait
<1>3. GivenOnce'
  BY <1>1, Same DEF Packed, GivenOnce
<1>4. AllAreSeen'
  BY <1>1, Same DEF Packed, AllAreSeen
<1>5. PackPerScheduler'
  BY <1>1, Same DEF Packed, PackPerScheduler
<1> QED
  BY <1>2, <1>3, <1>4, <1>5 DEF Packed

\* The configuration is cut into parts.
LEMMA CutIntoPartsStep == ASSUME CutAssumption, CutInv, Ct!CutIntoParts PROVE CutInv'
<1>0. /\ phase = "parts" /\ phase' = (IF errors THEN "exit" ELSE "serialize")
      /\ UNCHANGED <<parents, realm, schedulers, errors, ungiven, packs, assoc, children, rnow,
                     results, sent, deaths>>
  BY DEF Ct!CutIntoParts, Ct!input
<1>1. /\ CutTypes /\ Packed /\ rnow = 1 /\ SendingGoesOn
      /\ \A r \in Ct!Realms : ungiven[r] = <<>>
  BY <1>0 DEF CutInv, RealmsInOrder, Packed
<1>2. Unchanged
  BY <1>0 DEF Unchanged
<1>3. phase' \in {"exit", "serialize"}
  BY <1>0
<1>4. CutTypes' /\ RealmsInOrder' /\ NotedIsLast'
  BY <1>0, <1>1, <1>3 DEF CutTypes, RealmsInOrder, NotedIsLast
<1>5. Packed'
  BY <1>0, <1>1, PackedStays
<1>6. PartsTell'
  <2>1. ASSUME phase' = "serialize", NEW h \in Ct!Hosts
        PROVE  /\ Home(h) \in Ct!Realms
               /\ \E c \in DOMAIN confs' :
                    /\ \A d \in DOMAIN confs' : h \in confs'[d] <=> d = c
                    /\ Ct!Related(h) \subseteq confs'[c]
                    /\ \A r \in Ct!Realms : c \in rconfs'[r] <=> r = Home(h)
    <3>1. ~errors
      BY <1>0, <2>1
    <3> QED
      BY <3>1, PartsTellStep
  <2> QED
    BY <1>2, <1>3, <2>1, Same DEF PartsTell
<1>7. SendingGoesOn'
  BY <1>0, <1>1, <1>3 DEF SendingGoesOn
<1> QED
  BY <1>4, <1>5, <1>6, <1>7 DEF CutInv, Packed

\* The steps after it.
Sending == {"serialize", "wait", "ready"}
LEMMA SendingStep ==
    ASSUME CutAssumption, CutInv,
           UNCHANGED <<parents, realm, schedulers, errors, ungiven, packs, assoc, confs, rconfs>>,
           \/ phase' = phase /\ rnow' = rnow
           \/ phase \in Sending /\ phase' \in Sending \cup {"exit"} /\ rnow' \in 1..Len(RealmSeq),
           SendingGoesOn'
    PROVE  CutInv'
<1>1. CutTypes'
  BY DEF CutInv, CutTypes, Sending
<1>2. Unchanged
  BY DEF Unchanged
<1>3. phase' # "packs" => Packed'
  BY PackedStays DEF CutInv, Packed, Sending
<1>4. RealmsInOrder'
  BY DEF CutInv, RealmsInOrder, Sending
<1>5. NotedIsLast'
  BY <1>2, Same DEF CutInv, NotedIsLast, Sending
<1>6. PartsTell'
  BY <1>2, Same DEF CutInv, PartsTell, Sending
<1> QED
  BY <1>1, <1>3, <1>4, <1>5, <1>6 DEF CutInv, Packed

\* The index goes on, or all is ready.
LEMMA RealmIsSent ==
    ASSUME CutAssumption, CutInv, phase \in {"serialize", "wait"},
           NEW parts, deaths = 0 => parts = rconfs[RealmSeq[rnow]],
           sent' = [sent EXCEPT ![RealmSeq[rnow]] = parts],
           IF rnow = Len(RealmSeq) THEN phase' = "ready" /\ rnow' = rnow
           ELSE rnow' = rnow + 1 /\ phase' = "serialize",
           UNCHANGED <<rconfs, results, deaths>>
    PROVE  SendingGoesOn' /\ rnow' \in 1..Len(RealmSeq) /\ phase' \in {"serialize", "ready"}
<1> DEFINE n == Len(RealmSeq)
<1>1. /\ SendingGoesOn /\ rnow \in 1..n
      /\ RealmSeq[rnow] \in Ct!Realms /\ n \in Nat
  BY RealmIndex DEF CutInv, CutTypes
<1>2. /\ DOMAIN sent' = Ct!Realms /\ sent'[RealmSeq[rnow]] = parts
      /\ \A r \in Ct!Realms : r # RealmSeq[rnow] => sent'[r] = sent[r]
  BY <1>1 DEF SendingGoesOn
<1>3. deaths = 0 => \A j \in 1..rnow : sent'[RealmSeq[j]] = rconfs[RealmSeq[j]]
  <2>1. ASSUME deaths = 0, NEW j \in 1..rnow PROVE sent'[RealmSeq[j]] = rconfs[RealmSeq[j]]
    <3>1. CASE RealmSeq[j] = RealmSeq[rnow]
      BY <1>2, <2>1, <3>1
    <3>2. CASE RealmSeq[j] # RealmSeq[rnow]
      <4>1. n \in Nat /\ rnow \in 1..n /\ j \in 1..rnow /\ j # rnow
        BY <1>1, <2>1, <3>2
      <4> HIDE DEF n
      <4>2. j \in 1..(rnow - 1) /\ j \in 1..n
        BY ONLY <4>1
      <4>3. j \in 1..(rnow - 1) /\ RealmSeq[j] \in Ct!Realms
        BY <4>2, RealmIndex DEF n
      <4>4. sent[RealmSeq[j]] = rconfs[RealmSeq[j]]
        BY <1>1, <2>1, <4>3 DEF SendingGoesOn
      <4> QED
        BY <1>2, <3>2, <4>3, <4>4
    <3> QED
      BY <3>1, <3>2
  <2> QED
    BY <2>1
<1>4. CASE rnow = n
  <2>1. phase' = "ready" /\ rnow' = rnow
    BY <1>4
  <2>2. deaths = 0 => \A r \in Ct!Realms : sent'[r] = rconfs[r]
    BY <1>3, <1>4, RealmIndex
  <2> QED
    BY <1>1, <1>2, <2>1, <2>2 DEF SendingGoesOn
<1>5. CASE rnow # n
  <2>1. phase' = "serialize" /\ rnow' = rnow + 1
    BY <1>5
  <2>2. rnow' \in 1..n /\ rnow' - 1 = rnow
    BY <1>1, <1>5, <2>1, NextIndex
  <2> QED
    BY <1>1, <1>2, <1>3, <2>1, <2>2 DEF SendingGoesOn
<1> QED
  BY <1>4, <1>5

\* The arbiter serializes the parts of a realm itself.
LEMMA SerializeStep == ASSUME CutAssumption, CutInv, Ct!Serialize PROVE CutInv'
<1>1. /\ phase = "serialize"
      /\ sent' = [sent EXCEPT ![RealmSeq[rnow]] = rconfs[RealmSeq[rnow]]]
      /\ IF rnow = Len(RealmSeq) THEN phase' = "ready" /\ rnow' = rnow
         ELSE rnow' = rnow + 1 /\ phase' = "serialize"
      /\ UNCHANGED <<parents, realm, schedulers, errors, ungiven, packs, assoc, confs, rconfs,
                     results, deaths>>
  BY DEF Ct!Serialize, Ct!Advance, Ct!Current, Ct!input
<1>2. SendingGoesOn' /\ rnow' \in 1..Len(RealmSeq) /\ phase' \in {"serialize", "ready"}
  <2> DEFINE parts == rconfs[RealmSeq[rnow]]
  <2>1. deaths = 0 => parts = rconfs[RealmSeq[rnow]]
    OBVIOUS
  <2>2. sent' = [sent EXCEPT ![RealmSeq[rnow]] = parts]
    BY <1>1
  <2> HIDE DEF parts
  <2> QED
    BY <1>1, <2>1, <2>2, RealmIsSent
<1> QED
  BY <1>1, <1>2, SendingStep DEF Sending

\* Children are started, and end one by one.
LEMMA StartChildrenStep == ASSUME CutAssumption, CutInv, Ct!StartChildren PROVE CutInv'
<1>1. /\ phase = "serialize" /\ phase' = "wait" /\ children' = rconfs[RealmSeq[rnow]]
      /\ UNCHANGED <<parents, realm, schedulers, errors, ungiven, packs, assoc, confs, rconfs,
                     rnow, results, sent, deaths>>
  BY DEF Ct!StartChildren, Ct!Current, Ct!input
<1>2. SendingGoesOn'
  BY <1>1 DEF CutInv, SendingGoesOn
<1>3. rnow' \in 1..Len(RealmSeq)
  BY <1>1 DEF CutInv, CutTypes
<1> QED
  BY <1>1, <1>2, <1>3, SendingStep DEF Sending

LEMMA ChildEndsStep ==
    ASSUME CutAssumption, CutInv, NEW c \in children, Ct!ChildEnds(c) PROVE CutInv'
<1>1. /\ children' = children \ {c}
      /\ \/ results' = results \cup {c} /\ deaths' = deaths
         \/ deaths' = deaths + 1 /\ results' = results
      /\ UNCHANGED <<phase, parents, realm, schedulers, errors, ungiven, packs, assoc, confs,
                     rconfs, rnow, sent>>
  BY DEF Ct!ChildEnds, Ct!input
<1>2. SendingGoesOn
  BY DEF CutInv
<1>3. CASE results' = results \cup {c} /\ deaths' = deaths
  <2>1. IsFiniteSet(results')
    BY <1>2, <1>3, FS_AddElement DEF SendingGoesOn
  <2>2. SendingGoesOn'
    BY <1>1, <1>2, <1>3, <2>1 DEF SendingGoesOn
  <2> QED
    BY <1>1, <2>2, SendingStep
<1>4. CASE deaths' = deaths + 1 /\ results' = results
  <2>1. deaths' \in Nat /\ deaths' # 0
    BY <1>2, <1>4 DEF SendingGoesOn
  <2>2. SendingGoesOn'
    BY <1>1, <1>2, <1>4, <2>1 DEF SendingGoesOn
  <2> QED
    BY <1>1, <2>2, SendingStep
<1> QED
  BY <1>1, <1>3, <1>4

\* All have ended: as many results as parts are the results of the parts, if none died.
LEMMA JoinChildrenStep == ASSUME CutAssumption, CutInv, Ct!JoinChildren PROVE CutInv'
<1>1. /\ phase = "wait" /\ children = {}
      /\ UNCHANGED <<parents, realm, schedulers, errors, ungiven, packs, assoc, confs, rconfs,
                     children, results, deaths>>
  BY DEF Ct!JoinChildren, Ct!input
<1>2. SendingGoesOn /\ rnow \in 1..Len(RealmSeq)
  BY DEF CutInv, CutTypes
<1>3. CASE Ct!CountIsGood
  <2>1. /\ sent' = [sent EXCEPT ![RealmSeq[rnow]] = results]
        /\ IF rnow = Len(RealmSeq) THEN phase' = "ready" /\ rnow' = rnow
           ELSE rnow' = rnow + 1 /\ phase' = "serialize"
    BY <1>3 DEF Ct!JoinChildren, Ct!Current
  <2>2. deaths = 0 => results = rconfs[RealmSeq[rnow]]
    <3> DEFINE parts == rconfs[RealmSeq[rnow]]
    <3>1. Cardinality(results) = Cardinality(parts)
      BY <1>3, Cut0 DEF Ct!CountIsGood, Ct!Current
    <3>2. ASSUME deaths = 0 PROVE results = parts
      <4>1. parts \subseteq results /\ IsFiniteSet(results)
        BY <1>1, <1>2, <3>2 DEF SendingGoesOn
      <4> HIDE DEF parts
      <4> QED
        BY <3>1, <4>1, FS_Subset
    <3> QED
      BY <3>2
  <2>3. SendingGoesOn' /\ rnow' \in 1..Len(RealmSeq) /\ phase' \in {"serialize", "ready"}
    BY <1>1, <2>1, <2>2, RealmIsSent
  <2> QED
    BY <1>1, <2>3, SendingStep DEF Sending
<1>4. CASE ~Ct!CountIsGood
  <2>1. phase' = "exit" /\ sent' = sent /\ rnow' = rnow
    BY <1>4 DEF Ct!JoinChildren
  <2>2. SendingGoesOn'
    BY <1>1, <1>2, <2>1 DEF SendingGoesOn
  <2> QED
    BY <1>1, <1>2, <2>1, <2>2, SendingStep DEF Sending
<1> QED
  BY <1>3, <1>4

LEMMA CutStep == ASSUME CutAssumption, CutInv, [Ct!Next]_Ct!vars PROVE CutInv'
<1>1. CASE Ct!CreatePacks
  BY <1>1, CreatePacksStep
<1>2. CASE Ct!BalanceRealm
  BY <1>2, BalanceRealmStep
<1>3. CASE Ct!CutIntoParts
  BY <1>3, CutIntoPartsStep
<1>4. CASE Ct!Serialize
  BY <1>4, SerializeStep
<1>5. CASE Ct!StartChildren
  BY <1>5, StartChildrenStep
<1>6. CASE Ct!JoinChildren
  BY <1>6, JoinChildrenStep
<1>7. ASSUME NEW c \in children, Ct!ChildEnds(c) PROVE CutInv'
  BY <1>7, ChildEndsStep
<1>8. CASE UNCHANGED Ct!vars
  <2>1. UNCHANGED <<phase, parents, realm, schedulers, errors, ungiven, packs, assoc, confs,
                    rconfs, children, rnow, results, sent, deaths>>
    BY <1>8 DEF Ct!vars, Ct!input
  <2>2. SendingGoesOn'
    BY <2>1 DEF CutInv, SendingGoesOn
  <2> QED
    BY <2>1, <2>2, SendingStep
<1> QED
  BY <1>1, <1>2, <1>3, <1>4, <1>5, <1>6, <1>7, <1>8 DEF Ct!Next

LEMMA CutInit == ASSUME CutAssumption, Ct!Init PROVE CutInv
<1>1. CutTypes
  <2>1. <<>> \in Seq(Sets)
    OBVIOUS
  <2>2. 1 \in 1..Len(RealmSeq)
    BY RealmIndex
  <2> QED
    BY <2>1, <2>2 DEF Ct!Init, CutTypes
<1>2. RealmsInOrder /\ NotedIsLast /\ PartsTell
  BY DEF Ct!Init, RealmsInOrder, NotedIsLast, PartsTell
<1>3. SendingGoesOn
  BY FS_EmptySet DEF Ct!Init, SendingGoesOn
<1> QED
  BY <1>1, <1>2, <1>3 DEF CutInv, Ct!Init

LEMMA CutInvariance == ASSUME CutAssumption PROVE Ct!Spec => []CutInv
<1>1. Ct!Init => CutInv
  BY CutInit
<1>2. CutInv /\ [Ct!Next]_Ct!vars => CutInv'
  BY CutStep
<1> QED
  BY <1>1, <1>2, PTL DEF Ct!Spec

\* A configuration that is not refused has every host in exactly one part, with all that
\* is related to it, and the part is for the realm of the host (objects/config.py
\* create_packs, cut_into_parts).
THEOREM EveryHostIsInOnePart == ASSUME CutAssumption PROVE Ct!Spec => []Ct!EveryHostOnce
<1>1. ASSUME CutInv PROVE Ct!EveryHostOnce
  <2>1. CutTypes /\ PartsTell
    BY <1>1 DEF CutInv
  <2>2. SUFFICES ASSUME phase \in {"serialize", "wait", "ready"}, NEW h \in Ct!Hosts
                 PROVE  \E c \in DOMAIN confs :
                          /\ \A d \in DOMAIN confs : h \in confs[d] <=> d = c
                          /\ Ct!Related(h) \subseteq confs[c]
                          /\ \A r \in Ct!Realms : c \in rconfs[r] <=>
                               r = (IF Ct!RealmsOf(Ct!Related(h)) = {} THEN DefaultRealm
                                    ELSE CHOOSE x \in Ct!RealmsOf(Ct!Related(h)) : TRUE)
                          /\ realm[h] # None => c \in rconfs[realm[h]]
    BY DEF Ct!EveryHostOnce
  <2>3. PICK c \in DOMAIN confs :
               /\ \A d \in DOMAIN confs : h \in confs[d] <=> d = c
               /\ Ct!Related(h) \subseteq confs[c]
               /\ \A r \in Ct!Realms : c \in rconfs[r] <=> r = Home(h)
    BY <2>1, <2>2 DEF PartsTell
  <2>4. Home(h) \in Ct!Realms
    BY <2>1, <2>2 DEF PartsTell
  <2> DEFINE meant == IF Ct!RealmsOf(Ct!Related(h)) = {} THEN DefaultRealm
                      ELSE CHOOSE x \in Ct!RealmsOf(Ct!Related(h)) : TRUE
  <2>5. Home(h) = meant /\ (realm[h] # None => realm[h] = Home(h))
    BY <2>1, <2>2, <2>4, RelatedIs, HomeIs DEF Sets
  <2> HIDE DEF meant
  <2>6. /\ \A r \in Ct!Realms : c \in rconfs[r] <=> r = meant
        /\ realm[h] # None => c \in rconfs[realm[h]]
    BY <2>3, <2>4, <2>5
  <2> QED
    BY <2>3, <2>6 DEF meant
<1>2. CutInv => Ct!EveryHostOnce
  BY <1>1
<1> QED
  BY <1>2, CutInvariance, PTL

\* If no child died, the arbiter goes on with every part of every realm serialized in
\* that realm, though the list of results is not emptied between realms
\* (objects/config.py prepare_for_sending).
THEOREM PartsAreSentComplete == ASSUME CutAssumption PROVE Ct!Spec => []Ct!SentIsComplete
<1>1. CutInv => Ct!SentIsComplete
  BY DEF CutInv, SendingGoesOn, Ct!SentIsComplete
<1> QED
  BY <1>1, CutInvariance, PTL

=============================================================================
