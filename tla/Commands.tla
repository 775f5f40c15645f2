------------------------------ MODULE Commands ------------------------------
(***************************************************************************)
(* External commands as a scheduler carries them out (external_command.py):*)
(* the switches of hosts, services, contacts and of the program, the       *)
(* values a command may change, comments and acknowledgements, the links   *)
(* between hosts; with what survives a save and reload of the retention    *)
(* (scheduler.py) and what the broker has been told.  Commands about       *)
(* checks are in Scheduler, about downtimes in Downtime.                   *)
(***************************************************************************)
EXTENDS Integers, Sequences, FiniteSets, SequencesExt, Lists

CONSTANTS
    Hosts, Services,    \* the items of the configuration
    HostOf,             \* the host of each service
    Contacts,
    Hostgroup,          \* the members of a hostgroup
    Servicegroup,       \* the members of a servicegroup
    ConfOn,             \* the switches the configuration turns on, for each owner
    ConfFlags,          \* the program flags the configuration turns on
    Unscheduled,        \* items configured with check_interval 0
    GivenValues,        \* bound: the values of items that the commands change
    MaxCommands,        \* bound on the commands (and other events) of a behaviour
    MaxComments         \* bound on the comments in the program

Items == Hosts \cup Services
Owners == Items \cup Contacts

\* The attributes of DICT_MODATTR that a host or a service turns on and off.
Switches == {"notifications", "active", "passive", "handler", "flap",
             "obsess", "freshness", "perf"}

\* The attributes of DICT_MODATTR that hold a value; first_notification_delay
\* is changed by a command too and has no bit.
Values == {"event_handler", "check_command", "check_interval",
           "retry_interval", "max_check_attempts", "check_period",
           "customs", "notification_period", "first_notification_delay"}

\* What commands write of a contact.  Contact has no property for the two masks:
\* they exist from the first command that writes one.
ContactMasks == {"modified_host_attributes", "modified_service_attributes"}

ContactPeriods == {"host_notification_period", "service_notification_period"}

ContactValues == ContactMasks \cup ContactPeriods \cup {"customs"}

ContactSwitches == {"host_notifications", "service_notifications"}

\* The flags of the main configuration that commands change.
Flags == {"event_handlers", "failure_prediction", "flap_detection",
          "host_freshness", "service_freshness", "notifications",
          "performance_data", "accept_passive_host",
          "accept_passive_service", "execute_host", "execute_service",
          "obsess_over_hosts", "obsess_over_services"}

ASSUME ConstantsAssumption ==
    /\ HostOf \in [Services -> Hosts]
    /\ Hostgroup \subseteq Hosts /\ Servicegroup \subseteq Services
    /\ Hosts \cap Services = {} /\ Items \cap Contacts = {}
    /\ ConfOn \in [Owners -> SUBSET (Switches \cup ContactSwitches)]
    /\ ConfFlags \subseteq Flags /\ Unscheduled \subseteq Items
    /\ GivenValues \subseteq Values /\ MaxCommands \in Nat /\ MaxComments \in Nat

VARIABLES
    on,         \* the switches of each owner that are on
    changed,    \* the values of each owner that differ from the configuration
    modified,   \* modified_attributes of each owner, a set of bits
    forced,     \* history: the owners whose mask a command wrote as a whole
    flapping,   \* the items with is_flapping
    flags,      \* the program flags that are on, in the configuration object
    cls,        \* the copies of the flags in the classes Host, Service, ...
    acked,      \* the items with an acknowledgement
    comments,   \* the comments of each item, in order
    known,      \* ids in the scheduler's dictionary of comments
    dying,      \* ids of comments with can_be_deleted
    nextId,     \* Comment.id
    links,      \* act_depend_of between hosts, pairs <<son, father>>
    children,   \* child_dependencies, pairs <<son, father>>
    told,       \* what the last status brok of each owner says
    silent,     \* history: those a command without a brok was about since then
    left        \* commands that may still be given

vars == <<on, changed, modified, forced, flapping, flags, cls, acked, comments,
          known, dying, nextId, links, children, told, silent, left>>

Comment == [id: 1..MaxComments, ack: BOOLEAN, persistent: BOOLEAN]

Ids(i) == {comments[i][k].id : k \in DOMAIN comments[i]}

\* What the full_status data says of o, as far as commands change it.  Custom
\* variables and the masks for hosts and services are not in that of a contact;
\* the comments go with the attribute can_be_deleted.
Status(o) ==
    [on |-> on[o],
     mask |-> modified[o],
     values |-> changed[o] \ IF o \in Contacts THEN ContactMasks \cup {"customs"} ELSE {},
     flapping |-> o \in flapping,
     acked |-> o \in acked,
     comments |-> IF o \in Items THEN Ids(o) ELSE {},
     marked |-> IF o \in Items THEN Ids(o) \cap dying ELSE {},
     parents |-> {p \in children : p[1] = o}]

\* get_and_register_status_brok for each member of O.
Tell(O) ==
    /\ told' = [o \in Owners |-> IF o \in O THEN Status(o)' ELSE told[o]]
    /\ silent' = silent \ O

\* A command about the members of O that sends no brok.
TellNobody(O) == UNCHANGED told /\ silent' = silent \cup O

\* explode_global_conf when the flag is read by the classes; the new flags.
explode_global_conf(F) == cls' = F

Init ==
    /\ on = ConfOn
    /\ changed = [o \in Owners |-> {}] /\ modified = [o \in Owners |-> {}]
    /\ forced = {} /\ flapping = {}
    /\ flags = ConfFlags /\ cls = ConfFlags
    /\ acked = {} /\ comments = [i \in Items |-> <<>>]
    /\ known = {} /\ dying = {} /\ nextId = 1
    /\ links \in {{}, {p \in Hosts \X Hosts : p[1] # p[2] /\ p[2] \in Hostgroup
                                               /\ p[1] \notin Hostgroup}}
    /\ children = links
    /\ told = [o \in Owners |-> Status(o)] /\ silent = {}
    /\ left = MaxCommands

Spend == left > 0 /\ left' = left - 1

-----------------------------------------------------------------------------
(* Switches.  A command that finds the switch as it wants it does nothing. *)

Bit(a) == IF a \in ContactSwitches THEN "notifications" ELSE a

\* One switch of a set of owners: bit, attribute and brok of each one that
\* changes; turning flap detection off also ends flapping.
Switch(O, a, b) ==
    LET C == {o \in O : (a \in on[o]) # b}
    IN  /\ C # {} /\ Spend
        /\ on' = [o \in Owners |-> IF o \notin C THEN on[o]
                                   ELSE IF b THEN on[o] \cup {a} ELSE on[o] \ {a}]
        /\ modified' = [o \in Owners |-> IF o \in C THEN modified[o] \cup {Bit(a)}
                                         ELSE modified[o]]
        /\ flapping' = IF a = "flap" /\ ~b THEN flapping \ C ELSE flapping
        /\ UNCHANGED <<changed, forced, flags, cls, acked, comments, known, dying,
                       nextId, links, children>>
        /\ Tell(C)

\* A flag of the program: copied to the classes; without flap detection no item
\* is flapping any more.
Program(F, b) ==
    \E f \in F :
        /\ (f \in flags) # b /\ Spend
        /\ flags' = IF b THEN flags \cup {f} ELSE flags \ {f}
        /\ explode_global_conf(flags')
        /\ flapping' = IF f = "flap_detection" /\ ~b THEN {} ELSE flapping
        /\ UNCHANGED <<on, changed, modified, forced, acked, comments, known,
                       dying, nextId, links, children>>
        /\ Tell(flapping \ flapping')

ServicesOf(H) == {s \in Services : HostOf[s] \in H}
HostsOf(S) == {HostOf[s] : s \in S}

\* Groups and the services of one host know three switches only.
GroupSwitches == {"active", "notifications", "passive"}

DISABLE_CONTACT == \E c \in Contacts, a \in ContactSwitches : Switch({c}, a, FALSE)

DISABLE_PROGRAM ==
    Program({"event_handlers", "failure_prediction", "flap_detection"}, FALSE)

DISABLE_HOSTGROUP ==
    \E a \in GroupSwitches :
        Switch(Hostgroup, a, FALSE) \/ Switch(ServicesOf(Hostgroup), a, FALSE)

DISABLE_HOST ==
    \/ \E h \in Hosts, a \in {"active", "handler", "flap", "notifications"} :
            Switch({h}, a, FALSE)
    \/ Program({"host_freshness"}, FALSE)
    \/ \E h \in Hosts, a \in {"active", "notifications"} :
            Switch(ServicesOf({h}), a, FALSE)

DISABLE_PASSIVE ==
    \/ \E i \in Items : Switch({i}, "passive", FALSE)
    \/ Program({"notifications", "performance_data"}, FALSE)

DISABLE_SERVICEGROUP ==
    \E a \in GroupSwitches :
        Switch(HostsOf(Servicegroup), a, FALSE) \/ Switch(Servicegroup, a, FALSE)

DISABLE_SVC ==
    \/ \E s \in Services, a \in {"flap", "active", "handler", "notifications"} :
            Switch({s}, a, FALSE)
    \/ Program({"service_freshness"}, FALSE)

ENABLE_CONTACT == \E c \in Contacts, a \in ContactSwitches : Switch({c}, a, TRUE)

ENABLE_PROGRAM ==
    Program({"event_handlers", "failure_prediction", "flap_detection"}, TRUE)

ENABLE_HOSTGROUP ==
    \E a \in GroupSwitches :
        Switch(Hostgroup, a, TRUE) \/ Switch(ServicesOf(Hostgroup), a, TRUE)

ENABLE_HOST ==
    \/ \E h \in Hosts, a \in {"active", "handler", "flap", "notifications"} :
            Switch({h}, a, TRUE)
    \/ Program({"host_freshness"}, TRUE)
    \/ \E h \in Hosts, a \in {"active", "notifications"} :
            Switch(ServicesOf({h}), a, TRUE)

ENABLE_PASSIVE ==
    \/ \E i \in Items : Switch({i}, "passive", TRUE)
    \/ Program({"notifications", "performance_data"}, TRUE)

ENABLE_SERVICEGROUP ==
    \E a \in GroupSwitches :
        Switch(HostsOf(Servicegroup), a, TRUE) \/ Switch(Servicegroup, a, TRUE)

ENABLE_SVC ==
    \/ \E s \in Services, a \in {"flap", "active", "handler", "notifications"} :
            Switch({s}, a, TRUE)
    \/ Program({"service_freshness"}, TRUE)

\* The flags that START_ and STOP_ commands change.
Executing == {"accept_passive_host", "accept_passive_service", "execute_host",
              "execute_service", "obsess_over_hosts", "obsess_over_services"}

START == Program(Executing, TRUE) \/ \E i \in Items : Switch({i}, "obsess", TRUE)

STOP == Program(Executing, FALSE) \/ \E i \in Items : Switch({i}, "obsess", FALSE)

-----------------------------------------------------------------------------
(* Values and masks.                                                       *)

\* The check_interval of i may be 0, may be another one: the configured one, or
\* one that a command gave and that differs from it.
MayBeZero(i) == (i \in Unscheduled) # ("check_interval" \in changed[i])
MayBeSet(i) == i \notin Unscheduled \/ "check_interval" \in changed[i]

\* An item's value becomes the configured one or another one.  No brok is sent
\* of a custom variable; the handler of check_interval raises an exception when
\* the old interval was 0, after its assignments and before the brok.
CHANGE_ITEM ==
    \E i \in Items, v \in GivenValues, differs \in BOOLEAN :
        /\ Spend
        /\ changed' = [changed EXCEPT ![i] = IF differs THEN @ \cup {v} ELSE @ \ {v}]
        /\ modified' = IF v = "first_notification_delay" THEN modified
                       ELSE [modified EXCEPT ![i] = @ \cup {v}]
        /\ UNCHANGED <<on, forced, flapping, flags, cls, acked, comments, known,
                       dying, nextId, links, children>>
        /\ \/ v = "customs" /\ TellNobody({i})
           \/ v = "check_interval" /\ MayBeZero(i) /\ TellNobody({i})
           \/ v # "customs" /\ (v = "check_interval" => MayBeSet(i)) /\ Tell({i})

\* Mutant: the handler of a notification period sends no brok.
PeriodWithoutBrok(c, period, mask) ==
    /\ mask \in changed[c] /\ Spend
    /\ changed' = [changed EXCEPT ![c] = @ \cup {period}]
    /\ UNCHANGED <<on, modified, forced, flapping, flags, cls, acked, comments, known,
                   dying, nextId, links, children>>
    /\ TellNobody({c})

\* The notification period of a contact, for hosts or for services: its bit goes
\* into a mask that must exist, else the handler raises an exception at once.
CHANGE_CONTACT_PERIOD(c, period, mask) ==
    /\ mask \in changed[c] /\ Spend
    /\ changed' = [changed EXCEPT ![c] = @ \cup {period}]
    /\ UNCHANGED <<on, modified, forced, flapping, flags, cls, acked, comments, known,
                   dying, nextId, links, children>>
    /\ Tell({c})

\* The custom variables of a contact, whose bit is in modified_attributes.
CHANGE_CUSTOM_CONTACT_VAR(c) ==
    /\ Spend
    /\ changed' = [changed EXCEPT ![c] = @ \cup {"customs"}]
    /\ modified' = [modified EXCEPT ![c] = @ \cup {"customs"}]
    /\ UNCHANGED <<on, forced, flapping, flags, cls, acked, comments, known,
                   dying, nextId, links, children>>
    /\ TellNobody({c})

\* CHANGE_CONTACT_MODHATTR and CHANGE_CONTACT_MODSATTR write the other two masks.
CHANGE_CONTACT_MASK(c, mask) ==
    /\ mask \notin changed[c] /\ Spend
    /\ changed' = [changed EXCEPT ![c] = @ \cup {mask}]
    /\ UNCHANGED <<on, modified, forced, flapping, flags, cls, acked, comments, known,
                   dying, nextId, links, children>>
    /\ TellNobody({c})

CHANGE_CONTACT ==
    \E c \in Contacts :
        \/ CHANGE_CONTACT_PERIOD(c, "host_notification_period", "modified_host_attributes")
        \/ CHANGE_CONTACT_PERIOD(c, "service_notification_period",
                                 "modified_service_attributes")
        \/ CHANGE_CUSTOM_CONTACT_VAR(c)
        \/ \E mask \in ContactMasks : CHANGE_CONTACT_MASK(c, mask)

\* CHANGE_HOST_MODATTR and CHANGE_CONTACT_MODATTR write the mask, nothing else,
\* and send no brok.
CHANGE_HOST_MODATTR ==
    \E o \in Hosts \cup Contacts, mask \in {{}, {"flap"}} :
        /\ modified[o] # mask /\ Spend
        /\ modified' = [modified EXCEPT ![o] = mask]
        /\ forced' = forced \cup {o}
        /\ UNCHANGED <<on, changed, flapping, flags, cls, acked, comments, known,
                       dying, nextId, links, children>>
        /\ TellNobody({o})

\* CHANGE_SVC_MODATTR also toggles each switch whose bit changes; the bit of
\* performance data toggles an attribute that nothing reads.
CHANGE_SVC_MODATTR ==
    \E s \in Services, mask \in {{}, {"flap"}, {"perf", "notifications"}} :
        LET toggled == {a \in Switches \ {"perf"} :
                            (a \in mask) # (a \in modified[s])}
        IN  /\ modified[s] # mask /\ Spend
            /\ on' = [on EXCEPT ![s] = (@ \ toggled) \cup (toggled \ @)]
            /\ modified' = [modified EXCEPT ![s] = mask]
            /\ forced' = forced \cup {s}
            /\ UNCHANGED <<changed, flapping, flags, cls, acked, comments, known,
                           dying, nextId, links, children>>
            /\ Tell({s})

-----------------------------------------------------------------------------
(* Comments and acknowledgements.                                          *)

NewComment(i, ack, persistent) ==
    /\ nextId <= MaxComments
    /\ comments' = [comments EXCEPT ![i] =
                       Append(@, [id |-> nextId, ack |-> ack, persistent |-> persistent])]
    /\ nextId' = nextId + 1

\* The scheduler knows the comment of a user at once.
ADD_COMMENT ==
    \E i \in Items, persistent \in BOOLEAN :
        /\ Spend /\ NewComment(i, FALSE, persistent)
        /\ known' = known \cup {nextId}
        /\ UNCHANGED <<on, changed, modified, forced, flapping, flags, cls, acked,
                       dying, links, children>>
        /\ Tell({i})

\* An acknowledgement of an item in a problem (all are) replaces the one before;
\* its comment is given to the item only.
ACKNOWLEDGE_PROBLEM ==
    \E i \in Items, persistent \in BOOLEAN :
        /\ Spend /\ NewComment(i, TRUE, persistent)
        /\ acked' = acked \cup {i}
        /\ UNCHANGED <<on, changed, modified, forced, flapping, flags, cls, known,
                       dying, links, children>>
        /\ Tell({i})

AckComment(c) == c.ack /\ ~c.persistent

\* A loop over a list from which its own body removes the current element: the
\* element after a removed one is never looked at.
LoopStep(a) ==
    IF a.i > Len(a.rest) THEN a
    ELSE IF AckComment(a.rest[a.i]) THEN [i |-> a.i + 1, rest |-> RemoveAt(a.rest, a.i)]
    ELSE [a EXCEPT !.i = @ + 1]

LoopRemoves(s) ==
    LET loop[k \in 0..Len(s)] ==
          IF k = 0 THEN [i |-> 1, rest |-> s] ELSE LoopStep(loop[k - 1])
    IN loop[Len(s)].rest

\* By a command, by the end of the problem or when the acknowledgement expires.
unacknowledge_problem(i) ==
    LET rest == LoopRemoves(comments[i])
    IN  /\ i \in acked
        /\ acked' = acked \ {i}
        /\ comments' = [comments EXCEPT ![i] = rest]
        /\ dying' = dying \cup {c.id : c \in ToSet(comments[i]) \ ToSet(rest)}
        /\ UNCHANGED <<on, changed, modified, forced, flapping, flags, cls, known,
                       nextId, links, children>>
        /\ Tell({i})

REMOVE_ACKNOWLEDGEMENT == Spend /\ \E i \in Items : unacknowledge_problem(i)

\* Marks the comments among C that the scheduler knows, without a brok.
DeleteComments(C) ==
    /\ ~(C \cap known \subseteq dying) /\ Spend
    /\ dying' = dying \cup (C \cap known)
    /\ UNCHANGED <<on, changed, modified, forced, flapping, flags, cls, acked,
                   comments, known, nextId, links, children>>
    /\ TellNobody({i \in Items : Ids(i) \cap dying' # Ids(i) \cap dying})

DEL_COMMENT == \E c \in 1..MaxComments : DeleteComments({c})

DEL_ALL_COMMENTS == \E i \in Items : DeleteComments(Ids(i))

Buried(s, D) == Filter(s, {c \in Comment : c.id \notin D})

\* update_downtimes_and_comments of the scheduler's turn: learns the comments
\* of the items, then removes the marked ones from both places.
update_comments ==
    LET known1 == known \cup UNION {Ids(i) : i \in Items}
    IN  /\ known1 # known \/ dying \cap known1 # {}
        /\ comments' = [i \in Items |-> Buried(comments[i], dying)]
        /\ known' = known1 \ dying
        /\ UNCHANGED <<on, changed, modified, forced, flapping, flags, cls, acked,
                       dying, nextId, links, children, left>>
        /\ Tell({i \in Items : Ids(i) \cap dying # {}})

-----------------------------------------------------------------------------
(* Links between hosts.                                                    *)

ADD_SIMPLE_HOST_DEPENDENCY ==
    \E son, father \in Hosts :
        /\ <<son, father>> \notin links /\ Spend
        /\ links' = links \cup {<<son, father>>}
        /\ children' = children \cup {<<son, father>>}
        /\ UNCHANGED <<on, changed, modified, forced, flapping, flags, cls, acked,
                       comments, known, dying, nextId>>
        /\ Tell({son, father})

DEL_HOST_DEPENDENCY ==
    \E p \in links :
        /\ Spend
        /\ links' = links \ {p}
        /\ children' = children \ {p}
        /\ UNCHANGED <<on, changed, modified, forced, flapping, flags, cls, acked,
                       comments, known, dying, nextId>>
        /\ Tell({p[1], p[2]})

-----------------------------------------------------------------------------
(* The scheduler's own steps.                                              *)

\* A check result makes the item start or stop flapping, while its detection is
\* on for the item and for its class (what the history says is left open).
add_flapping_change ==
    \E i \in Items :
        /\ "flap" \in on[i] /\ "flap_detection" \in cls /\ Spend
        /\ flapping' = (flapping \ {i}) \cup ({i} \ flapping)
        /\ UNCHANGED <<on, changed, modified, forced, flags, cls, acked, comments,
                       known, dying, nextId, links, children>>
        /\ Tell({i})

\* The switches whose property says retention; a host's event handler and the
\* freshness checks are not among them.
RetainedSwitches(i) ==
    {"notifications", "active", "passive", "flap", "obsess", "perf"}
        \cup IF i \in Services THEN {"handler"} ELSE {}

\* Mutant: of a service the switches whose bit is not set are saved.
SavedInverted(i) ==
    IF i \in Hosts THEN RetainedSwitches(i)
    ELSE {a \in RetainedSwitches(i) : a \notin modified[i]}

\* What get_retention_data saves of an item: everything of a host; of a service
\* with modified attributes the switches whose bit is set, and perf data, whose
\* name is not in DICT_MODATTR.
Saved(i) ==
    IF i \in Hosts THEN RetainedSwitches(i)
    ELSE {a \in RetainedSwitches(i) :
            modified[i] # {} /\ (a = "perf" \/ a \in modified[i])}

\* The scheduler saves its retention and loads it again with the configuration,
\* in the same process or in a new one: comments, acknowledgements, masks and
\* is_flapping come back, values, flags, links and contacts do not.
Reload ==
    /\ Spend
    /\ on' = [o \in Owners |->
                IF o \in Contacts THEN ConfOn[o]
                ELSE (on[o] \cap Saved(o)) \cup (ConfOn[o] \ Saved(o))]
    /\ changed' = [o \in Owners |-> {}]
    /\ modified' = [o \in Owners |-> IF o \in Contacts THEN {} ELSE modified[o]]
    /\ flags' = ConfFlags /\ explode_global_conf(ConfFlags)
    /\ known' = UNION {Ids(i) : i \in Items}
    /\ dying' = dying \cap known'
    /\ \E new \in BOOLEAN :
         nextId' = IF new THEN 1 + CHOOSE m \in known' \cup {0} :
                                     \A n \in known' : n <= m
                   ELSE nextId
    /\ links' \in {{}, {p \in Hosts \X Hosts : p[1] # p[2] /\ p[2] \in Hostgroup
                                                /\ p[1] \notin Hostgroup}}
    /\ children' = links'
    /\ UNCHANGED <<forced, flapping, acked, comments>>
    /\ Tell(Owners)

Next ==
    \/ DISABLE_CONTACT \/ DISABLE_PROGRAM \/ DISABLE_HOSTGROUP \/ DISABLE_HOST
    \/ DISABLE_PASSIVE \/ DISABLE_SERVICEGROUP \/ DISABLE_SVC
    \/ ENABLE_CONTACT \/ ENABLE_PROGRAM \/ ENABLE_HOSTGROUP \/ ENABLE_HOST
    \/ ENABLE_PASSIVE \/ ENABLE_SERVICEGROUP \/ ENABLE_SVC
    \/ START \/ STOP
    \/ CHANGE_ITEM \/ CHANGE_CONTACT \/ CHANGE_HOST_MODATTR \/ CHANGE_SVC_MODATTR
    \/ ADD_COMMENT \/ ACKNOWLEDGE_PROBLEM \/ REMOVE_ACKNOWLEDGEMENT
    \/ DEL_COMMENT \/ DEL_ALL_COMMENTS \/ update_comments
    \/ ADD_SIMPLE_HOST_DEPENDENCY \/ DEL_HOST_DEPENDENCY
    \/ add_flapping_change \/ Reload

\* The turn of the scheduler that looks at comments comes every second.
Spec == Init /\ [][Next]_vars /\ WF_vars(update_comments)

-----------------------------------------------------------------------------
(* Properties.                                                             *)

\* Every variable stays in its domain.
TypeOK ==
    /\ on \in [Owners -> SUBSET (Switches \cup ContactSwitches)]
    /\ changed \in [Owners -> SUBSET (Values \cup ContactValues)]
    /\ modified \in [Owners -> SUBSET (Switches \cup Values)]
    /\ forced \subseteq Owners /\ flapping \subseteq Items
    /\ flags \subseteq Flags /\ cls \subseteq Flags /\ acked \subseteq Items
    /\ comments \in [Items -> Seq(Comment)]
    /\ known \subseteq 1..MaxComments /\ dying \subseteq 1..MaxComments
    /\ nextId \in 1..MaxComments + 1
    /\ links \subseteq Hosts \X Hosts /\ children \subseteq Hosts \X Hosts
    /\ silent \subseteq Owners /\ left \in 0..MaxCommands

\* The values that a command may change without a brok.
SilentValues == {"customs", "check_interval"}

\* What commands and the scheduler never change without a brok.
Announced(status) ==
    <<status.on, status.values \ SilentValues, status.flapping, status.acked,
      status.comments, status.parents>>

\* What the broker was told last of an item or a contact is what its status brok
\* would say now, except after the commands that send none (a custom variable, a
\* mask, the deletion of a comment until the scheduler's turn, an interval that was
\* 0): and then all but the masks, the custom variables, that interval and the marks
\* on comments is still what the broker was told.
BrokTells ==
    \A o \in Owners :
        /\ o \notin silent => told[o] = Status(o)
        /\ Announced(told[o]) = Announced(Status(o))

\* What a command changed is marked in modified_attributes, which is how a user
\* interface and the retention of services find it, unless the mask was written.
ModifiedTells ==
    \A i \in Items \ forced :
        /\ \A a \in Switches :
                (a \in on[i]) # (a \in ConfOn[i]) => a \in modified[i]
        /\ changed[i] \ {"first_notification_delay"} \subseteq modified[i]

\* An item that is flapping, and so kept silent, has a way to stop flapping: its
\* detection and that of the classes is on (when the configuration turns the
\* latter on), unless its mask was written.
FlappingIsDetected ==
    \A i \in flapping \ forced :
        "flap" \in on[i] /\ ("flap_detection" \in ConfFlags => "flap_detection" \in cls)

\* Commands that name a comment find the comment they mean: no two comments
\* share an id, and the scheduler's dictionary holds only comments of an item
\* and comments that its next turn will forget.
CommentIdsTell ==
    /\ \A i, j \in Items : \A m \in DOMAIN comments[i], n \in DOMAIN comments[j] :
            comments[i][m].id = comments[j][n].id => i = j /\ m = n
    /\ known \subseteq dying \cup UNION {Ids(i) : i \in Items}

\* What a command switched off or on stays so over a reload, if its property is
\* one the retention keeps and the mask was not written.
SurvivesReload ==
    [][Reload => \A i \in Items \ forced :
                    on'[i] \cap RetainedSwitches(i) = on[i] \cap RetainedSwitches(i)]_vars

\* A comment that was marked for deletion leaves its item.
MarkedIsDeleted ==
    \A c \in 1..MaxComments :
        [](c \in dying => <>(\A i \in Items : c \notin Ids(i)))

\* A step takes a comment from its item only when it is marked for deletion, in the
\* same step (an acknowledgement that ends) or before it (the scheduler's turn).  A
\* reload may forget comments that are not persistent, as comment.py says of a
\* restart; the code forgets none, so nothing is asked of them there.
OnlyMarkedLeave ==
    [][\A i \in Items : \A k \in DOMAIN comments[i] :
         \/ comments[i][k].id \in Ids(i)' \cup dying'
         \/ Reload /\ ~comments[i][k].persistent]_vars

\* What commands did is told truly to those who ask later: the broker, the masks of
\* what was modified, the flapping, and the ids of comments.
CommandsTell ==
    TypeOK /\ BrokTells /\ ModifiedTells /\ FlappingIsDetected /\ CommentIdsTell

\* What commands did lasts, over a reload, and of the comments what they marked
\* goes, and nothing else.
CommandsLast == SurvivesReload /\ MarkedIsDeleted /\ OnlyMarkedLeave
=============================================================================
