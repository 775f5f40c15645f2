--------------------------- MODULE CommandsProofs ---------------------------
(***************************************************************************)
(* Proofs about Commands: what commands did is told truly to those who ask *)
(* later, for any hosts, services, contacts and any number of commands and *)
(* comments; and a reload keeps it.                                        *)
(***************************************************************************)
EXTENDS Commands, ListProofs, TLAPS

-----------------------------------------------------------------------------
(* The lists of comments *)

LEMMA RemoveAtIs ==
    ASSUME NEW S, NEW s \in Seq(S), NEW i \in 1..Len(s)
    PROVE  /\ RemoveAt(s, i) \in Seq(S) /\ Len(RemoveAt(s, i)) = Len(s) - 1
           /\ \A m \in 1..(Len(s) - 1) :
                RemoveAt(s, i)[m] = IF m < i THEN s[m] ELSE s[m + 1]
<1> DEFINE p == SubSeq(s, 1, i - 1)
           q == SubSeq(s, i + 1, Len(s))
<1>1. Len(s) \in Nat /\ i \in Nat /\ 1 <= i /\ i <= Len(s)
  OBVIOUS
<1>2. /\ p \in Seq(S) /\ Len(p) = i - 1 /\ \A m \in 1..(i - 1) : p[m] = s[m]
  BY <1>1
<1>3. /\ q \in Seq(S) /\ Len(q) = Len(s) - i
      /\ \A m \in 1..(Len(s) - i) : q[m] = s[m + i]
  BY <1>1
<1>4. RemoveAt(s, i) = p \o q
  BY DEF RemoveAt
<1> HIDE DEF p, q
<1>5. /\ p \o q \in Seq(S) /\ Len(p \o q) = Len(s) - 1
      /\ \A m \in 1..(Len(s) - 1) :
           (p \o q)[m] = IF m <= i - 1 THEN p[m] ELSE q[m - (i - 1)]
  BY <1>1, <1>2, <1>3
<1>6. ASSUME NEW m \in 1..(Len(s) - 1)
      PROVE  (p \o q)[m] = IF m < i THEN s[m] ELSE s[m + 1]
  <2>1. CASE m < i
    <3>1. m \in 1..(i - 1) /\ m <= i - 1
      BY <1>1, <2>1
    <3> QED
      BY <1>2, <1>5, <2>1, <3>1
  <2>2. CASE ~(m < i)
    <3>1. m - (i - 1) \in 1..(Len(s) - i) /\ ~(m <= i - 1) /\ m - (i - 1) + i = m + 1
      BY <1>1, <2>2
    <3> QED
      BY <1>3, <1>5, <2>2, <3>1
  <2> QED
    BY <2>1, <2>2
<1> QED
  BY <1>4, <1>5, <1>6

\* r is a list of comments of s, each once.
Picked(r, s) ==
    /\ r \in Seq(Comment) /\ OneToOne(r)
    /\ \A m \in 1..Len(r) : \E j \in 1..Len(s) : r[m] = s[j]

LEMMA PickedRemoveAt ==
    ASSUME NEW s, NEW r, Picked(r, s), NEW i \in 1..Len(r)
    PROVE  Picked(RemoveAt(r, i), s)
<1> DEFINE t == RemoveAt(r, i)
           n == Len(r)
           at(m) == IF m < i THEN m ELSE m + 1
<1>1. r \in Seq(Comment) /\ n \in Nat /\ i \in 1..n
  BY DEF Picked
<1>2. /\ t \in Seq(Comment) /\ Len(t) = n - 1
      /\ \A m \in 1..(n - 1) : t[m] = IF m < i THEN r[m] ELSE r[m + 1]
  <2> HIDE DEF t, n
  <2> QED
    BY <1>1, RemoveAtIs DEF t, n
<1> HIDE DEF t, n
<1>3. \A m \in 1..(n - 1) : at(m) \in 1..n /\ t[m] = r[at(m)]
  BY <1>1, <1>2
<1>4. \A m, k \in 1..(n - 1) : at(m) = at(k) => m = k
  BY <1>1
<1> HIDE DEF at
<1>5. OneToOne(t)
  BY <1>2, <1>3, <1>4 DEF OneToOne, Picked, n
<1>6. \A m \in 1..Len(t) : \E j \in 1..Len(s) : t[m] = s[j]
  BY <1>2, <1>3 DEF Picked, n
<1> QED
  BY <1>2, <1>5, <1>6 DEF Picked, t

Loops == [i: Nat \ {0}, rest: Seq(Comment)]

LEMMA LoopStepType ==
    ASSUME NEW a \in Loops
    PROVE  LoopStep(a) \in Loops
<1>1. a.i \in Nat \ {0} /\ a.rest \in Seq(Comment) /\ Len(a.rest) \in Nat
  BY DEF Loops
<1>2. CASE a.i > Len(a.rest)
  BY <1>2 DEF LoopStep
<1>3. CASE ~(a.i > Len(a.rest))
  <2>1. a.i \in 1..Len(a.rest)
    BY <1>1, <1>3
  <2>2. RemoveAt(a.rest, a.i) \in Seq(Comment)
    BY <1>1, <2>1, RemoveAtIs
  <2> HIDE DEF Loops
  <2>3. [i |-> a.i + 1, rest |-> RemoveAt(a.rest, a.i)] \in Loops
    BY <1>1, <2>2 DEF Loops
  <2>4. [a EXCEPT !.i = @ + 1] \in Loops
    BY <1>1 DEF Loops
  <2> QED
    BY <1>3, <2>3, <2>4 DEF LoopStep
<1> QED
  BY <1>2, <1>3

LEMMA LoopStepPicks ==
    ASSUME NEW s, NEW a \in Loops, Picked(a.rest, s)
    PROVE  Picked(LoopStep(a).rest, s)
<1>1. a.i \in Nat \ {0} /\ a.rest \in Seq(Comment) /\ Len(a.rest) \in Nat
  BY DEF Loops
<1>2. CASE a.i > Len(a.rest)
  BY <1>2 DEF LoopStep
<1>3. CASE ~(a.i > Len(a.rest)) /\ AckComment(a.rest[a.i])
  <2>1. a.i \in 1..Len(a.rest)
    BY <1>1, <1>3
  <2>2. Picked(RemoveAt(a.rest, a.i), s)
    BY <2>1, PickedRemoveAt
  <2>3. LoopStep(a).rest = RemoveAt(a.rest, a.i)
    BY <1>3 DEF LoopStep
  <2> QED
    BY <2>2, <2>3
<1>4. CASE ~(a.i > Len(a.rest)) /\ ~AckComment(a.rest[a.i])
  <2>1. LoopStep(a) = [a EXCEPT !.i = @ + 1]
    BY <1>4 DEF LoopStep
  <2>2. LoopStep(a).rest = a.rest
    BY <2>1 DEF Loops
  <2> QED
    BY <2>2
<1> QED
  BY <1>2, <1>3, <1>4

LEMMA LoopRemovesPicks ==
    ASSUME NEW s \in Seq(Comment), OneToOne(s)
    PROVE  Picked(LoopRemoves(s), s)
<1> DEFINE n == Len(s)
           a == [i |-> 1, rest |-> s]
           G == [x \in Loops \X (1..n) |-> LoopStep(x[1])]
           Rec(g) == [k \in 0..n |-> IF k = 0 THEN a ELSE LoopStep(g[k - 1])]
           F == CHOOSE g : g = Rec(g)
<1>1. n \in Nat /\ a \in Loops
  BY DEF Loops
<1>2. G \in Steps(Loops, n)
  <2>1. \A x \in Loops \X (1..n) : LoopStep(x[1]) \in Loops
    BY LoopStepType
  <2> QED
    BY <2>1 DEF Steps
<1>3. \A y \in Loops, i \in 1..n : G[<<y, i>>] = LoopStep(y)
  OBVIOUS
<1>4. LoopRemoves(s) = F[n].rest
  BY DEF LoopRemoves
<1>5. Picked(a.rest, s)
  BY DEF Picked
<1> HIDE DEF G, n, F, a
<1>6. PICK f \in [0..n -> Loops] : Iterates(f, n, a, G)
  BY <1>1, <1>2, Iteration
<1>7. f = Rec(f)
  <2>1. \A i \in 1..n : f[i - 1] \in Loops /\ f[i] = G[<<f[i - 1], i>>]
    BY <1>1, <1>6 DEF Iterates
  <2>2. \A i \in 1..n : f[i] = LoopStep(f[i - 1])
    BY <1>3, <2>1
  <2>3. f[0] = a
    BY <1>6 DEF Iterates
  <2>4. \A i \in 0..n : i = 0 \/ i \in 1..n
    BY <1>1
  <2>5. \A i \in 0..n : f[i] = Rec(f)[i]
    BY <2>2, <2>3, <2>4
  <2> QED
    BY <1>6, <2>5
<1> HIDE DEF Rec
<1>8. F = Rec(F)
  BY <1>7 DEF F
<1>9. F[0] = a /\ \A i \in 1..n : F[i] = LoopStep(F[i - 1])
  <2>1. \A i \in 0..n : F[i] = Rec(F)[i]
    BY <1>8
  <2> QED
    BY <1>1, <2>1 DEF Rec
<1> DEFINE P == {i \in 0..n : F[i] \in Loops /\ Picked(F[i].rest, s)}
<1>10. 0 \in P
  BY <1>1, <1>5, <1>9
<1>11. ASSUME NEW i \in 1..n, i - 1 \in P PROVE i \in P
  <2>1. F[i - 1] \in Loops /\ Picked(F[i - 1].rest, s)
    BY <1>1, <1>11
  <2>2. F[i] \in Loops /\ Picked(F[i].rest, s)
    BY <1>9, <2>1, LoopStepType, LoopStepPicks
  <2> QED
    BY <2>2
<1>12. 0..n \subseteq P
  <2> HIDE DEF P
  <2> QED
    BY <1>1, <1>10, <1>11, Induction
<1> QED
  BY <1>1, <1>4, <1>12

-----------------------------------------------------------------------------
(* The kinds of steps *)

SwitchStep ==
    \E O \in SUBSET Owners, a \in Switches \cup ContactSwitches, b \in BOOLEAN :
        /\ \/ O \subseteq Items /\ a \in Switches
           \/ O \subseteq Contacts /\ a \in ContactSwitches
        /\ Switch(O, a, b)

ProgramStep == \E F \in SUBSET Flags, b \in BOOLEAN : Program(F, b)

DeleteStep == \E C : DeleteComments(C)

ValueStep == CHANGE_ITEM \/ CHANGE_CONTACT

MaskStep == CHANGE_HOST_MODATTR \/ CHANGE_SVC_MODATTR

NewStep == ADD_COMMENT \/ ACKNOWLEDGE_PROBLEM

LinkStep == ADD_SIMPLE_HOST_DEPENDENCY \/ DEL_HOST_DEPENDENCY

\* A command about a contact that is not a switch and writes no whole mask.
ContactStep(c, v) ==
    /\ changed' = [changed EXCEPT ![c] = @ \cup {v}]
    /\ modified' \in {modified, [modified EXCEPT ![c] = @ \cup {"customs"}]}
    /\ UNCHANGED <<on, forced, flapping, flags, cls, acked, comments, known, dying,
                   nextId, links, children>>
    /\ Spend
    /\ Tell({c}) \/ (TellNobody({c}) /\ v \in ContactMasks \cup {"customs"})

LEMMA ContactSteps ==
    ASSUME CHANGE_CONTACT
    PROVE  \E c \in Contacts, v \in ContactValues : ContactStep(c, v)
<1>1. PICK c \in Contacts :
         \/ CHANGE_CONTACT_PERIOD(c, "host_notification_period", "modified_host_attributes")
         \/ CHANGE_CONTACT_PERIOD(c, "service_notification_period",
                                  "modified_service_attributes")
         \/ CHANGE_CUSTOM_CONTACT_VAR(c)
         \/ \E mask \in ContactMasks : CHANGE_CONTACT_MASK(c, mask)
  BY Zenon DEF CHANGE_CONTACT
<1>2. ASSUME NEW period \in ContactPeriods, NEW mask, CHANGE_CONTACT_PERIOD(c, period, mask)
      PROVE  ContactStep(c, period) /\ period \in ContactValues
  BY <1>2 DEF CHANGE_CONTACT_PERIOD, ContactStep, ContactValues
<1>3. ASSUME CHANGE_CUSTOM_CONTACT_VAR(c)
      PROVE  ContactStep(c, "customs") /\ "customs" \in ContactValues
  BY <1>3 DEF CHANGE_CUSTOM_CONTACT_VAR, ContactStep, ContactValues
<1>4. ASSUME NEW mask \in ContactMasks, CHANGE_CONTACT_MASK(c, mask)
      PROVE  ContactStep(c, mask) /\ mask \in ContactValues
  BY <1>4 DEF CHANGE_CONTACT_MASK, ContactStep, ContactValues
<1>5. "host_notification_period" \in ContactPeriods /\ "service_notification_period" \in ContactPeriods
  BY DEF ContactPeriods
<1> QED
  BY <1>1, <1>2, <1>3, <1>4, <1>5

LEMMA ItemSwitch ==
    ASSUME NEW O \in SUBSET Items, NEW a \in Switches, NEW b \in BOOLEAN, Switch(O, a, b)
    PROVE  SwitchStep
<1>1. O \in SUBSET Owners /\ O \subseteq Items /\ a \in Switches \cup ContactSwitches
  BY DEF Owners
<1> QED
  BY <1>1, Zenon DEF SwitchStep

LEMMA ContactSwitch ==
    ASSUME NEW c \in Contacts, NEW a \in ContactSwitches, NEW b \in BOOLEAN, Switch({c}, a, b)
    PROVE  SwitchStep
<1>1. {c} \in SUBSET Owners /\ {c} \subseteq Contacts /\ a \in Switches \cup ContactSwitches
  BY DEF Owners
<1> QED
  BY <1>1, Zenon DEF SwitchStep

LEMMA Groups ==
    /\ Hostgroup \in SUBSET Items /\ Servicegroup \in SUBSET Items
    /\ HostsOf(Servicegroup) \in SUBSET Items
    /\ \A H : ServicesOf(H) \in SUBSET Items
    /\ \A i \in Items : {i} \in SUBSET Items
    /\ Hosts \subseteq Items /\ Services \subseteq Items
BY ConstantsAssumption DEF Items, HostsOf, ServicesOf

LEMMA SwitchNames ==
    /\ GroupSwitches \subseteq Switches
    /\ {"active", "handler", "flap", "notifications"} \subseteq Switches
    /\ {"active", "notifications"} \subseteq Switches
    /\ "passive" \in Switches /\ "obsess" \in Switches
BY DEF GroupSwitches, Switches

LEMMA FlagNames ==
    /\ {"event_handlers", "failure_prediction", "flap_detection"} \in SUBSET Flags
    /\ {"host_freshness"} \in SUBSET Flags /\ {"service_freshness"} \in SUBSET Flags
    /\ {"notifications", "performance_data"} \in SUBSET Flags
    /\ Executing \in SUBSET Flags
BY DEF Flags, Executing

\* Turns switches of items, or flags of the program, on (b) or off.
LEMMA Turns ==
    ASSUME NEW b \in BOOLEAN
    PROVE  /\ (\E a \in GroupSwitches :
                  Switch(Hostgroup, a, b) \/ Switch(ServicesOf(Hostgroup), a, b)) => SwitchStep
           /\ (\E a \in GroupSwitches :
                  Switch(HostsOf(Servicegroup), a, b) \/ Switch(Servicegroup, a, b)) => SwitchStep
           /\ (\E h \in Hosts, a \in {"active", "handler", "flap", "notifications"} :
                  Switch({h}, a, b)) => SwitchStep
           /\ (\E h \in Hosts, a \in {"active", "notifications"} :
                  Switch(ServicesOf({h}), a, b)) => SwitchStep
           /\ (\E s \in Services, a \in {"flap", "active", "handler", "notifications"} :
                  Switch({s}, a, b)) => SwitchStep
           /\ (\E i \in Items : Switch({i}, "passive", b)) => SwitchStep
           /\ (\E i \in Items : Switch({i}, "obsess", b)) => SwitchStep
           /\ (\E c \in Contacts, a \in ContactSwitches : Switch({c}, a, b)) => SwitchStep
<1>1. \A a \in {"flap", "active", "handler", "notifications"} : a \in Switches
  BY DEF Switches
<1>2. \A x \in Items, a \in Switches : Switch({x}, a, b) => SwitchStep
  BY Groups, ItemSwitch
<1>3. \A O \in SUBSET Items, a \in Switches : Switch(O, a, b) => SwitchStep
  BY ItemSwitch
<1> HIDE DEF Switches
<1>4. (\E a \in GroupSwitches :
          Switch(Hostgroup, a, b) \/ Switch(ServicesOf(Hostgroup), a, b)) => SwitchStep
  BY <1>3, Groups, SwitchNames, Zenon
<1>5. (\E a \in GroupSwitches :
          Switch(HostsOf(Servicegroup), a, b) \/ Switch(Servicegroup, a, b)) => SwitchStep
  BY <1>3, Groups, SwitchNames, Zenon
<1>6. (\E h \in Hosts, a \in {"active", "handler", "flap", "notifications"} :
          Switch({h}, a, b)) => SwitchStep
  BY <1>2, Groups, SwitchNames, Zenon
<1>7. (\E h \in Hosts, a \in {"active", "notifications"} :
          Switch(ServicesOf({h}), a, b)) => SwitchStep
  BY <1>3, Groups, SwitchNames, Zenon
<1>8. (\E s \in Services, a \in {"flap", "active", "handler", "notifications"} :
          Switch({s}, a, b)) => SwitchStep
  BY <1>1, <1>2, Groups, Zenon
<1>9. /\ (\E i \in Items : Switch({i}, "passive", b)) => SwitchStep
      /\ (\E i \in Items : Switch({i}, "obsess", b)) => SwitchStep
  BY <1>2, SwitchNames, Zenon
<1>10. (\E c \in Contacts, a \in ContactSwitches : Switch({c}, a, b)) => SwitchStep
  BY ContactSwitch
<1> QED
  BY <1>4, <1>5, <1>6, <1>7, <1>8, <1>9, <1>10

LEMMA Disables ==
    ASSUME DISABLE_CONTACT \/ DISABLE_PROGRAM \/ DISABLE_HOSTGROUP \/ DISABLE_HOST
             \/ DISABLE_PASSIVE \/ DISABLE_SERVICEGROUP \/ DISABLE_SVC \/ STOP
    PROVE  SwitchStep \/ ProgramStep
<1>1. FALSE \in BOOLEAN
  OBVIOUS
<1>2. \A F \in SUBSET Flags : Program(F, FALSE) => ProgramStep
  BY <1>1, Zenon DEF ProgramStep
<1>3. CASE DISABLE_CONTACT
  BY <1>1, <1>3, Turns, Zenon DEF DISABLE_CONTACT
<1>4. CASE DISABLE_PROGRAM
  BY <1>2, <1>4, FlagNames, Zenon DEF DISABLE_PROGRAM
<1>5. CASE DISABLE_HOSTGROUP
  BY <1>1, <1>5, Turns, Zenon DEF DISABLE_HOSTGROUP
<1>6. CASE DISABLE_HOST
  BY <1>1, <1>2, <1>6, Turns, FlagNames, Zenon DEF DISABLE_HOST
<1>7. CASE DISABLE_PASSIVE
  BY <1>1, <1>2, <1>7, Turns, FlagNames, Zenon DEF DISABLE_PASSIVE
<1>8. CASE DISABLE_SERVICEGROUP
  BY <1>1, <1>8, Turns, Zenon DEF DISABLE_SERVICEGROUP
<1>9. CASE DISABLE_SVC
  BY <1>1, <1>2, <1>9, Turns, FlagNames, Zenon DEF DISABLE_SVC
<1>10. CASE STOP
  BY <1>1, <1>2, <1>10, Turns, FlagNames, Zenon DEF STOP
<1> QED
  BY <1>3, <1>4, <1>5, <1>6, <1>7, <1>8, <1>9, <1>10

LEMMA Enables ==
    ASSUME ENABLE_CONTACT \/ ENABLE_PROGRAM \/ ENABLE_HOSTGROUP \/ ENABLE_HOST
             \/ ENABLE_PASSIVE \/ ENABLE_SERVICEGROUP \/ ENABLE_SVC \/ START
    PROVE  SwitchStep \/ ProgramStep
<1>1. TRUE \in BOOLEAN
  OBVIOUS
<1>2. \A F \in SUBSET Flags : Program(F, TRUE) => ProgramStep
  BY <1>1, Zenon DEF ProgramStep
<1>3. CASE ENABLE_CONTACT
  BY <1>1, <1>3, Turns, Zenon DEF ENABLE_CONTACT
<1>4. CASE ENABLE_PROGRAM
  BY <1>2, <1>4, FlagNames, Zenon DEF ENABLE_PROGRAM
<1>5. CASE ENABLE_HOSTGROUP
  BY <1>1, <1>5, Turns, Zenon DEF ENABLE_HOSTGROUP
<1>6. CASE ENABLE_HOST
  BY <1>1, <1>2, <1>6, Turns, FlagNames, Zenon DEF ENABLE_HOST
<1>7. CASE ENABLE_PASSIVE
  BY <1>1, <1>2, <1>7, Turns, FlagNames, Zenon DEF ENABLE_PASSIVE
<1>8. CASE ENABLE_SERVICEGROUP
  BY <1>1, <1>8, Turns, Zenon DEF ENABLE_SERVICEGROUP
<1>9. CASE ENABLE_SVC
  BY <1>1, <1>2, <1>9, Turns, FlagNames, Zenon DEF ENABLE_SVC
<1>10. CASE START
  BY <1>1, <1>2, <1>10, Turns, FlagNames, Zenon DEF START
<1> QED
  BY <1>3, <1>4, <1>5, <1>6, <1>7, <1>8, <1>9, <1>10

\* Every command is a step of one of these kinds.
LEMMA Kinds ==
    ASSUME Next
    PROVE  \/ SwitchStep \/ ProgramStep \/ ValueStep \/ MaskStep \/ NewStep
           \/ REMOVE_ACKNOWLEDGEMENT \/ DeleteStep \/ update_comments \/ LinkStep
           \/ add_flapping_change \/ Reload
<1>1. DEL_COMMENT \/ DEL_ALL_COMMENTS => DeleteStep
  BY Zenon DEF DEL_COMMENT, DEL_ALL_COMMENTS, DeleteStep
<1> QED
  BY <1>1, Disables, Enables, Zenon DEF Next, ValueStep, MaskStep, NewStep, LinkStep

-----------------------------------------------------------------------------
(* What the broker is told *)

\* A step that changes nothing of what a status brok says of o.
SameStatus(o) ==
    /\ on'[o] = on[o] /\ modified'[o] = modified[o] /\ changed'[o] = changed[o]
    /\ (o \in flapping') = (o \in flapping)
    /\ (o \in acked') = (o \in acked)
    /\ o \in Items => Ids(o)' = Ids(o) /\ Ids(o) \cap dying' = Ids(o) \cap dying
    /\ {p \in children' : p[1] = o} = {p \in children : p[1] = o}

\* A step that changes at most what may change without a brok.
SameAnnounced(o) ==
    /\ on'[o] = on[o] /\ changed'[o] \ SilentValues = changed[o] \ SilentValues
    /\ (o \in flapping') = (o \in flapping)
    /\ (o \in acked') = (o \in acked)
    /\ o \in Items => Ids(o)' = Ids(o)
    /\ {p \in children' : p[1] = o} = {p \in children : p[1] = o}

\* What is not in the status brok of o.
Hidden(o) == IF o \in Contacts THEN ContactMasks \cup {"customs"} ELSE {}

LEMMA StatusIs ==
    ASSUME NEW o, SameStatus(o)
    PROVE  Status(o)' = Status(o)
<1>1. /\ on'[o] = on[o] /\ modified'[o] = modified[o] /\ changed'[o] = changed[o]
      /\ (o \in flapping') = (o \in flapping)
      /\ (o \in acked') = (o \in acked)
      /\ {p \in children' : p[1] = o} = {p \in children : p[1] = o}
  BY DEF SameStatus
<1>2. (IF o \in Items THEN Ids(o)' ELSE {}) = (IF o \in Items THEN Ids(o) ELSE {})
  BY DEF SameStatus
<1>3. (IF o \in Items THEN Ids(o)' \cap dying' ELSE {})
        = (IF o \in Items THEN Ids(o) \cap dying ELSE {})
  BY DEF SameStatus
<1> QED
  BY <1>1, <1>2, <1>3, Zenon DEF Status

LEMMA AnnouncedIs ==
    ASSUME NEW o, SameAnnounced(o)
    PROVE  Announced(Status(o)') = Announced(Status(o))
<1>1. /\ on'[o] = on[o] /\ changed'[o] \ SilentValues = changed[o] \ SilentValues
      /\ (o \in flapping') = (o \in flapping)
      /\ (o \in acked') = (o \in acked)
      /\ {p \in children' : p[1] = o} = {p \in children : p[1] = o}
  BY DEF SameAnnounced
<1>2. (IF o \in Items THEN Ids(o)' ELSE {}) = (IF o \in Items THEN Ids(o) ELSE {})
  BY DEF SameAnnounced
<1>3. \A H : (changed'[o] \ H) \ SilentValues = (changed[o] \ H) \ SilentValues
  <2> HIDE DEF SilentValues
  <2> QED
    BY <1>1
<1>4. (changed'[o] \ Hidden(o)) \ SilentValues = (changed[o] \ Hidden(o)) \ SilentValues
  BY <1>3
<1>5. Announced(Status(o)) =
        <<on[o], (changed[o] \ Hidden(o)) \ SilentValues, o \in flapping, o \in acked,
          IF o \in Items THEN Ids(o) ELSE {}, {p \in children : p[1] = o}>>
  BY DEF Announced, Status, Hidden
<1>6. Announced(Status(o)') =
        <<on'[o], (changed'[o] \ Hidden(o)) \ SilentValues, o \in flapping', o \in acked',
          IF o \in Items THEN Ids(o)' ELSE {}, {p \in children' : p[1] = o}>>
  BY DEF Announced, Status, Hidden
<1> QED
  BY ONLY <1>1, <1>2, <1>4, <1>5, <1>6

\* A step that tells those of whom it changes something leaves the broker right.
LEMMA Told ==
    ASSUME BrokTells, NEW O \in SUBSET Owners, Tell(O), \A o \in Owners \ O : SameStatus(o)
    PROVE  BrokTells'
<1>1. \A o \in Owners : told'[o] = IF o \in O THEN Status(o)' ELSE told[o]
  BY DEF Tell
<1>2. \A o \in Owners \ O : Status(o)' = Status(o) /\ (o \in silent' <=> o \in silent)
  BY StatusIs DEF Tell
<1>3. \A o \in Owners : /\ o \notin silent => told[o] = Status(o)
                        /\ Announced(told[o]) = Announced(Status(o))
  BY DEF BrokTells
<1>4. \A o \in Owners : /\ o \notin silent' => told'[o] = Status(o)'
                        /\ Announced(told'[o]) = Announced(Status(o)')
  BY <1>1, <1>2, <1>3
<1> QED
  BY <1>4 DEF BrokTells, Announced

LEMMA ToldNobody ==
    ASSUME BrokTells, NEW O, TellNobody(O), \A o \in Owners \ O : SameStatus(o),
           \A o \in Owners \cap O : Announced(Status(o)') = Announced(Status(o))
    PROVE  BrokTells'
<1>1. \A o \in Owners : told'[o] = told[o]
  BY DEF TellNobody
<1>2. \A o \in Owners \ O : Status(o)' = Status(o) /\ (o \in silent' <=> o \in silent)
  BY StatusIs DEF TellNobody
<1>3. \A o \in Owners \cap O :
        Announced(Status(o)') = Announced(Status(o)) /\ o \in silent'
  BY DEF TellNobody
<1>4. \A o \in Owners : /\ o \notin silent => told[o] = Status(o)
                        /\ Announced(told[o]) = Announced(Status(o))
  BY DEF BrokTells
<1>5. \A o \in Owners : /\ o \notin silent' => told'[o] = Status(o)'
                        /\ Announced(told'[o]) = Announced(Status(o)')
  BY <1>1, <1>2, <1>3, <1>4
<1> QED
  BY <1>5 DEF BrokTells, Announced

SameComments == UNCHANGED <<comments, known, dying, nextId>>

LEMMA SameIds ==
    ASSUME UNCHANGED comments
    PROVE  \A o : Ids(o)' = Ids(o)
BY DEF Ids

\* The masks of a contact and its custom variables are not in its status brok.
LEMMA ContactAnnounced ==
    ASSUME NEW c \in Contacts, NEW v \in ContactMasks \cup {"customs"}, ContactStep(c, v),
           changed'[c] = changed[c] \cup {v}
    PROVE  Announced(Status(c)') = Announced(Status(c))
<1>1. UNCHANGED <<on, flapping, acked, comments, children>> /\ Ids(c)' = Ids(c)
  BY SameIds DEF ContactStep
<1>2. Hidden(c) = ContactMasks \cup {"customs"}
  BY DEF Hidden
<1>3. (changed'[c] \ Hidden(c)) \ SilentValues = (changed[c] \ Hidden(c)) \ SilentValues
  <2> HIDE DEF SilentValues, Hidden
  <2> QED
    BY <1>2
<1>4. Announced(Status(c)) =
        <<on[c], (changed[c] \ Hidden(c)) \ SilentValues, c \in flapping, c \in acked,
          IF c \in Items THEN Ids(c) ELSE {}, {p \in children : p[1] = c}>>
  BY DEF Announced, Status, Hidden
<1>5. Announced(Status(c)') =
        <<on'[c], (changed'[c] \ Hidden(c)) \ SilentValues, c \in flapping', c \in acked',
          IF c \in Items THEN Ids(c)' ELSE {}, {p \in children' : p[1] = c}>>
  BY DEF Announced, Status, Hidden
<1> QED
  BY <1>1, <1>3, <1>4, <1>5, Zenon

LEMMA SwitchTells ==
    ASSUME TypeOK, BrokTells, SwitchStep
    PROVE  BrokTells'
<1>1. PICK O \in SUBSET Owners, a \in Switches \cup ContactSwitches, b \in BOOLEAN :
         Switch(O, a, b)
  BY Zenon DEF SwitchStep
<1> DEFINE C == {o \in O : (a \in on[o]) # b}
<1>2. /\ on' = [o \in Owners |-> IF o \notin C THEN on[o]
                                 ELSE IF b THEN on[o] \cup {a} ELSE on[o] \ {a}]
      /\ modified' = [o \in Owners |-> IF o \in C THEN modified[o] \cup {Bit(a)}
                                       ELSE modified[o]]
      /\ flapping' = IF a = "flap" /\ ~b THEN flapping \ C ELSE flapping
      /\ UNCHANGED <<changed, acked, comments, dying, children>>
      /\ Tell(C)
  BY <1>1 DEF Switch
<1>3. C \in SUBSET Owners
  OBVIOUS
<1> HIDE DEF C
<1>4. ASSUME NEW o \in Owners \ C PROVE SameStatus(o)
  <2>1. on'[o] = on[o] /\ modified'[o] = modified[o]
    BY <1>2
  <2>2. (o \in flapping') = (o \in flapping)
    BY <1>2
  <2>3. Ids(o)' = Ids(o)
    BY <1>2, SameIds
  <2> QED
    BY <1>2, <2>1, <2>2, <2>3 DEF SameStatus
<1> QED
  BY <1>2, <1>3, <1>4, Told

LEMMA ProgramTells ==
    ASSUME TypeOK, BrokTells, ProgramStep
    PROVE  BrokTells'
<1>1. PICK F \in SUBSET Flags, b \in BOOLEAN : Program(F, b)
  BY Zenon DEF ProgramStep
<1>2. /\ UNCHANGED <<on, changed, modified, acked, comments, dying, children>>
      /\ flapping' \in {{}, flapping} /\ Tell(flapping \ flapping')
  BY <1>1 DEF Program
<1>3. flapping \ flapping' \in SUBSET Owners
  BY DEF TypeOK, Owners
<1>4. ASSUME NEW o \in Owners \ (flapping \ flapping') PROVE SameStatus(o)
  <2>1. (o \in flapping') = (o \in flapping)
    BY <1>2
  <2>2. Ids(o)' = Ids(o)
    BY <1>2, SameIds
  <2> QED
    BY <1>2, <2>1, <2>2 DEF SameStatus
<1> QED
  BY <1>2, <1>3, <1>4, Told

\* A command that changes a value of o, or its mask, and tells the broker or, when
\* the broker need not know, nobody.
OfOne(o) ==
    /\ UNCHANGED <<on, flapping, acked, comments, dying, children>>
    /\ \A x \in Owners \ {o} : changed'[x] = changed[x] /\ modified'[x] = modified[x]
    /\ \/ Tell({o})
       \/ TellNobody({o}) /\ changed'[o] \ SilentValues = changed[o] \ SilentValues

LEMMA OfOneTells ==
    ASSUME BrokTells, NEW o \in Owners, OfOne(o)
    PROVE  BrokTells'
<1>1. \A x : Ids(x)' = Ids(x)
  BY SameIds DEF OfOne
<1>2. \A x \in Owners \ {o} : SameStatus(x)
  BY <1>1 DEF OfOne, SameStatus
<1>3. CASE Tell({o})
  BY <1>2, <1>3, Told
<1>4. CASE TellNobody({o}) /\ changed'[o] \ SilentValues = changed[o] \ SilentValues
  <2>1. SameAnnounced(o)
    BY <1>1, <1>4 DEF OfOne, SameAnnounced
  <2> QED
    BY <1>2, <1>4, <2>1, AnnouncedIs, ToldNobody
<1> QED
  BY <1>3, <1>4 DEF OfOne

LEMMA ValueTells ==
    ASSUME TypeOK, BrokTells, ValueStep
    PROVE  BrokTells'
<1>1. CASE CHANGE_ITEM
  <2>1. PICK i \in Items, v \in GivenValues, differs \in BOOLEAN :
           /\ changed' = [changed EXCEPT ![i] = IF differs THEN @ \cup {v} ELSE @ \ {v}]
           /\ modified' \in {modified, [modified EXCEPT ![i] = @ \cup {v}]}
           /\ UNCHANGED <<on, flapping, acked, comments, dying, children>>
           /\ Tell({i}) \/ (v \in SilentValues /\ TellNobody({i}))
    BY <1>1 DEF CHANGE_ITEM, SilentValues
  <2>2. i \in Owners
    BY DEF Owners
  <2>3. \A x \in Owners \ {i} : changed'[x] = changed[x] /\ modified'[x] = modified[x]
    BY <2>1 DEF TypeOK
  <2>4. v \in SilentValues => changed'[i] \ SilentValues = changed[i] \ SilentValues
    BY <2>1, <2>2 DEF TypeOK
  <2>5. OfOne(i)
    BY <2>1, <2>3, <2>4 DEF OfOne
  <2> QED
    BY <2>2, <2>5, OfOneTells
<1>2. CASE CHANGE_CONTACT
  <2>1. PICK c \in Contacts, v \in ContactValues : ContactStep(c, v)
    BY <1>2, ContactSteps
  <2>2. c \in Owners
    BY DEF Owners
  <2>3. \A x \in Owners \ {c} : changed'[x] = changed[x] /\ modified'[x] = modified[x]
    BY <2>1 DEF TypeOK, ContactStep
  <2>4. changed'[c] = changed[c] \cup {v}
    BY <2>1, <2>2 DEF TypeOK, ContactStep
  <2>5. CASE Tell({c})
    <3>1. OfOne(c)
      BY <2>1, <2>3, <2>5 DEF OfOne, ContactStep
    <3> QED
      BY <2>2, <3>1, OfOneTells
  <2>6. CASE TellNobody({c}) /\ v \in ContactMasks \cup {"customs"}
    <3>1. \A x \in Owners \ {c} : SameStatus(x)
      BY <2>1, <2>3, SameIds DEF ContactStep, SameStatus
    <3>2. Announced(Status(c)') = Announced(Status(c))
      BY <2>1, <2>4, <2>6, ContactAnnounced
    <3> QED
      BY <2>2, <2>6, <3>1, <3>2, ToldNobody
  <2> QED
    BY <2>1, <2>5, <2>6 DEF ContactStep
<1> QED
  BY <1>1, <1>2 DEF ValueStep

LEMMA MaskTells ==
    ASSUME TypeOK, BrokTells, MaskStep
    PROVE  BrokTells'
<1>1. CASE CHANGE_HOST_MODATTR
  <2>1. PICK o \in Hosts \cup Contacts, mask \in {{}, {"flap"}} :
           /\ modified' = [modified EXCEPT ![o] = mask]
           /\ UNCHANGED <<on, changed, flapping, acked, comments, dying, children>>
           /\ TellNobody({o})
    BY <1>1, Zenon DEF CHANGE_HOST_MODATTR
  <2>2. o \in Owners
    BY DEF Owners, Items
  <2>3. \A x \in Owners \ {o} : modified'[x] = modified[x]
    BY <2>1 DEF TypeOK
  <2>4. OfOne(o)
    BY <2>1, <2>3 DEF OfOne
  <2> QED
    BY <2>2, <2>4, OfOneTells
<1>2. CASE CHANGE_SVC_MODATTR
  <2>1. PICK s \in Services, mask \in {{}, {"flap"}, {"perf", "notifications"}} :
           LET toggled == {a \in Switches \ {"perf"} :
                               (a \in mask) # (a \in modified[s])}
           IN  /\ on' = [on EXCEPT ![s] = (@ \ toggled) \cup (toggled \ @)]
               /\ modified' = [modified EXCEPT ![s] = mask]
               /\ UNCHANGED <<changed, flapping, acked, comments, dying, children>>
               /\ Tell({s})
    BY <1>2 DEF CHANGE_SVC_MODATTR
  <2>2. {s} \in SUBSET Owners
    BY DEF Owners, Items
  <2>3. ASSUME NEW o \in Owners \ {s} PROVE SameStatus(o)
    <3>1. on'[o] = on[o] /\ modified'[o] = modified[o] /\ Ids(o)' = Ids(o)
      BY <2>1, SameIds DEF TypeOK
    <3> QED
      BY <2>1, <3>1 DEF SameStatus
  <2> QED
    BY <2>1, <2>2, <2>3, Told
<1> QED
  BY <1>1, <1>2 DEF MaskStep

LEMMA NewTells ==
    ASSUME TypeOK, BrokTells, NewStep
    PROVE  BrokTells'
<1>1. PICK i \in Items, ack \in BOOLEAN, persistent \in BOOLEAN :
         /\ NewComment(i, ack, persistent)
         /\ UNCHANGED <<on, changed, modified, flapping, dying, children>> /\ Tell({i})
         /\ acked' \in {acked, acked \cup {i}}
  <2>1. FALSE \in BOOLEAN /\ TRUE \in BOOLEAN
    OBVIOUS
  <2>2. CASE ADD_COMMENT
    <3>1. PICK i \in Items, persistent \in BOOLEAN :
             /\ NewComment(i, FALSE, persistent) /\ Tell({i})
             /\ UNCHANGED <<on, changed, modified, flapping, dying, children, acked>>
      BY <2>2, Zenon DEF ADD_COMMENT
    <3> QED
      BY <2>1, <3>1
  <2>3. CASE ACKNOWLEDGE_PROBLEM
    <3>1. PICK i \in Items, persistent \in BOOLEAN :
             /\ NewComment(i, TRUE, persistent) /\ Tell({i})
             /\ UNCHANGED <<on, changed, modified, flapping, dying, children>>
             /\ acked' = acked \cup {i}
      BY <2>3, Zenon DEF ACKNOWLEDGE_PROBLEM
    <3> QED
      BY <2>1, <3>1
  <2> QED
    BY <2>2, <2>3 DEF NewStep
<1>2. {i} \in SUBSET Owners
  BY DEF Owners
<1>3. ASSUME NEW o \in Owners \ {i} PROVE SameStatus(o)
  <2>1. o \in Items => comments'[o] = comments[o]
    BY <1>1 DEF NewComment, TypeOK
  <2>2. o \in Items => Ids(o)' = Ids(o)
    BY <2>1 DEF Ids
  <2>3. (o \in acked') = (o \in acked)
    BY <1>1
  <2> QED
    BY <1>1, <2>2, <2>3 DEF SameStatus
<1> QED
  BY <1>1, <1>2, <1>3, Told

LEMMA OthersTell ==
    ASSUME TypeOK, BrokTells, DeleteStep \/ LinkStep \/ add_flapping_change \/ Reload
    PROVE  BrokTells'
<1>1. CASE DeleteStep
  <2> DEFINE O == {i \in Items : Ids(i) \cap dying' # Ids(i) \cap dying}
  <2>1. /\ UNCHANGED <<on, changed, modified, flapping, acked, comments, children>>
        /\ TellNobody(O)
    BY <1>1 DEF DeleteStep, DeleteComments
  <2>2. \A o \in Owners \ O : o \in Items => Ids(o) \cap dying' = Ids(o) \cap dying
    OBVIOUS
  <2> HIDE DEF O
  <2>3. \A o \in Owners \ O : SameStatus(o)
    BY <2>1, <2>2, SameIds DEF SameStatus
  <2>4. \A o \in Owners \cap O : SameAnnounced(o)
    BY <2>1, SameIds DEF SameAnnounced
  <2> QED
    BY <2>1, <2>3, <2>4, AnnouncedIs, ToldNobody
<1>2. CASE LinkStep
  <2>1. PICK son \in Hosts, father \in Hosts :
           /\ children' \in {children \cup {<<son, father>>}, children \ {<<son, father>>}}
           /\ UNCHANGED <<on, changed, modified, flapping, acked, comments, dying>>
           /\ Tell({son, father})
    <3>1. CASE ADD_SIMPLE_HOST_DEPENDENCY
      BY <3>1 DEF ADD_SIMPLE_HOST_DEPENDENCY
    <3>2. CASE DEL_HOST_DEPENDENCY
      <4>1. PICK p \in links :
               /\ children' = children \ {p} /\ Tell({p[1], p[2]})
               /\ UNCHANGED <<on, changed, modified, flapping, acked, comments, dying>>
        BY <3>2 DEF DEL_HOST_DEPENDENCY
      <4>2. p[1] \in Hosts /\ p[2] \in Hosts /\ p = <<p[1], p[2]>>
        BY DEF TypeOK
      <4> QED
        BY <4>1, <4>2
    <3> QED
      BY <1>2, <3>1, <3>2 DEF LinkStep
  <2>2. {son, father} \in SUBSET Owners
    BY DEF Owners, Items
  <2>3. ASSUME NEW o \in Owners \ {son, father} PROVE SameStatus(o)
    <3>1. <<son, father>>[1] # o
      OBVIOUS
    <3>2. {p \in children' : p[1] = o} = {p \in children : p[1] = o}
      BY <2>1, <3>1
    <3> QED
      BY <2>1, <3>2, SameIds DEF SameStatus
  <2> QED
    BY <2>1, <2>2, <2>3, Told
<1>3. CASE add_flapping_change
  <2>1. PICK i \in Items :
           /\ flapping' = (flapping \ {i}) \cup ({i} \ flapping)
           /\ UNCHANGED <<on, changed, modified, acked, comments, dying, children>>
           /\ Tell({i})
    BY <1>3 DEF add_flapping_change
  <2>2. {i} \in SUBSET Owners
    BY DEF Owners
  <2>3. ASSUME NEW o \in Owners \ {i} PROVE SameStatus(o)
    <3>1. (o \in flapping') = (o \in flapping)
      BY <2>1
    <3> QED
      BY <2>1, <3>1, SameIds DEF SameStatus
  <2> QED
    BY <2>1, <2>2, <2>3, Told
<1>4. CASE Reload
  <2>1. Tell(Owners)
    BY <1>4 DEF Reload
  <2> QED
    BY <2>1, Told
<1> QED
  BY <1>1, <1>2, <1>3, <1>4

-----------------------------------------------------------------------------
(* Comments and their ids *)

\* No two comments of the items share an id.
Unique(c) ==
    \A i, j \in Items : \A m \in 1..Len(c[i]), n \in 1..Len(c[j]) :
        c[i][m].id = c[j][n].id => i = j /\ m = n

\* The ids given so far are below the next one.
Old(c, next) == \A i \in Items : \A m \in 1..Len(c[i]) : c[i][m].id < next

IdsIn(s) == {s[k].id : k \in 1..Len(s)}

KnownIds == known \subseteq dying \cup UNION {Ids(i) : i \in Items}

CommentsOK ==
    /\ comments \in [Items -> Seq(Comment)]
    /\ known \subseteq 1..MaxComments /\ dying \subseteq 1..MaxComments
    /\ nextId \in 1..MaxComments + 1
    /\ Unique(comments) /\ Old(comments, nextId) /\ KnownIds

LEMMA Domains ==
    ASSUME NEW c \in [Items -> Seq(Comment)]
    PROVE  \A i \in Items : /\ DOMAIN c[i] = 1..Len(c[i]) /\ Len(c[i]) \in Nat
                            /\ \A k \in 1..Len(c[i]) : c[i][k] \in Comment
OBVIOUS

LEMMA IdsAre ==
    ASSUME comments \in [Items -> Seq(Comment)]
    PROVE  \A i \in Items : Ids(i) = IdsIn(comments[i])
BY Domains DEF Ids, IdsIn

LEMMA CommentTypes ==
    ASSUME NEW c \in Comment
    PROVE  c.id \in 1..MaxComments /\ c.ack \in BOOLEAN /\ c.persistent \in BOOLEAN
BY DEF Comment

\* Lists that pick from lists with unique ids have unique ids.
LEMMA PickedUnique ==
    ASSUME NEW c \in [Items -> Seq(Comment)], Unique(c), NEW d \in [Items -> Seq(Comment)],
           \A i \in Items : Picked(d[i], c[i])
    PROVE  Unique(d)
<1> SUFFICES ASSUME NEW i \in Items, NEW j \in Items,
                    NEW m \in 1..Len(d[i]), NEW n \in 1..Len(d[j]),
                    d[i][m].id = d[j][n].id
             PROVE  i = j /\ m = n
  BY DEF Unique
<1>1. PICK k \in 1..Len(c[i]) : d[i][m] = c[i][k]
  BY DEF Picked
<1>2. PICK l \in 1..Len(c[j]) : d[j][n] = c[j][l]
  BY DEF Picked
<1>3. i = j /\ k = l
  BY <1>1, <1>2 DEF Unique
<1>4. d[i][m] = d[i][n]
  BY <1>1, <1>2, <1>3
<1> QED
  BY <1>3, <1>4 DEF Picked, OneToOne

LEMMA PickedOld ==
    ASSUME NEW c \in [Items -> Seq(Comment)], NEW next, Old(c, next),
           NEW d \in [Items -> Seq(Comment)],
           \A i \in Items : Picked(d[i], c[i])
    PROVE  Old(d, next)
BY DEF Picked, Old

LEMMA UniqueOneToOne ==
    ASSUME NEW c \in [Items -> Seq(Comment)], Unique(c), NEW i \in Items
    PROVE  OneToOne(c[i]) /\ Picked(c[i], c[i])
BY DEF Unique, OneToOne, Picked

\* A new comment has an id of its own.
LEMMA NewCommentOK ==
    ASSUME CommentsOK, NEW i \in Items, NEW ack \in BOOLEAN, NEW persistent \in BOOLEAN,
           NewComment(i, ack, persistent)
    PROVE  /\ comments' \in [Items -> Seq(Comment)] /\ nextId' \in 1..MaxComments + 1
           /\ Unique(comments') /\ Old(comments', nextId')
           /\ \A j \in Items : Ids(j) \subseteq Ids(j)'
           /\ nextId \in Ids(i)' /\ nextId \in 1..MaxComments
<1> DEFINE x == [id |-> nextId, ack |-> ack, persistent |-> persistent]
           s == comments[i]
           t == Append(s, x)
<1>1. nextId \in 1..MaxComments /\ nextId' = nextId + 1 /\ nextId' \in 1..MaxComments + 1
  BY ConstantsAssumption DEF NewComment, CommentsOK
<1>2. x \in Comment /\ x.id = nextId
  BY <1>1 DEF Comment
<1>3. /\ comments' = [comments EXCEPT ![i] = t]
      /\ comments \in [Items -> Seq(Comment)] /\ s \in Seq(Comment)
  BY DEF NewComment, CommentsOK
<1> HIDE DEF x
<1>4. /\ t \in Seq(Comment) /\ Len(s) \in Nat /\ Len(t) = Len(s) + 1 /\ t[Len(s) + 1] = x
      /\ \A k \in 1..Len(s) : t[k] = s[k] /\ s[k] \in Comment
  BY <1>2, <1>3
<1> HIDE DEF t
<1>5. /\ comments' \in [Items -> Seq(Comment)] /\ comments'[i] = t
      /\ \A j \in Items \ {i} : comments'[j] = comments[j]
  BY <1>3, <1>4
<1>6. \A k \in 1..Len(t) : k \in 1..Len(s) \/ k = Len(s) + 1
  BY <1>4
<1>7. \A j \in Items : \A k \in 1..Len(comments[j]) :
         comments[j][k].id \in Nat /\ comments[j][k].id < nextId
  <2>1. \A j \in Items : \A k \in 1..Len(comments[j]) : comments[j][k] \in Comment
    BY <1>3, Domains
  <2>2. \A j \in Items : \A k \in 1..Len(comments[j]) : comments[j][k].id \in Nat
    BY <2>1, CommentTypes
  <2> QED
    BY <2>2 DEF CommentsOK, Old
<1>8. \A j \in Items : \A k \in 1..Len(comments'[j]) :
         \/ k \in 1..Len(comments[j]) /\ comments'[j][k] = comments[j][k]
         \/ j = i /\ k = Len(s) + 1 /\ comments'[j][k] = x
  BY <1>4, <1>5, <1>6
<1>9. Unique(comments')
  <2> SUFFICES ASSUME NEW p \in Items, NEW q \in Items,
                      NEW m \in 1..Len(comments'[p]), NEW n \in 1..Len(comments'[q]),
                      comments'[p][m].id = comments'[q][n].id
               PROVE  p = q /\ m = n
    BY DEF Unique
  <2> DEFINE OldOne(j, k) == k \in 1..Len(comments[j]) /\ comments'[j][k] = comments[j][k]
             NewOne(j, k) == j = i /\ k = Len(s) + 1 /\ comments'[j][k] = x
  <2>1. OldOne(p, m) \/ NewOne(p, m)
    BY <1>8
  <2>2. OldOne(q, n) \/ NewOne(q, n)
    BY <1>8
  <2>3. CASE OldOne(p, m) /\ OldOne(q, n)
    BY <2>3 DEF CommentsOK, Unique
  <2>4. CASE OldOne(p, m) /\ NewOne(q, n)
    BY <1>1, <1>2, <1>7, <2>4
  <2>5. CASE NewOne(p, m) /\ OldOne(q, n)
    BY <1>1, <1>2, <1>7, <2>5
  <2>6. CASE NewOne(p, m) /\ NewOne(q, n)
    BY <2>6
  <2> QED
    BY <2>1, <2>2, <2>3, <2>4, <2>5, <2>6
<1>10. Old(comments', nextId')
  <2>1. \A j \in Items : \A k \in 1..Len(comments'[j]) : comments'[j][k].id < nextId + 1
    BY <1>1, <1>2, <1>7, <1>8
  <2> QED
    BY <1>1, <2>1 DEF Old
<1>11. \A j \in Items : Ids(j) = IdsIn(comments[j]) /\ Ids(j)' = IdsIn(comments'[j])
  BY <1>3, <1>5, IdsAre, Domains DEF Ids, IdsIn
<1>12. IdsIn(s) \subseteq IdsIn(t) /\ nextId \in IdsIn(t)
  <2>1. Len(s) + 1 \in 1..Len(t) /\ \A k \in 1..Len(s) : k \in 1..Len(t)
    BY <1>4
  <2> QED
    BY <1>2, <1>4, <2>1 DEF IdsIn
<1>13. \A j \in Items : Ids(j) \subseteq Ids(j)'
  BY <1>5, <1>11, <1>12
<1>14. nextId \in Ids(i)'
  BY <1>5, <1>11, <1>12
<1> QED
  BY <1>1, <1>5, <1>9, <1>10, <1>13, <1>14

LEMMA NewKeepsComments ==
    ASSUME CommentsOK, NewStep
    PROVE  CommentsOK'
<1>1. CASE ADD_COMMENT
  <2>1. PICK i \in Items, persistent \in BOOLEAN :
           /\ NewComment(i, FALSE, persistent)
           /\ known' = known \cup {nextId} /\ UNCHANGED dying
    BY <1>1, Zenon DEF ADD_COMMENT
  <2>2. FALSE \in BOOLEAN /\ TRUE \in BOOLEAN
    OBVIOUS
  <2>3. /\ comments' \in [Items -> Seq(Comment)] /\ nextId' \in 1..MaxComments + 1
        /\ Unique(comments') /\ Old(comments', nextId')
        /\ \A j \in Items : Ids(j) \subseteq Ids(j)'
        /\ nextId \in Ids(i)' /\ nextId \in 1..MaxComments
    BY <2>1, <2>2, NewCommentOK
  <2>4. known' \subseteq 1..MaxComments /\ dying' \subseteq 1..MaxComments
    BY <2>1, <2>3 DEF CommentsOK
  <2>5. KnownIds'
    BY <2>1, <2>3 DEF CommentsOK, KnownIds
  <2> QED
    BY <2>3, <2>4, <2>5 DEF CommentsOK
<1>2. CASE ACKNOWLEDGE_PROBLEM
  <2>1. PICK i \in Items, persistent \in BOOLEAN :
           NewComment(i, TRUE, persistent) /\ UNCHANGED <<known, dying>>
    BY <1>2, Zenon DEF ACKNOWLEDGE_PROBLEM
  <2>2. TRUE \in BOOLEAN
    OBVIOUS
  <2>3. /\ comments' \in [Items -> Seq(Comment)] /\ nextId' \in 1..MaxComments + 1
        /\ Unique(comments') /\ Old(comments', nextId')
        /\ \A j \in Items : Ids(j) \subseteq Ids(j)'
    BY <2>1, <2>2, NewCommentOK
  <2>4. known' \subseteq 1..MaxComments /\ dying' \subseteq 1..MaxComments
    BY <2>1 DEF CommentsOK
  <2>5. KnownIds'
    BY <2>1, <2>3 DEF CommentsOK, KnownIds
  <2> QED
    BY <2>3, <2>4, <2>5 DEF CommentsOK
<1> QED
  BY <1>1, <1>2 DEF NewStep

LEMMA UnacknowledgeLeaves ==
    ASSUME CommentsOK, REMOVE_ACKNOWLEDGEMENT
    PROVE  CommentsOK' /\ \A j \in Items : Ids(j) \subseteq Ids(j)' \cup dying'
<1>1. PICK i \in Items : unacknowledge_problem(i)
  BY DEF REMOVE_ACKNOWLEDGEMENT
<1> DEFINE s == comments[i]
           r == LoopRemoves(s)
           gone == {c.id : c \in ToSet(s) \ ToSet(r)}
<1>2. /\ comments' = [comments EXCEPT ![i] = r] /\ dying' = dying \cup gone
      /\ UNCHANGED <<known, nextId>>
  BY <1>1 DEF unacknowledge_problem
<1>3. comments \in [Items -> Seq(Comment)] /\ s \in Seq(Comment) /\ Len(s) \in Nat
  BY DEF CommentsOK
<1>4. \A j \in Items : OneToOne(comments[j]) /\ Picked(comments[j], comments[j])
  BY <1>3, UniqueOneToOne DEF CommentsOK
<1>5. Picked(r, s)
  BY <1>3, <1>4, LoopRemovesPicks
<1>6. r \in Seq(Comment)
  BY <1>5 DEF Picked
<1>7. ToSet(s) = {s[k] : k \in 1..Len(s)} /\ ToSet(r) = {r[k] : k \in 1..Len(r)}
  BY <1>3, <1>6 DEF ToSet
<1> HIDE DEF r, gone
<1>8. /\ comments' \in [Items -> Seq(Comment)] /\ comments'[i] = r
      /\ \A j \in Items \ {i} : comments'[j] = comments[j]
  BY <1>2, <1>3, <1>6
<1>9. \A j \in Items : Picked(comments'[j], comments[j])
  BY <1>4, <1>5, <1>8
<1>10. Unique(comments') /\ Old(comments', nextId')
  <2>1. Unique(comments')
    BY <1>3, <1>8, <1>9, PickedUnique DEF CommentsOK
  <2>2. Old(comments', nextId)
    BY <1>3, <1>8, <1>9, PickedOld DEF CommentsOK
  <2> QED
    BY <1>2, <2>1, <2>2
<1>11. gone \subseteq 1..MaxComments
  <2>1. \A k \in 1..Len(s) : s[k].id \in 1..MaxComments
    BY <1>3, CommentTypes
  <2> QED
    BY <1>7, <2>1 DEF gone
<1>12. IdsIn(s) \subseteq gone \cup IdsIn(r)
  <2> SUFFICES ASSUME NEW k \in 1..Len(s), s[k].id \notin gone
               PROVE  s[k].id \in IdsIn(r)
    BY DEF IdsIn
  <2>1. s[k] \in ToSet(s)
    BY <1>7
  <2>2. s[k] \in ToSet(r)
    BY <2>1 DEF gone
  <2> QED
    BY <1>7, <2>2 DEF IdsIn
<1>13. \A j \in Items : Ids(j) = IdsIn(comments[j]) /\ Ids(j)' = IdsIn(comments'[j])
  BY <1>3, <1>8, IdsAre, Domains DEF Ids, IdsIn
<1>14. \A j \in Items : Ids(j) \subseteq gone \cup Ids(j)'
  BY <1>8, <1>12, <1>13
<1>15. KnownIds'
  BY <1>2, <1>14 DEF KnownIds, CommentsOK
<1>16. CommentsOK'
  BY <1>2, <1>8, <1>10, <1>11, <1>15 DEF CommentsOK
<1>17. \A j \in Items : Ids(j) \subseteq Ids(j)' \cup dying'
  BY <1>2, <1>14
<1> QED
  BY <1>16, <1>17

\* What the turn of the scheduler leaves of the comments of an item.
LEMMA BuriedIs ==
    ASSUME NEW s \in Seq(Comment), OneToOne(s), NEW D
    PROVE  Picked(Buried(s, D), s) /\ IdsIn(Buried(s, D)) = IdsIn(s) \ D
<1> DEFINE Keep == {c \in Comment : c.id \notin D}
           r == Filter(s, Keep)
<1>1. /\ r \in Seq(Comment) /\ OneToOne(r)
      /\ Among(r, s, Len(s), Keep) /\ Has(r, s, Len(s), Keep)
  <2> HIDE DEF Keep
  <2> QED
    BY FilterElements
<1>2. Buried(s, D) = r
  BY DEF Buried
<1>3. \A j \in 1..Len(s) : s[j] \in Comment
  OBVIOUS
<1> HIDE DEF r
<1>4. Picked(r, s)
  BY <1>1 DEF Picked, Among
<1>5. IdsIn(r) \subseteq IdsIn(s) \ D
  BY <1>1 DEF IdsIn, Among
<1>6. IdsIn(s) \ D \subseteq IdsIn(r)
  BY <1>1, <1>3 DEF IdsIn, Has
<1> QED
  BY <1>2, <1>4, <1>5, <1>6

LEMMA UpdateIs ==
    ASSUME CommentsOK, update_comments
    PROVE  /\ comments' \in [Items -> Seq(Comment)]
           /\ \A i \in Items : Picked(comments'[i], comments[i])
           /\ \A i \in Items : Ids(i)' = Ids(i) \ dying
<1>1. comments \in [Items -> Seq(Comment)] /\ Unique(comments)
  BY DEF CommentsOK
<1>2. comments' = [i \in Items |-> Buried(comments[i], dying)]
  BY DEF update_comments
<1>3. \A i \in Items : comments[i] \in Seq(Comment) /\ OneToOne(comments[i])
  BY <1>1, UniqueOneToOne
<1>4. \A i \in Items : /\ Picked(Buried(comments[i], dying), comments[i])
                       /\ IdsIn(Buried(comments[i], dying)) = IdsIn(comments[i]) \ dying
  BY <1>3, BuriedIs
<1>5. \A i \in Items : Picked(comments'[i], comments[i])
  BY <1>2, <1>4
<1>6. comments' \in [Items -> Seq(Comment)]
  BY <1>2, <1>4 DEF Picked
<1>7. \A i \in Items : Ids(i) = IdsIn(comments[i]) /\ Ids(i)' = IdsIn(comments'[i])
  BY <1>1, <1>6, IdsAre, Domains DEF Ids, IdsIn
<1> QED
  BY <1>2, <1>4, <1>5, <1>6, <1>7

LEMMA UpdateKeepsComments ==
    ASSUME CommentsOK, update_comments
    PROVE  CommentsOK'
<1>1. /\ comments' \in [Items -> Seq(Comment)]
      /\ \A i \in Items : Picked(comments'[i], comments[i])
      /\ \A i \in Items : Ids(i)' = Ids(i) \ dying
  BY UpdateIs
<1>2. /\ known' = (known \cup UNION {Ids(i) : i \in Items}) \ dying
      /\ UNCHANGED <<dying, nextId>>
  BY DEF update_comments
<1>3. Unique(comments') /\ Old(comments', nextId)
  BY <1>1, PickedUnique, PickedOld DEF CommentsOK
<1>4. KnownIds'
  <2>1. ASSUME NEW n \in known' PROVE n \in UNION {Ids(i)' : i \in Items}
    <3>1. n \notin dying /\ (n \in known \/ \E i \in Items : n \in Ids(i))
      BY <1>2
    <3>2. PICK i \in Items : n \in Ids(i)
      BY <3>1 DEF CommentsOK, KnownIds
    <3>3. n \in Ids(i)'
      BY <1>1, <3>1, <3>2
    <3> QED
      BY <3>3
  <2> QED
    BY <2>1 DEF KnownIds
<1>5. \A i \in Items : Ids(i) \subseteq 1..MaxComments
  <2>1. comments \in [Items -> Seq(Comment)]
    BY DEF CommentsOK
  <2> QED
    BY <2>1, IdsAre, Domains, CommentTypes DEF IdsIn
<1>6. known' \subseteq 1..MaxComments
  BY <1>2, <1>5 DEF CommentsOK
<1> QED
  BY <1>1, <1>2, <1>3, <1>4, <1>6 DEF CommentsOK

LEMMA UpdateTells ==
    ASSUME CommentsOK, BrokTells, update_comments
    PROVE  BrokTells'
<1>1. \A i \in Items : Ids(i)' = Ids(i) \ dying
  BY UpdateIs
<1> DEFINE C == {i \in Items : Ids(i) \cap dying # {}}
<1>2. UNCHANGED <<on, changed, modified, flapping, acked, dying, children>> /\ Tell(C)
  BY DEF update_comments
<1>3. C \in SUBSET Owners
  BY DEF Owners
<1>4. ASSUME NEW o \in Owners \ C PROVE SameStatus(o)
  <2>1. o \in Items => Ids(o)' = Ids(o)
    BY <1>1
  <2> QED
    BY <1>2, <2>1 DEF SameStatus
<1> HIDE DEF C
<1> QED
  BY <1>2, <1>3, <1>4, Told

\* The comments that leave an item mark none of another item.
LEMMA UnacknowledgeTells ==
    ASSUME CommentsOK, BrokTells, REMOVE_ACKNOWLEDGEMENT
    PROVE  BrokTells'
<1>1. PICK i \in Items : unacknowledge_problem(i)
  BY DEF REMOVE_ACKNOWLEDGEMENT
<1> DEFINE rest == LoopRemoves(comments[i])
           gone == {c.id : c \in ToSet(comments[i]) \ ToSet(rest)}
<1>2. /\ acked' = acked \ {i} /\ dying' = dying \cup gone
      /\ comments' = [comments EXCEPT ![i] = rest]
      /\ UNCHANGED <<on, changed, modified, flapping, children>> /\ Tell({i})
  BY <1>1 DEF unacknowledge_problem
<1>3. {i} \in SUBSET Owners
  BY DEF Owners
<1>4. \A n \in gone : \E m \in 1..Len(comments[i]) : n = comments[i][m].id
  <2> HIDE DEF rest
  <2>1. ToSet(comments[i]) = {comments[i][m] : m \in 1..Len(comments[i])}
    BY Domains DEF ToSet, CommentsOK
  <2> QED
    BY <2>1
<1> HIDE DEF rest, gone
<1>5. ASSUME NEW o \in Items \ {i} PROVE Ids(o) \cap gone = {}
  <2>1. Ids(o) = {comments[o][k].id : k \in 1..Len(comments[o])}
    BY IdsAre DEF IdsIn, CommentsOK
  <2>2. \A k \in 1..Len(comments[o]), m \in 1..Len(comments[i]) :
          comments[o][k].id # comments[i][m].id
    BY DEF Unique, CommentsOK
  <2> QED
    BY <1>4, <2>1, <2>2
<1>6. ASSUME NEW o \in Owners \ {i} PROVE SameStatus(o)
  <2>1. o \in Items => comments'[o] = comments[o]
    BY <1>2 DEF CommentsOK
  <2>2. o \in Items => Ids(o)' = Ids(o)
    BY <2>1 DEF Ids
  <2>3. o \in Items => Ids(o) \cap dying' = Ids(o) \cap dying
    BY <1>2, <1>5
  <2>4. (o \in acked') = (o \in acked)
    BY <1>2
  <2> QED
    BY <1>2, <2>2, <2>3, <2>4 DEF SameStatus
<1> QED
  BY <1>2, <1>3, <1>6, Told

LEMMA DeleteKeepsComments ==
    ASSUME CommentsOK, DeleteStep
    PROVE  CommentsOK'
<1>1. PICK C : /\ dying' = dying \cup (C \cap known)
               /\ UNCHANGED <<comments, known, nextId>>
  BY DEF DeleteStep, DeleteComments
<1>2. \A i : Ids(i)' = Ids(i)
  BY <1>1, SameIds
<1>3. KnownIds'
  BY <1>1, <1>2 DEF CommentsOK, KnownIds
<1> QED
  BY <1>1, <1>3 DEF CommentsOK

\* A set of ids has a largest one, or is empty.
LEMMA Largest ==
    ASSUME NEW K, K \subseteq 1..MaxComments
    PROVE  \E m \in K \cup {0} : \A n \in K : n <= m
<1>1. MaxComments \in Nat
  BY ConstantsAssumption
<1>2. CASE K = {}
  BY <1>2
<1>3. CASE K # {}
  <2> DEFINE T == {MaxComments - k : k \in K}
  <2>1. T \subseteq Nat /\ T # {}
    <3>1. \A k \in K : MaxComments - k \in Nat
      BY <1>1
    <3> QED
      BY <1>3, <3>1
  <2>2. PICK x \in T : \A y \in T : x <= y
    <3> HIDE DEF T
    <3> QED
      BY <2>1, Smallest
  <2>3. PICK m \in K : x = MaxComments - m
    BY <2>2
  <2>4. \A n \in K : MaxComments - m <= MaxComments - n
    BY <2>2, <2>3
  <2>5. \A n \in K : n <= m
    <3>1. m \in 1..MaxComments /\ \A n \in K : n \in 1..MaxComments
      OBVIOUS
    <3> HIDE DEF T
    <3> QED
      BY <1>1, <2>4, <3>1
  <2> QED
    BY <2>5
<1> QED
  BY <1>2, <1>3

LEMMA ReloadKeepsComments ==
    ASSUME CommentsOK, Reload
    PROVE  CommentsOK'
<1> DEFINE K == UNION {Ids(i) : i \in Items}
           m == CHOOSE x \in known' \cup {0} : \A n \in known' : n <= x
<1>1. /\ known' = K /\ dying' = dying \cap known' /\ UNCHANGED comments
      /\ nextId' \in {1 + m, nextId}
  BY DEF Reload
<1>2. \A i : Ids(i)' = Ids(i)
  BY <1>1, SameIds
<1>3. comments \in [Items -> Seq(Comment)]
  BY DEF CommentsOK
<1>4. \A i \in Items : Ids(i) = IdsIn(comments[i])
  BY <1>3, IdsAre
<1>5. \A i \in Items : Ids(i) \subseteq 1..MaxComments
  BY <1>3, <1>4, Domains, CommentTypes DEF IdsIn
<1>6. known' \subseteq 1..MaxComments /\ dying' \subseteq 1..MaxComments
  BY <1>1, <1>5
<1>7. m \in known' \cup {0} /\ \A n \in known' : n <= m
  BY <1>6, Largest, Zenon
<1> HIDE DEF m
<1>8. nextId' \in 1..MaxComments + 1
  <2>1. 1 + m \in 1..MaxComments + 1
    BY <1>6, <1>7, ConstantsAssumption
  <2> QED
    BY <1>1, <2>1 DEF CommentsOK
<1>9. Old(comments, nextId')
  <2>1. \A i \in Items : \A k \in 1..Len(comments[i]) : comments[i][k].id \in known'
    BY <1>1, <1>4 DEF IdsIn
  <2>2. \A n \in known' : n < 1 + m
    BY <1>6, <1>7
  <2>3. Old(comments, 1 + m)
    BY <2>1, <2>2 DEF Old
  <2> QED
    BY <1>1, <2>3 DEF CommentsOK
<1>10. KnownIds'
  BY <1>1, <1>2 DEF KnownIds
<1>11. Unique(comments')
  BY <1>1 DEF CommentsOK
<1> HIDE DEF K
<1> QED
  BY <1>1, <1>3, <1>6, <1>8, <1>9, <1>10, <1>11 DEF CommentsOK

LEMMA SameCommentsOK ==
    ASSUME CommentsOK, SameComments
    PROVE  CommentsOK'
<1>1. KnownIds'
  BY SameIds DEF CommentsOK, KnownIds, SameComments
<1> QED
  BY <1>1 DEF CommentsOK, SameComments

LEMMA OthersKeepComments ==
    ASSUME SwitchStep \/ ProgramStep \/ ValueStep \/ MaskStep \/ LinkStep \/ add_flapping_change
    PROVE  SameComments
<1>1. SwitchStep => SameComments
  BY DEF SwitchStep, Switch, SameComments
<1>2. ProgramStep => SameComments
  BY DEF ProgramStep, Program, SameComments
<1>3. ValueStep => SameComments
  BY ContactSteps DEF ValueStep, CHANGE_ITEM, ContactStep, SameComments
<1>4. MaskStep => SameComments
  BY DEF MaskStep, CHANGE_HOST_MODATTR, CHANGE_SVC_MODATTR, SameComments
<1>5. LinkStep => SameComments
  BY DEF LinkStep, ADD_SIMPLE_HOST_DEPENDENCY, DEL_HOST_DEPENDENCY, SameComments
<1>6. add_flapping_change => SameComments
  BY DEF add_flapping_change, SameComments
<1> QED
  BY <1>1, <1>2, <1>3, <1>4, <1>5, <1>6

LEMMA CommentsStep ==
    ASSUME CommentsOK, Next
    PROVE  CommentsOK'
BY Kinds, OthersKeepComments, SameCommentsOK, NewKeepsComments, UnacknowledgeLeaves,
   DeleteKeepsComments, UpdateKeepsComments, ReloadKeepsComments

-----------------------------------------------------------------------------
(* Switches, values, masks and flapping *)

SwitchesOK ==
    /\ on \in [Owners -> SUBSET (Switches \cup ContactSwitches)]
    /\ changed \in [Owners -> SUBSET (Values \cup ContactValues)]
    /\ modified \in [Owners -> SUBSET (Switches \cup Values)]
    /\ forced \subseteq Owners /\ flapping \subseteq Items
    /\ flags \subseteq Flags /\ cls = flags
    /\ ModifiedTells /\ FlappingIsDetected

ItemsAreOwners == Items \subseteq Owners /\ Items \cap Contacts = {}

LEMMA ItemOwners == ItemsAreOwners
BY ConstantsAssumption DEF ItemsAreOwners, Owners

\* The two invariants of an item, for named values of the variables.
Marked(onI, changedI, modifiedI, confI) ==
    /\ \A a \in Switches : (a \in onI) # (a \in confI) => a \in modifiedI
    /\ changedI \ {"first_notification_delay"} \subseteq modifiedI

CanStop(onI, classes) ==
    "flap" \in onI /\ ("flap_detection" \in ConfFlags => "flap_detection" \in classes)

LEMMA ModifiedIs ==
    ModifiedTells <=> \A i \in Items \ forced : Marked(on[i], changed[i], modified[i], ConfOn[i])
BY DEF ModifiedTells, Marked

LEMMA ModifiedIsNext ==
    ModifiedTells' <=>
      \A i \in Items \ forced' : Marked(on'[i], changed'[i], modified'[i], ConfOn[i])
BY DEF ModifiedTells, Marked

LEMMA FlappingIs == FlappingIsDetected <=> \A i \in flapping \ forced : CanStop(on[i], cls)
BY DEF FlappingIsDetected, CanStop

LEMMA FlappingIsNext ==
    FlappingIsDetected' <=> \A i \in flapping' \ forced' : CanStop(on'[i], cls')
BY DEF FlappingIsDetected, CanStop

LEMMA MarkedSwitch ==
    ASSUME NEW s, NEW c, NEW m, NEW conf, Marked(s, c, m, conf), NEW a \in Switches
    PROVE  /\ Marked(s \cup {a}, c, m \cup {a}, conf)
           /\ Marked(s \ {a}, c, m \cup {a}, conf)
BY DEF Marked

LEMMA Bits ==
    /\ \A a \in Switches : Bit(a) = a
    /\ \A a \in ContactSwitches : Bit(a) \in Switches
BY DEF Switches, ContactSwitches, Bit

LEMMA SwitchKeepsSwitches ==
    ASSUME SwitchesOK, SwitchStep
    PROVE  SwitchesOK'
<1>1. PICK O \in SUBSET Owners, a \in Switches \cup ContactSwitches, b \in BOOLEAN :
         /\ \/ O \subseteq Items /\ a \in Switches
            \/ O \subseteq Contacts /\ a \in ContactSwitches
         /\ Switch(O, a, b)
  BY Zenon DEF SwitchStep
<1> DEFINE C == {o \in O : (a \in on[o]) # b}
<1>2. /\ on' = [o \in Owners |-> IF o \notin C THEN on[o]
                                 ELSE IF b THEN on[o] \cup {a} ELSE on[o] \ {a}]
      /\ modified' = [o \in Owners |-> IF o \in C THEN modified[o] \cup {Bit(a)}
                                       ELSE modified[o]]
      /\ flapping' = IF a = "flap" /\ ~b THEN flapping \ C ELSE flapping
      /\ UNCHANGED <<changed, forced, flags, cls>>
  BY <1>1 DEF Switch
<1>3. C \subseteq O /\ C \subseteq Owners /\ Bit(a) \in Switches
  BY <1>1, Bits
<1> HIDE DEF C
<1>4. /\ on' \in [Owners -> SUBSET (Switches \cup ContactSwitches)]
      /\ modified' \in [Owners -> SUBSET (Switches \cup Values)]
  BY <1>2, <1>3 DEF SwitchesOK
<1>5. flapping' \subseteq Items
  BY <1>2 DEF SwitchesOK
<1>6. ASSUME NEW i \in C, i \in Items PROVE a \in Switches /\ Bit(a) = a
  <2>1. ~(O \subseteq Contacts)
    BY <1>3, <1>6, ItemOwners DEF ItemsAreOwners
  <2> QED
    BY <1>1, <2>1, Bits
<1>7. ASSUME NEW i \in Items \ forced'
      PROVE  Marked(on'[i], changed'[i], modified'[i], ConfOn[i])
  <2>1. i \in Owners /\ i \in Items \ forced /\ changed'[i] = changed[i]
    BY <1>2, ItemOwners DEF ItemsAreOwners
  <2>2. Marked(on[i], changed[i], modified[i], ConfOn[i])
    BY <2>1, ModifiedIs DEF SwitchesOK
  <2>3. CASE i \notin C
    <3>1. on'[i] = on[i] /\ modified'[i] = modified[i]
      BY <1>2, <2>1, <2>3
    <3> QED
      BY <2>1, <2>2, <3>1
  <2>4. CASE i \in C
    <3>1. a \in Switches /\ modified'[i] = modified[i] \cup {a}
      BY <1>2, <1>6, <2>1, <2>4
    <3>2. on'[i] \in {on[i] \cup {a}, on[i] \ {a}}
      BY <1>2, <2>1, <2>4
    <3>3. /\ Marked(on[i] \cup {a}, changed[i], modified[i] \cup {a}, ConfOn[i])
          /\ Marked(on[i] \ {a}, changed[i], modified[i] \cup {a}, ConfOn[i])
      BY <2>2, <3>1, MarkedSwitch, Zenon
    <3>4. CASE on'[i] = on[i] \cup {a}
      BY <2>1, <3>1, <3>3, <3>4, Zenon
    <3>5. CASE on'[i] = on[i] \ {a}
      BY <2>1, <3>1, <3>3, <3>5, Zenon
    <3> QED
      BY <3>2, <3>4, <3>5
  <2> QED
    BY <2>3, <2>4
<1>8. ASSUME NEW i \in flapping' \ forced' PROVE CanStop(on'[i], cls')
  <2>1. i \in flapping \ forced /\ i \in Owners
    BY <1>2, ItemOwners DEF SwitchesOK, ItemsAreOwners
  <2>2. CanStop(on[i], cls)
    BY <2>1, FlappingIs DEF SwitchesOK
  <2>3. "flap" \in on'[i]
    <3>1. "flap" \in on[i]
      BY <2>2 DEF CanStop
    <3>2. CASE i \notin C \/ a # "flap" \/ b
      BY <1>2, <2>1, <3>1, <3>2
    <3>3. CASE i \in C /\ a = "flap" /\ ~b
      BY <1>2, <1>8, <3>3
    <3> QED
      BY <3>2, <3>3
  <2> QED
    BY <1>2, <2>2, <2>3 DEF CanStop
<1>9. ModifiedTells' /\ FlappingIsDetected'
  BY <1>7, <1>8, ModifiedIsNext, FlappingIsNext
<1> QED
  BY <1>2, <1>4, <1>5, <1>9 DEF SwitchesOK

LEMMA ProgramKeepsSwitches ==
    ASSUME SwitchesOK, ProgramStep
    PROVE  SwitchesOK'
<1>1. PICK F \in SUBSET Flags, b \in BOOLEAN : Program(F, b)
  BY Zenon DEF ProgramStep
<1>2. PICK f \in F :
         /\ flags' = IF b THEN flags \cup {f} ELSE flags \ {f}
         /\ cls' = flags'
         /\ flapping' = IF f = "flap_detection" /\ ~b THEN {} ELSE flapping
         /\ UNCHANGED <<on, changed, modified, forced>>
  BY <1>1 DEF Program, explode_global_conf
<1>3. flags' \subseteq Flags /\ flapping' \subseteq Items
  BY <1>2 DEF SwitchesOK
<1>4. ASSUME NEW i \in Items \ forced'
      PROVE  Marked(on'[i], changed'[i], modified'[i], ConfOn[i])
  BY <1>2, ModifiedIs DEF SwitchesOK
<1>5. ASSUME NEW i \in flapping' \ forced' PROVE CanStop(on'[i], cls')
  <2>1. i \in flapping \ forced /\ ~(f = "flap_detection" /\ ~b)
    BY <1>2
  <2>2. CanStop(on[i], cls) /\ cls = flags
    BY <2>1, FlappingIs DEF SwitchesOK
  <2>3. "flap_detection" \in cls => "flap_detection" \in cls'
    BY <1>2, <2>1, <2>2
  <2> QED
    BY <1>2, <2>2, <2>3 DEF CanStop
<1>6. ModifiedTells' /\ FlappingIsDetected'
  BY <1>4, <1>5, ModifiedIsNext, FlappingIsNext
<1> QED
  BY <1>2, <1>3, <1>6 DEF SwitchesOK

\* Steps that change values and masks.
LEMMA ValuesKeepSwitches ==
    ASSUME SwitchesOK, NEW o \in Owners, NEW v \in Values, NEW differs \in BOOLEAN,
           changed' = [changed EXCEPT ![o] = IF differs THEN @ \cup {v} ELSE @ \ {v}],
           modified' = IF v = "first_notification_delay" THEN modified
                       ELSE [modified EXCEPT ![o] = @ \cup {v}],
           UNCHANGED <<on, forced, flapping, flags, cls>>
    PROVE  SwitchesOK'
<1>1. /\ changed' \in [Owners -> SUBSET (Values \cup ContactValues)]
      /\ modified' \in [Owners -> SUBSET (Switches \cup Values)]
  BY DEF SwitchesOK
<1>2. ASSUME NEW i \in Items \ forced'
      PROVE  Marked(on'[i], changed'[i], modified'[i], ConfOn[i])
  <2>1. i \in Owners /\ i \in Items \ forced
    BY ItemOwners DEF ItemsAreOwners
  <2>2. Marked(on[i], changed[i], modified[i], ConfOn[i])
    BY <2>1, ModifiedIs DEF SwitchesOK
  <2>3. /\ modified[i] \subseteq modified'[i]
        /\ i = o /\ v # "first_notification_delay" => v \in modified'[i]
    BY <2>1 DEF SwitchesOK
  <2>4. changed'[i] \subseteq changed[i] \cup (IF i = o THEN {v} ELSE {})
    BY <2>1 DEF SwitchesOK
  <2> QED
    BY <2>2, <2>3, <2>4 DEF Marked
<1>3. ASSUME NEW i \in flapping' \ forced' PROVE CanStop(on'[i], cls')
  BY <1>3, FlappingIs DEF SwitchesOK
<1>4. ModifiedTells' /\ FlappingIsDetected'
  BY <1>2, <1>3, ModifiedIsNext, FlappingIsNext
<1> QED
  BY <1>1, <1>4 DEF SwitchesOK

LEMMA ContactKeepsSwitches ==
    ASSUME SwitchesOK, NEW c \in Contacts, NEW v \in ContactValues,
           changed' = [changed EXCEPT ![c] = @ \cup {v}],
           modified' \in {modified, [modified EXCEPT ![c] = @ \cup {"customs"}]},
           UNCHANGED <<on, forced, flapping, flags, cls>>
    PROVE  SwitchesOK'
<1>1. "customs" \in Values
  BY DEF Values
<1>2. /\ changed' \in [Owners -> SUBSET (Values \cup ContactValues)]
      /\ modified' \in [Owners -> SUBSET (Switches \cup Values)]
  BY <1>1 DEF SwitchesOK
<1>3. ASSUME NEW i \in Items \ forced'
      PROVE  Marked(on'[i], changed'[i], modified'[i], ConfOn[i])
  <2>1. i \in Owners /\ i # c /\ i \in Items \ forced
    BY ItemOwners DEF ItemsAreOwners
  <2>2. changed'[i] = changed[i] /\ modified'[i] = modified[i]
    BY <2>1 DEF SwitchesOK
  <2> QED
    BY <2>1, <2>2, ModifiedIs DEF SwitchesOK
<1>4. ASSUME NEW i \in flapping' \ forced' PROVE CanStop(on'[i], cls')
  BY <1>4, FlappingIs DEF SwitchesOK
<1>5. ModifiedTells' /\ FlappingIsDetected'
  BY <1>3, <1>4, ModifiedIsNext, FlappingIsNext
<1> QED
  BY <1>2, <1>5 DEF SwitchesOK

LEMMA ValueKeepsSwitches ==
    ASSUME SwitchesOK, ValueStep
    PROVE  SwitchesOK'
<1>1. CASE CHANGE_ITEM
  <2>1. PICK i \in Items, v \in Values, differs \in BOOLEAN :
           /\ changed' = [changed EXCEPT ![i] = IF differs THEN @ \cup {v} ELSE @ \ {v}]
           /\ modified' = IF v = "first_notification_delay" THEN modified
                          ELSE [modified EXCEPT ![i] = @ \cup {v}]
           /\ UNCHANGED <<on, forced, flapping, flags, cls>>
    BY <1>1, ConstantsAssumption DEF CHANGE_ITEM
  <2>2. i \in Owners
    BY DEF Owners
  <2> QED
    BY <2>1, <2>2, ValuesKeepSwitches
<1>2. CASE CHANGE_CONTACT
  <2>1. PICK c \in Contacts, v \in ContactValues : ContactStep(c, v)
    BY <1>2, ContactSteps
  <2>2. /\ changed' = [changed EXCEPT ![c] = @ \cup {v}]
        /\ modified' \in {modified, [modified EXCEPT ![c] = @ \cup {"customs"}]}
        /\ UNCHANGED <<on, forced, flapping, flags, cls>>
    BY <2>1 DEF ContactStep
  <2> QED
    BY <2>2, ContactKeepsSwitches
<1> QED
  BY <1>1, <1>2 DEF ValueStep

LEMMA MaskKeepsSwitches ==
    ASSUME SwitchesOK, MaskStep
    PROVE  SwitchesOK'
<1>1. PICK o \in Owners, mask \in SUBSET Switches :
         /\ modified' = [modified EXCEPT ![o] = mask] /\ forced' = forced \cup {o}
         /\ on' \in [Owners -> SUBSET (Switches \cup ContactSwitches)]
         /\ \A i \in Owners \ {o} : on'[i] = on[i]
         /\ UNCHANGED <<changed, flapping, flags, cls>>
  <2>1. CASE CHANGE_HOST_MODATTR
    <3>1. PICK o \in Hosts \cup Contacts, mask \in {{}, {"flap"}} :
             /\ modified' = [modified EXCEPT ![o] = mask] /\ forced' = forced \cup {o}
             /\ UNCHANGED <<on, changed, flapping, flags, cls>>
      BY <2>1, Zenon DEF CHANGE_HOST_MODATTR
    <3>2. o \in Owners /\ mask \in SUBSET Switches
      BY DEF Owners, Items, Switches
    <3> QED
      BY <3>1, <3>2 DEF SwitchesOK
  <2>2. CASE CHANGE_SVC_MODATTR
    <3>1. PICK s \in Services, mask \in {{}, {"flap"}, {"perf", "notifications"}} :
             LET toggled == {a \in Switches \ {"perf"} :
                                 (a \in mask) # (a \in modified[s])}
             IN  /\ on' = [on EXCEPT ![s] = (@ \ toggled) \cup (toggled \ @)]
                 /\ modified' = [modified EXCEPT ![s] = mask]
                 /\ forced' = forced \cup {s}
                 /\ UNCHANGED <<changed, flapping, flags, cls>>
      BY <2>2 DEF CHANGE_SVC_MODATTR
    <3> DEFINE toggled == {a \in Switches \ {"perf"} : (a \in mask) # (a \in modified[s])}
    <3>2. s \in Owners /\ mask \in SUBSET Switches
      BY DEF Owners, Items, Switches
    <3>3. toggled \subseteq Switches /\ on' = [on EXCEPT ![s] = (@ \ toggled) \cup (toggled \ @)]
      BY <3>1
    <3> HIDE DEF toggled
    <3>4. /\ on' \in [Owners -> SUBSET (Switches \cup ContactSwitches)]
          /\ \A i \in Owners \ {s} : on'[i] = on[i]
      BY <3>2, <3>3 DEF SwitchesOK
    <3> QED
      BY <3>1, <3>2, <3>4
  <2> QED
    BY <2>1, <2>2 DEF MaskStep
<1>2. modified' \in [Owners -> SUBSET (Switches \cup Values)] /\ forced' \subseteq Owners
  BY <1>1 DEF SwitchesOK
<1>3. ASSUME NEW i \in Items \ forced'
      PROVE  Marked(on'[i], changed'[i], modified'[i], ConfOn[i])
  <2>1. i \in Owners \ {o} /\ i \in Items \ forced
    BY <1>1, ItemOwners DEF ItemsAreOwners
  <2>2. on'[i] = on[i] /\ changed'[i] = changed[i] /\ modified'[i] = modified[i]
    BY <1>1, <2>1 DEF SwitchesOK
  <2> QED
    BY <2>1, <2>2, ModifiedIs DEF SwitchesOK
<1>4. ASSUME NEW i \in flapping' \ forced' PROVE CanStop(on'[i], cls')
  <2>1. i \in flapping \ forced /\ i \in Owners \ {o}
    BY <1>1, ItemOwners DEF ItemsAreOwners, SwitchesOK
  <2>2. on'[i] = on[i] /\ cls' = cls
    BY <1>1, <2>1
  <2> QED
    BY <2>1, <2>2, FlappingIs DEF SwitchesOK
<1>5. ModifiedTells' /\ FlappingIsDetected'
  BY <1>3, <1>4, ModifiedIsNext, FlappingIsNext
<1> QED
  BY <1>1, <1>2, <1>5 DEF SwitchesOK

\* What a reload makes of a switch a of item i: one that a command changed is
\* saved, if the retention keeps its property at all.
LEMMA SavedSwitch ==
    ASSUME NEW i \in Items, NEW a \in Switches,
           Marked(on[i], changed[i], modified[i], ConfOn[i])
    PROVE  /\ a \in RetainedSwitches(i) /\ (a \in on[i]) # (a \in ConfOn[i]) => a \in Saved(i)
           /\ Saved(i) \subseteq RetainedSwitches(i)
<1>1. (a \in on[i]) # (a \in ConfOn[i]) => a \in modified[i] /\ modified[i] # {}
  BY DEF Marked
<1> QED
  BY <1>1 DEF Saved

LEMMA ReloadSwitch ==
    ASSUME SwitchesOK, Reload, NEW i \in Items \ forced, NEW a \in Switches
    PROVE  /\ a \in RetainedSwitches(i) => (a \in on'[i] <=> a \in on[i])
           /\ (a \in on'[i]) # (a \in ConfOn[i]) => a \in modified'[i]
           /\ modified'[i] = modified[i] /\ changed'[i] = {}
<1>1. i \in Owners /\ i \notin Contacts
  BY ItemOwners DEF ItemsAreOwners
<1>2. /\ on'[i] = (on[i] \cap Saved(i)) \cup (ConfOn[i] \ Saved(i))
      /\ modified'[i] = modified[i] /\ changed'[i] = {}
  BY <1>1 DEF Reload
<1>3. Marked(on[i], changed[i], modified[i], ConfOn[i])
  BY ModifiedIs DEF SwitchesOK
<1>4. /\ a \in RetainedSwitches(i) /\ (a \in on[i]) # (a \in ConfOn[i]) => a \in Saved(i)
      /\ (a \in on[i]) # (a \in ConfOn[i]) => a \in modified[i]
  BY <1>3, SavedSwitch DEF Marked
<1> QED
  BY <1>2, <1>4

LEMMA FlapIsRetained == \A i : "flap" \in RetainedSwitches(i) /\ "flap" \in Switches
BY DEF RetainedSwitches, Switches

LEMMA ReloadKeepsSwitches ==
    ASSUME SwitchesOK, Reload
    PROVE  SwitchesOK'
<1>1. /\ on' = [o \in Owners |->
                  IF o \in Contacts THEN ConfOn[o]
                  ELSE (on[o] \cap Saved(o)) \cup (ConfOn[o] \ Saved(o))]
      /\ changed' = [o \in Owners |-> {}]
      /\ modified' = [o \in Owners |-> IF o \in Contacts THEN {} ELSE modified[o]]
      /\ flags' = ConfFlags /\ cls' = ConfFlags /\ UNCHANGED <<forced, flapping>>
  BY DEF Reload, explode_global_conf
<1>2. /\ on' \in [Owners -> SUBSET (Switches \cup ContactSwitches)]
      /\ changed' \in [Owners -> SUBSET Values]
      /\ modified' \in [Owners -> SUBSET (Switches \cup Values)]
      /\ flags' \subseteq Flags
  <2>1. ConfOn \in [Owners -> SUBSET (Switches \cup ContactSwitches)] /\ ConfFlags \subseteq Flags
    BY ConstantsAssumption
  <2> QED
    BY <1>1, <2>1 DEF SwitchesOK
<1>3. ASSUME NEW i \in Items \ forced'
      PROVE  Marked(on'[i], changed'[i], modified'[i], ConfOn[i])
  <2>1. i \in Items \ forced /\ i \in Owners
    BY <1>1, ItemOwners DEF ItemsAreOwners
  <2>2. changed'[i] = {}
    BY <1>1, <2>1
  <2>3. \A a \in Switches : (a \in on'[i]) # (a \in ConfOn[i]) => a \in modified'[i]
    BY <2>1, ReloadSwitch
  <2> QED
    BY <2>2, <2>3 DEF Marked
<1>4. ASSUME NEW i \in flapping' \ forced' PROVE CanStop(on'[i], cls')
  <2>1. i \in flapping \ forced /\ i \in Items \ forced
    BY <1>1 DEF SwitchesOK
  <2>2. "flap" \in on[i]
    BY <2>1, FlappingIs DEF SwitchesOK, CanStop
  <2>3. "flap" \in on'[i]
    BY <2>1, <2>2, ReloadSwitch, FlapIsRetained
  <2> QED
    BY <1>1, <2>3 DEF CanStop
<1>5. ModifiedTells' /\ FlappingIsDetected'
  BY <1>3, <1>4, ModifiedIsNext, FlappingIsNext
<1> QED
  BY <1>1, <1>2, <1>5 DEF SwitchesOK

LEMMA FlappingChangeKeepsSwitches ==
    ASSUME SwitchesOK, add_flapping_change
    PROVE  SwitchesOK'
<1>1. PICK i \in Items :
         /\ "flap" \in on[i] /\ "flap_detection" \in cls
         /\ flapping' = (flapping \ {i}) \cup ({i} \ flapping)
         /\ UNCHANGED <<on, changed, modified, forced, flags, cls>>
  BY DEF add_flapping_change
<1>2. flapping' \subseteq Items
  BY <1>1 DEF SwitchesOK
<1>3. ASSUME NEW j \in flapping' \ forced' PROVE CanStop(on'[j], cls')
  <2>1. CASE j = i
    BY <1>1, <2>1 DEF CanStop
  <2>2. CASE j # i
    <3>1. j \in flapping \ forced
      BY <1>1, <2>2
    <3> QED
      BY <1>1, <3>1, FlappingIs DEF SwitchesOK
  <2> QED
    BY <2>1, <2>2
<1>4. ModifiedTells' /\ FlappingIsDetected'
  <2>1. \A j \in Items \ forced' : Marked(on'[j], changed'[j], modified'[j], ConfOn[j])
    BY <1>1, ModifiedIs DEF SwitchesOK
  <2> QED
    BY <1>3, <2>1, ModifiedIsNext, FlappingIsNext
<1> QED
  BY <1>1, <1>2, <1>4 DEF SwitchesOK

SameSwitches == UNCHANGED <<on, changed, modified, forced, flapping, flags, cls>>

LEMMA SameSwitchesOK ==
    ASSUME SwitchesOK, SameSwitches
    PROVE  SwitchesOK'
BY DEF SwitchesOK, SameSwitches, ModifiedTells, FlappingIsDetected

LEMMA OthersKeepSwitches ==
    ASSUME NewStep \/ REMOVE_ACKNOWLEDGEMENT \/ DeleteStep \/ update_comments \/ LinkStep
    PROVE  SameSwitches
<1>1. NewStep => SameSwitches
  BY DEF NewStep, ADD_COMMENT, ACKNOWLEDGE_PROBLEM, SameSwitches
<1>2. REMOVE_ACKNOWLEDGEMENT => SameSwitches
  BY DEF REMOVE_ACKNOWLEDGEMENT, unacknowledge_problem, SameSwitches
<1>3. DeleteStep => SameSwitches
  BY DEF DeleteStep, DeleteComments, SameSwitches
<1>4. update_comments => SameSwitches
  BY DEF update_comments, SameSwitches
<1>5. LinkStep => SameSwitches
  BY DEF LinkStep, ADD_SIMPLE_HOST_DEPENDENCY, DEL_HOST_DEPENDENCY, SameSwitches
<1> QED
  BY <1>1, <1>2, <1>3, <1>4, <1>5

LEMMA SwitchesStep ==
    ASSUME SwitchesOK, Next
    PROVE  SwitchesOK'
BY Kinds, OthersKeepSwitches, SameSwitchesOK, SwitchKeepsSwitches, ProgramKeepsSwitches,
   ValueKeepsSwitches, MaskKeepsSwitches, FlappingChangeKeepsSwitches, ReloadKeepsSwitches

-----------------------------------------------------------------------------
(* The inductive invariant and the theorems *)

RestOK ==
    /\ acked \subseteq Items
    /\ links \subseteq Hosts \X Hosts /\ children \subseteq Hosts \X Hosts
    /\ left \in 0..MaxCommands

LEMMA RestStep ==
    ASSUME RestOK, Next
    PROVE  RestOK'
<1>1. MaxCommands \in Nat
  BY ConstantsAssumption
<1>2. CASE SwitchStep
  BY <1>1, <1>2 DEF SwitchStep, Switch, RestOK, Spend
<1>3. CASE ProgramStep
  BY <1>1, <1>3 DEF ProgramStep, Program, RestOK, Spend
<1>4. CASE ValueStep
  <2>1. UNCHANGED <<acked, links, children>> /\ left > 0 /\ left' = left - 1
    BY <1>4, ContactSteps DEF ValueStep, CHANGE_ITEM, ContactStep, Spend
  <2> QED
    BY <1>1, <2>1 DEF RestOK
<1>5. CASE MaskStep
  <2>1. UNCHANGED <<acked, links, children>> /\ left > 0 /\ left' = left - 1
    BY <1>5 DEF MaskStep, CHANGE_HOST_MODATTR, CHANGE_SVC_MODATTR, Spend
  <2> QED
    BY <1>1, <2>1 DEF RestOK
<1>6. CASE NewStep
  <2>1. /\ UNCHANGED <<links, children>> /\ left > 0 /\ left' = left - 1
        /\ \E i \in Items : acked' \subseteq acked \cup {i}
    BY <1>6 DEF NewStep, ADD_COMMENT, ACKNOWLEDGE_PROBLEM, Spend
  <2> QED
    BY <1>1, <2>1 DEF RestOK
<1>7. CASE REMOVE_ACKNOWLEDGEMENT
  BY <1>1, <1>7 DEF REMOVE_ACKNOWLEDGEMENT, unacknowledge_problem, RestOK, Spend
<1>8. CASE DeleteStep
  BY <1>1, <1>8 DEF DeleteStep, DeleteComments, RestOK, Spend
<1>9. CASE update_comments
  BY <1>9 DEF update_comments, RestOK
<1>10. CASE LinkStep
  <2>1. CASE ADD_SIMPLE_HOST_DEPENDENCY
    BY <1>1, <2>1 DEF ADD_SIMPLE_HOST_DEPENDENCY, RestOK, Spend
  <2>2. CASE DEL_HOST_DEPENDENCY
    BY <1>1, <2>2 DEF DEL_HOST_DEPENDENCY, RestOK, Spend
  <2> QED
    BY <1>10, <2>1, <2>2 DEF LinkStep
<1>11. CASE add_flapping_change
  BY <1>1, <1>11 DEF add_flapping_change, RestOK, Spend
<1>12. CASE Reload
  <2>1. links' \subseteq Hosts \X Hosts
    BY <1>12 DEF Reload
  <2>2. children' = links' /\ UNCHANGED acked /\ left > 0 /\ left' = left - 1
    BY <1>12 DEF Reload, Spend
  <2> QED
    BY <1>1, <2>1, <2>2 DEF RestOK
<1> QED
  BY <1>2, <1>3, <1>4, <1>5, <1>6, <1>7, <1>8, <1>9, <1>10, <1>11, <1>12, Kinds

\* Every step tells the broker of someone, or of nobody.
LEMMA SilentStep ==
    ASSUME silent \subseteq Owners, Next
    PROVE  silent' \subseteq Owners
<1>1. \A O : Tell(O) => silent' \subseteq Owners
  BY DEF Tell
<1>2. \A O \in SUBSET Owners : TellNobody(O) => silent' \subseteq Owners
  BY DEF TellNobody
<1>3. /\ \A i \in Items : {i} \in SUBSET Owners
      /\ \A c \in Contacts : {c} \in SUBSET Owners
      /\ \A h \in Hosts : {h} \in SUBSET Owners
  BY DEF Owners, Items
<1>4. CASE SwitchStep
  BY <1>1, <1>4 DEF SwitchStep, Switch
<1>5. CASE ProgramStep
  BY <1>1, <1>5 DEF ProgramStep, Program
<1>6. CASE CHANGE_ITEM
  BY <1>1, <1>2, <1>3, <1>6 DEF CHANGE_ITEM
<1>7. CASE CHANGE_CONTACT
  BY <1>1, <1>2, <1>3, <1>7, ContactSteps DEF ContactStep
<1>8. CASE MaskStep
  BY <1>1, <1>2, <1>3, <1>8 DEF MaskStep, CHANGE_HOST_MODATTR, CHANGE_SVC_MODATTR
<1>9. CASE NewStep
  BY <1>1, <1>9 DEF NewStep, ADD_COMMENT, ACKNOWLEDGE_PROBLEM
<1>10. CASE REMOVE_ACKNOWLEDGEMENT
  BY <1>1, <1>10 DEF REMOVE_ACKNOWLEDGEMENT, unacknowledge_problem
<1>11. CASE DeleteStep
  <2>1. {i \in Items : Ids(i) \cap dying' # Ids(i) \cap dying} \in SUBSET Owners
    BY DEF Owners
  <2> QED
    BY <1>2, <1>11, <2>1 DEF DeleteStep, DeleteComments
<1>12. CASE update_comments
  BY <1>1, <1>12 DEF update_comments
<1>13. CASE LinkStep
  BY <1>1, <1>13 DEF LinkStep, ADD_SIMPLE_HOST_DEPENDENCY, DEL_HOST_DEPENDENCY
<1>14. CASE add_flapping_change
  BY <1>1, <1>14 DEF add_flapping_change
<1>15. CASE Reload
  BY <1>1, <1>15 DEF Reload
<1> QED
  BY <1>4, <1>5, <1>6, <1>7, <1>8, <1>9, <1>10, <1>11, <1>12, <1>13, <1>14, <1>15, Kinds
     DEF ValueStep

IInv == SwitchesOK /\ CommentsOK /\ RestOK /\ silent \subseteq Owners /\ BrokTells

LEMMA UniqueIs ==
    ASSUME comments \in [Items -> Seq(Comment)]
    PROVE  CommentIdsTell <=> Unique(comments) /\ KnownIds
<1>1. \A i \in Items : DOMAIN comments[i] = 1..Len(comments[i])
  BY Domains
<1> QED
  BY <1>1 DEF CommentIdsTell, Unique, KnownIds

LEMMA Meaning ==
    ASSUME IInv
    PROVE  CommandsTell
<1>1. SwitchesOK /\ CommentsOK /\ RestOK /\ silent \subseteq Owners /\ BrokTells
  BY DEF IInv
<1>2. TypeOK
  BY <1>1 DEF TypeOK, SwitchesOK, CommentsOK, RestOK
<1>3. CommentIdsTell
  BY <1>1, UniqueIs DEF CommentsOK
<1>4. ModifiedTells /\ FlappingIsDetected
  BY <1>1 DEF SwitchesOK
<1> QED
  BY <1>1, <1>2, <1>3, <1>4 DEF CommandsTell

LEMMA BrokStep ==
    ASSUME IInv, Next
    PROVE  BrokTells'
<1>1. TypeOK /\ CommentsOK /\ BrokTells
  BY Meaning DEF IInv, CommandsTell
<1> QED
  BY <1>1, Kinds, SwitchTells, ProgramTells, ValueTells, MaskTells, NewTells,
     UnacknowledgeTells, UpdateTells, OthersTell

LEMMA Step ==
    ASSUME IInv, [Next]_vars
    PROVE  IInv'
<1>1. CASE Next
  <2>1. SwitchesOK' /\ CommentsOK' /\ RestOK' /\ silent' \subseteq Owners
    BY <1>1, SwitchesStep, CommentsStep, RestStep, SilentStep DEF IInv
  <2>2. BrokTells'
    BY <1>1, BrokStep
  <2> QED
    BY <2>1, <2>2 DEF IInv
<1>2. CASE UNCHANGED vars
  <2>1. /\ SameSwitches /\ SameComments
        /\ UNCHANGED <<acked, links, children, told, silent, left>>
    BY <1>2 DEF vars, SameSwitches, SameComments
  <2>2. \A o \in Owners : SameStatus(o)
    BY <2>1, SameIds DEF SameStatus, SameSwitches, SameComments
  <2>3. TellNobody({})
    BY <2>1 DEF TellNobody
  <2>4. RestOK' /\ BrokTells'
    BY <2>1, <2>2, <2>3, ToldNobody DEF IInv, RestOK
  <2> QED
    BY <2>1, <2>4, SameSwitchesOK, SameCommentsOK DEF IInv
<1> QED
  BY <1>1, <1>2

LEMMA InitIInv ==
    ASSUME Init
    PROVE  IInv
<1>1. SwitchesOK
  <2>1. \A i \in Items : Marked(ConfOn[i], {}, {}, ConfOn[i])
    BY DEF Marked
  <2>2. Items \subseteq Owners
    BY DEF Owners
  <2>3. ModifiedTells /\ FlappingIsDetected
    BY <2>1, <2>2, ModifiedIs, FlappingIs DEF Init
  <2> QED
    BY <2>3, ConstantsAssumption DEF Init, SwitchesOK
<1>2. CommentsOK
  <2>1. comments = [i \in Items |-> <<>>] /\ known = {} /\ dying = {} /\ nextId = 1
    BY DEF Init
  <2>2. comments \in [Items -> Seq(Comment)] /\ \A i \in Items : Len(comments[i]) = 0
    BY <2>1
  <2>3. Unique(comments) /\ Old(comments, nextId) /\ KnownIds
    BY <2>1, <2>2 DEF Unique, Old, KnownIds
  <2> QED
    BY <2>1, <2>2, <2>3, ConstantsAssumption DEF CommentsOK
<1>3. RestOK
  <2>1. links \subseteq Hosts \X Hosts /\ children = links /\ acked = {} /\ left = MaxCommands
    BY DEF Init
  <2> QED
    BY <2>1, ConstantsAssumption DEF RestOK
<1>4. silent \subseteq Owners /\ BrokTells
  BY DEF Init, BrokTells
<1> QED
  BY <1>1, <1>2, <1>3, <1>4 DEF IInv

\* The inductive invariant of Commands.tla.
THEOREM Invariance == Spec => []IInv
<1>1. Init => IInv
  BY InitIInv
<1>2. IInv /\ [Next]_vars => IInv'
  BY Step
<1> QED
  BY <1>1, <1>2, PTL DEF Spec

\* CommandsTell: whatever commands and reloads come, the broker knows the status of
\* everyone about whom no command without a brok (get_and_register_status_brok) was
\* carried out since the last one, and of the others all but masks, custom variables,
\* the check interval and marks on comments; the masks mark what was modified, a
\* flapping item can stop flapping, and the ids of comments name one comment each.
THEOREM CommandsAreTold == Spec => []CommandsTell
<1>1. IInv => CommandsTell
  BY Meaning
<1> QED
  BY <1>1, Invariance, PTL

LEMMA ReloadKeeps ==
    ASSUME IInv, Reload, NEW i \in Items \ forced
    PROVE  on'[i] \cap RetainedSwitches(i) = on[i] \cap RetainedSwitches(i)
<1>1. RetainedSwitches(i) \subseteq Switches
  BY DEF RetainedSwitches, Switches
<1>2. \A a \in RetainedSwitches(i) : a \in on'[i] <=> a \in on[i]
  BY <1>1, ReloadSwitch DEF IInv
<1> QED
  BY <1>2

\* SurvivesReload: what a command switched off or on stays so over a save and
\* reload of the retention (get_retention_data), which saves of a service only the
\* switches that its mask marks.
THEOREM SwitchesSurvive == Spec => SurvivesReload
<1> DEFINE Survives == \A i \in Items \ forced :
                         on'[i] \cap RetainedSwitches(i) = on[i] \cap RetainedSwitches(i)
<1>1. IInv /\ [Next]_vars => [Reload => Survives]_vars
  BY ReloadKeeps
<1> QED
  BY <1>1, Invariance, PTL DEF Spec, SurvivesReload

LEMMA CommentsStay ==
    ASSUME IInv, Next
    PROVE  \A i \in Items : Ids(i) \subseteq Ids(i)' \cup dying'
<1>1. CommentsOK
  BY DEF IInv
<1>2. SameComments => \A i \in Items : Ids(i)' = Ids(i)
  BY SameIds DEF SameComments
<1>3. CASE NewStep
  <2>1. PICK i \in Items, ack \in BOOLEAN, persistent \in BOOLEAN : NewComment(i, ack, persistent)
    <3>1. FALSE \in BOOLEAN /\ TRUE \in BOOLEAN
      OBVIOUS
    <3> QED
      BY <1>3, <3>1, Zenon DEF NewStep, ADD_COMMENT, ACKNOWLEDGE_PROBLEM
  <2> QED
    BY <1>1, <2>1, NewCommentOK
<1>4. CASE REMOVE_ACKNOWLEDGEMENT
  BY <1>1, <1>4, UnacknowledgeLeaves
<1>5. CASE update_comments
  <2>1. \A i \in Items : Ids(i)' = Ids(i) \ dying
    BY <1>1, <1>5, UpdateIs
  <2>2. dying' = dying
    BY <1>5 DEF update_comments
  <2> QED
    BY <2>1, <2>2
<1>6. CASE DeleteStep \/ Reload
  <2>1. UNCHANGED comments
    BY <1>6 DEF DeleteStep, DeleteComments, Reload
  <2> QED
    BY <2>1, SameIds
<1> QED
  BY <1>2, <1>3, <1>4, <1>5, <1>6, Kinds, OthersKeepComments

\* OnlyMarkedLeave: no step takes a comment from its item that nobody marked for
\* deletion (external_command.py, update_downtimes_and_comments of scheduler.py).
\* CommentsStay is more than the property asks: a reload keeps every comment.
THEOREM CommentsLeaveMarked == Spec => OnlyMarkedLeave
<1> DEFINE Stays(i) == \A k \in DOMAIN comments[i] :
                         \/ comments[i][k].id \in Ids(i)' \cup dying'
                         \/ Reload /\ ~comments[i][k].persistent
<1>1. ASSUME IInv, Next, NEW i \in Items PROVE Stays(i)
  BY <1>1, CommentsStay DEF Ids
<1>2. IInv /\ [Next]_vars => [\A i \in Items : Stays(i)]_vars
  BY <1>1
<1> QED
  BY <1>2, Invariance, PTL DEF Spec, OnlyMarkedLeave

=============================================================================
