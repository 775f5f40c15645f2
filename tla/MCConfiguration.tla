-------------------------- MODULE MCConfiguration --------------------------
(***************************************************************************)
(* How a configuration comes to be and what it means: what the arbiter     *)
(* does with its files before it dispatches them, the discovery that       *)
(* writes such files, the macros, periods and rules that are evaluated     *)
(* when it runs, and the objects that a broker module rebuilds from it.    *)
(* The components share no state.  A behaviour is one of the component     *)
(* that `topic' names; the variables x1, x2, ... are that component's.     *)
(***************************************************************************)

EXTENDS Integers, Sequences, FiniteSets, SequencesExt, TLC

CONSTANTS Nil, ReadingCases, ServiceConfigurations, DiscoverySetups, DiscoveryBaseName,
    MacroCases,
          RuleMember, RuleHostOf, RuleRules, RuleByDay, RuleByNight

VARIABLES
    topic,      \* the component that this behaviour is one of
    \* its variables; those that it does not use are Nil
    x1, x2, x3, x4, x5, x6, x7, x8, x9, x10, x11, x12, x13, x14, x15, x16

-----------------------------------------------------------------------------
\* The files are read (Config.read_config).

Reading == INSTANCE MCConfigReading WITH disk <- x1, split <- x2, stage <- x3, files <- x4,
    buf <- x5, correct <- x6, dirs <- x7, line_nb <- x8, define <- x9, tmp_line <- x10,
    objects <- x11, params <- x12, settings <- x13, None <- Nil, Cases <- ReadingCases
ReadingRest == <<x14, x15, x16>>

-----------------------------------------------------------------------------
\* Templates, groups and conflicts of objects.

Obj(n, tpl, order, use, c, g, cmd, cust) ==
    [name |-> n, tpl |-> tpl, order |-> order, use |-> use, contacts |-> c, groups |-> g,
     cmd |-> cmd, cust |-> cust]
PlainList(S) == <<[plus |-> FALSE, vals |-> S]>>
PlusList(S) == <<[plus |-> TRUE, vals |-> S]>>
ObjTemplate(n, use, c, cmd) ==
    Obj(n, TRUE, 1, use, c, {}, cmd, IF cmd = "null" THEN "" ELSE cmd)
ObjHost(n, use, c, g, cmd) == Obj(n, FALSE, 1, use, c, g, cmd, "")
ObjGroup(m, g) == [members |-> m, groups |-> g]

ObjGroups == [g |-> ObjGroup({"b"}, {"k"}), k |-> ObjGroup({"c"}, {}),
              l |-> ObjGroup({"a"}, {"g", "k"})]
ObjLoop == [g |-> ObjGroup({"b"}, {"k"}), k |-> ObjGroup({"c"}, {"g"}),
            l |-> ObjGroup({"a"}, {"g"})]

ObjConfigurations ==
    LET Conf(kind, objs, groups) == [kind |-> kind, objects |-> objs, groups |-> groups]
        C == {<<>>, PlainList({"a"}), PlusList({"b"})}
    IN  \* two templates over one another, two hosts
        {Conf("host", <<ObjTemplate("t", <<"u">>, c1, cmd), ObjTemplate("u", <<>>, c2, "x"),
                        ObjHost("h", <<"t">>, c3, {}, ""),
                            ObjHost("i", <<"u">>, <<>>, {"g"}, "null")>>, ObjGroups) :
            c1 \in C, c2 \in C, c3 \in C, cmd \in {"", "y", "null"}}
        \* two templates side by side, of a template and a host
        \cup {Conf("host", <<ObjTemplate("t", <<>>, c1, ""), ObjTemplate("u", <<>>, c2, "y"),
                             ObjTemplate("v", <<"t", "u">>, c3, ""),
                                 ObjHost("h", <<"v", "u">>, <<>>, {"l"}, "")>>,
                   ObjLoop) : c1 \in C, c2 \in C, c3 \in C}
        \* the same name several times
        \cup {Conf("host", <<Obj("h", FALSE, i, <<"t">>, <<>>, {}, "", ""),
                             Obj("h", FALSE, j, <<>>, <<>>, {}, "z", ""),
                             Obj("h", FALSE, k, <<>>, PlainList({"d"}), {"no"}, "", ""),
                                 ObjTemplate("t", <<>>, <<>>, "x")>>,
                   ObjGroups) : i \in 1..2, j \in 1..3, k \in 1..3}
        \* contacts, and loops
        \cup {Conf("contact",
                   <<ObjTemplate("t", <<>>, <<>>, "x"), ObjHost("h", <<"t">>, <<>>, {}, cmd)>>,
                       ObjLoop) :
                cmd \in {"", "z", "null"}}
        \cup {Conf("host",
                   <<ObjTemplate("t", <<"u">>, <<>>, ""), ObjTemplate("u", <<"t">>, <<>>, ""),
                     ObjHost("h", use, <<>>, {}, "")>>,
                   ObjLoop) : use \in {<<>>, <<"t">>}}

Objs == INSTANCE Objects WITH definitions <- x1, left <- x2, items <- x3, templates <- x4,
    links <- x5, attrs <- x6, plus <- x7, lists <- x8, members <- x9, exploded <- x10,
        todo <- x11,
    stage <- x12, Known <- {"a", "b", "c"}, Configurations <- ObjConfigurations
ObjectRest == <<x13, x14, x15, x16>>

-----------------------------------------------------------------------------
\* Services of hosts, groups and templates.

Serv == INSTANCE MCServices WITH conf <- x1, members <- x2, exploded <- x3, objs <- x4,
    items <- x5,
    index <- x6, deps <- x7, realm <- x8, errors <- x9, todo <- x10, stage <- x11,
    Configurations <- ServiceConfigurations
ServiceRest == <<x12, x13, x14, x15, x16>>

-----------------------------------------------------------------------------
\* Host and service dependencies.

HostDep(h, g, dh, dg, inh, p) ==
    [kind |-> "host", hosts |-> h, groups |-> g, depHosts |-> dh, depGroups |-> dg,
     inherits |-> inh, period |-> p,
     exec |-> {"d"}, notif |-> {"d"}]
ServiceDep(h, g, f, dh, dg, s, ex) ==
    [kind |-> "service", hosts |-> h, groups |-> g, descs |-> f, depHosts |-> dh,
     depGroups |-> dg, depDescs |-> s,
     explode |-> ex, inherits |-> TRUE, period |-> Nil, exec |-> {"c"}, notif |-> {"c"}]

DepHosts == {"a", "b", "c"}
DepHostgroups == [g |-> {"a", "b"}, e |-> {}]
DepServices == {<<"a", "db">>, <<"a", "web">>, <<"b", "db">>, <<"b", "web">>}
DepSetup(S, x, lists, ds) ==
    [hosts |-> DepHosts, groups |-> DepHostgroups, services |-> S, excluded |-> x,
     lists |-> lists, definitions |-> ds]

\* Chains and loops of hosts.
DepOfHosts ==
    {DepSetup({}, {}, <<>>, ds) : ds \in
        {<<HostDep({"a"}, Nil, {"b"}, Nil, i, p),
           HostDep({"b"}, Nil, {"c"}, Nil, TRUE, q)>> :
            i \in BOOLEAN, p \in {Nil, "night"}, q \in {Nil, "night"}}
        \cup {<<HostDep({"c"}, {"g"}, {"c"}, Nil, TRUE, Nil)>>,
              <<HostDep(Nil, {"g"}, {"c"}, Nil, TRUE, Nil)>>,
              <<HostDep(Nil, {"x"}, {"c"}, Nil, TRUE, Nil)>>,
                  <<HostDep({"z"}, Nil, {"c"}, Nil, TRUE, Nil)>>,
              <<HostDep({"a"}, Nil, {"b"}, Nil, TRUE, Nil),
                HostDep({"b"}, Nil, {"a"}, Nil, TRUE, Nil)>>,
              <<HostDep({"a"}, Nil, {"c"}, Nil, TRUE, Nil),
                HostDep({"a"}, Nil, {"c"}, Nil, FALSE, "night")>>}}

\* Definitions of services, with what they name and what they leave out.
DepOfServices ==
    {DepSetup(S, DepServices \ S, <<>>, <<ServiceDep(h, g, {"db"}, dh, dg, {"web"}, ex)>>) :
        S \in {DepServices, DepServices \ {<<"a", "db">>}}, h \in {Nil, {"a"}},
            g \in {Nil, {"g"}, {"e"}, {"x"}},
        dh \in {Nil, {"b"}}, dg \in {Nil, {"g"}}, ex \in BOOLEAN}
    \cup {DepSetup(DepServices, {}, [s \in {<<"b", "web">>} |-> <<"", "db", "a", "db">>],
               <<ServiceDep(Nil, {"g"}, {"db"}, Nil, Nil, {"web"}, TRUE)>>),
          DepSetup(DepServices, {}, [s \in {<<"b", "web">>} |-> <<"", "db">>],
               <<ServiceDep({"b"}, Nil, {"web"}, Nil, Nil, {"db"}, TRUE)>>)}
DepSetups == DepOfHosts \cup DepOfServices

Deps == INSTANCE Dependencies WITH setup <- x1, phase <- x2, todo <- x3, deps <- x4,
    errors <- x5,
    act <- x6, actOfMe <- x7, chk <- x8, sons <- x9, fathers <- x10, state <- x11, valid <- x12,
    steps <- x13, None <- Nil, MaxSteps <- 3, States <- {"o", "c", "d"}, Setups <- DepSetups
DependencyRest == <<x14, x15, x16>>

-----------------------------------------------------------------------------
\* Realms and their satellites.

Satellite(n, k, r, spare, sub) == [name |-> n, kind |-> k, realm |-> r, spare |-> spare,
                                   sub |-> sub]
RealmSetup(realms, members, default, sats, parts, complete) ==
    [realms |-> realms, members |-> members, default |-> default, sats |-> sats,
     parts |-> parts,
     complete |-> complete]

RealmScheduler(n, r) == Satellite(n, "scheduler", r, FALSE, FALSE)
RealmSpare == Satellite("spare", "scheduler", "all", TRUE, FALSE)
RealmPoller(n, r, sub) == Satellite(n, "poller", r, FALSE, sub)
RealmBroker(n, r) == Satellite(n, "broker", r, FALSE, TRUE)

\* The shapes of three and four realms: a chain, a fork, two ways, a loop.
RealmShapes ==
    {[all |-> <<"eu">>, eu |-> <<"fr">>, fr |-> <<>>],
     [all |-> <<"eu", "fr">>, eu |-> <<>>, fr |-> <<>>],
     [all |-> <<"eu", "fr">>, eu |-> <<"fr">>, fr |-> <<>>],
     [all |-> <<"eu", "eu">>, eu |-> <<"nowhere">>, fr |-> <<>>],
     [all |-> <<>>, eu |-> <<"fr">>, fr |-> <<"eu">>],
     [all |-> <<"eu", "us">>, eu |-> <<"fr">>, fr |-> <<>>, us |-> <<"fr">>]}
RealmOrders(m) == {q \in {SetToSeq(DOMAIN m), Reverse(SetToSeq(DOMAIN m))} : TRUE}

RealmForms ==
    UNION {{RealmSetup(q, m, d,
                       <<RealmScheduler("s", "all"), RealmPoller("p", Nil, TRUE),
                         RealmBroker("b", "all")>>, [p \in {1} |-> "all"], FALSE)
            : q \in RealmOrders(m), d \in {{}, {"all"}, {"all", "eu"}}} : m \in RealmShapes}

RealmChain == [all |-> <<"eu">>, eu |-> <<"fr">>, fr |-> <<>>]
RealmFork == [all |-> <<"eu", "fr">>, eu |-> <<>>, fr |-> <<>>]
RealmOrder == <<"fr", "all", "eu">>

RealmSetups ==
    RealmForms \cup
    {RealmSetup(<<>>, <<>>, {}, <<>>, <<>>, FALSE),
     RealmSetup(RealmOrder, RealmChain, {"all"},
          <<RealmScheduler("s", "fr"), RealmSpare, RealmPoller("p", "all", TRUE),
            Satellite("q", "poller", "eu", TRUE, TRUE), RealmBroker("b", "all")>>,
          [p \in {1} |-> "fr"], FALSE),
     RealmSetup(RealmOrder, RealmFork, {"all"},
          <<RealmScheduler("s", "eu"), RealmScheduler("t", "fr"), RealmSpare,
            RealmPoller("p", "eu", FALSE), RealmPoller("q", "all", TRUE),
                RealmBroker("b", "all"),
            RealmBroker("c", "all")>>,
          [p \in {1, 2} |-> IF p = 1 THEN "eu" ELSE "fr"], FALSE),
     RealmSetup(RealmOrder, RealmChain, {"all"},
          <<RealmScheduler("s", "eu"), RealmScheduler("t", "all"), RealmPoller("p", "fr", FALSE),
            RealmPoller("q", "all", FALSE), RealmBroker("b", "eu"),
            Satellite("c", "broker", "all", FALSE, TRUE),
                Satellite("d", "broker", "all", TRUE, TRUE)>>,
          [p \in {1, 2} |-> IF p = 1 THEN "eu" ELSE "all"], TRUE)}

Rlms == INSTANCE Realms WITH setup <- x1, phase <- x2, tags <- x3, higher <- x4,
    registered <- x5,
    must <- x6, potential <- x7, alive <- x8, st <- x9, settled <- x10, faults <- x11,
        None <- Nil,
    MaxFaults <- 2, Setups <- RealmSetups
RealmRest == <<x12, x13, x14, x15, x16>>

-----------------------------------------------------------------------------
\* The configuration is cut into parts and sent.

CutHosts == <<1, 2, 3>>
CutRealms == <<"r1", "r2">>

\* Chains, forks and loops of two or three hosts, a loop that a host leads to,
\* and a host that is its own parent.
CutRelations == SUBSET {<<1, 2>>, <<2, 1>>, <<2, 3>>, <<3, 1>>}
                \cup {{<<2, 2>>}, {<<1, 2>>, <<2, 2>>, <<3, 2>>},
                       {<<1, 2>>, <<2, 3>>, <<3, 2>>}, {<<2, 1>>, <<2, 3>>, <<3, 2>>}}

CutScheduler(r, spare) == [realm |-> r, spare |-> spare, weight |-> 1]

\* Two schedulers and one; one and none but a spare; two in one realm only.
CutFarms == { (0 :> CutScheduler("r1", FALSE)) @@ (1 :> CutScheduler("r1", FALSE))
             @@ (2 :> CutScheduler("r2", FALSE)),
             (0 :> CutScheduler("r1", FALSE)) @@ (1 :> CutScheduler("r2", TRUE)),
             (0 :> CutScheduler("r2", FALSE)) @@ (1 :> CutScheduler("r1", FALSE))
                 @@ (2 :> CutScheduler("r2", FALSE)) }

CutGraph == INSTANCE HostGraph
CutLoops(links) == CutGraph!loop_check(CutGraph!GraphOf(CutHosts, links))
CutPacks(links) == CutGraph!get_accessibility_packs(CutGraph!GraphOf(CutHosts, links))
CutReach(links, S) == CutGraph!Reach(links, S)

Cutting == INSTANCE Cut WITH phase <- x1, parents <- x2, realm <- x3, schedulers <- x4,
    multi <- x5,
    errors <- x6, todo <- x7, packs <- x8, assoc <- x9, confs <- x10, rconfs <- x11,
    children <- x12, rnow <- x13, q <- x14, sent <- x15, deaths <- x16, None <- "none",
    Places <- {"r1", "r2", "none"}, DefaultRealm <- "r1", MaxDeaths <- 1, HostSeq <- CutHosts,
    RealmSeq <- CutRealms, Farms <- CutFarms, Relations <- CutRelations,
    loop_check <- CutLoops, get_accessibility_packs <- CutPacks, Reach <- CutReach

-----------------------------------------------------------------------------
\* Hosts are discovered and their configuration is written.

Disc == INSTANCE MCDiscovery WITH setup <- x1, phase <- x2, disco_data <- x3, launch <- x4,
    todo <- x5, still_loop <- x6, said <- x7, files <- x8, db <- x9, None <- Nil,
    Props <- {"use", "service_description", "address"}, Macros <- {"_M"},
        Setups <- DiscoverySetups,
    BaseName <- DiscoveryBaseName
DiscoveryRest == <<x10, x11, x12, x13, x14, x15, x16>>

-----------------------------------------------------------------------------
\* The macros of a command line are resolved.

MacroOf(w) == <<"$", w, "$">>
MacroNoCustoms == [n \in {} |-> <<>>]

MacroKinds ==
    [A |-> [type |-> "ARGN", n |-> 1], Z |-> [type |-> "ARGN", n |-> 0],
     B |-> [type |-> "CUSTOM", cls |-> "host", name |-> "MAC"],
     C |-> [type |-> "class"], D |-> [type |-> "ONDEMAND", name |-> "STATE", elt |-> ""]]

MacroData(b, mods) ==
    <<[cls |-> "host", name |-> "h", customs |-> [MAC |-> b],
       modulations |-> mods, macros |-> [C |-> <<"old">>]],
      [cls |-> "config", name |-> "conf", customs |-> MacroNoCustoms,
       modulations |-> <<>>, macros |-> [C |-> <<"c", ";">>]]>>

MacroMod(active, v) == [active |-> active, customs |-> [MAC |-> v]]

MacroLines == UNION {[1..n -> {"$", "A", "B", "t"}] : n \in 0..4}
            \cup {MacroOf("A") \o MacroOf("B"), MacroOf("A") \o <<"$", "$">> \o MacroOf("B")}
            \cup {MacroOf("A") \o <<"t">> \o MacroOf(w) \o <<"t">> \o MacroOf("B") : w \in {"C", "D", "Z", "U"}}
MacroValues ==
    {<<a, b>> \in {<<"x">>, MacroOf("B"), <<"x">> \o MacroOf("C"), <<"x", "$", "$">>, MacroOf("A")}
                  \X {<<"y">>, MacroOf("C"), MacroOf("C") \o <<"y">> \o MacroOf("D"), MacroOf("A")} : TRUE}
MacroNoMods == <<>>
MacroMods == {<<MacroMod(a, <<"m">>), MacroMod(b, <<"n">>)>> : a, b \in BOOLEAN}

MacroCase(line, v, mods, call) ==
    [line |-> line, kinds |-> MacroKinds, data |-> MacroData(v[2], mods), args |-> <<v[1]>>,
     others |-> [p \in {<<"STATE", "h">>} |-> <<"up">>], illegal |-> {";"}, output |-> {"C"}, call |-> call]

MacroCalls == UNION {[1..n -> {"c", "!", "\\"}] : n \in 0..6}

MCMacroCases ==
    {{MacroCase(l, v, MacroNoMods, <<>>) : l \in MacroLines} : v \in MacroValues}
    \cup {{MacroCase(l, <<<<"x">>, <<"y">>>>, m, <<>>) :
              l \in {MacroOf("B"), MacroOf("A") \o MacroOf("B")}, m \in MacroMods},
          {MacroCase(<<>>, <<<<"x">>, <<"y">>>>, MacroNoMods, c) : c \in MacroCalls}}

Macr == INSTANCE Macros WITH case <- x1, c_line <- x2, nb_loop <- x3, still_got_macros <- x4,
    resolved <- x5, MaxLoop <- 5, Cases <- MacroCases
MacroRest == <<x6, x7, x8, x9, x10, x11, x12, x13, x14, x15, x16>>

-----------------------------------------------------------------------------
\* Time periods are asked for valid times.

PeriodMonthStart == <<0, 4, 7, 11>>
AllDay == << <<0, 3>> >>
PeriodSide(y, m, w, k) == [y |-> y, m |-> m, w |-> w, k |-> k]
PeriodEntry(kind, from, to, skip, ranges) ==
    [kind |-> kind, from |-> from, to |-> to, skip |-> skip, ranges |-> ranges]
PeriodEntries == {
    PeriodEntry("standard", PeriodSide(0, 0, 1, 0), <<>>, 0, << <<1, 1>> >>),
    PeriodEntry("standard", PeriodSide(0, 0, 2, 0), <<>>, 0, << <<0, 0>>, <<2, 3>> >>),
    PeriodEntry("calendar", PeriodSide(1, 2, 0, 2), <<PeriodSide(2, 1, 0, 2)>>, 0,
                << <<1, 3>> >>),
    PeriodEntry("monthdate", PeriodSide(0, 1, 0, 2), <<PeriodSide(0, 2, 0, 1)>>, 0, AllDay),
    PeriodEntry("monthdate", PeriodSide(0, 3, 0, 2), <<PeriodSide(0, 1, 0, 1)>>, 0, AllDay),
    PeriodEntry("monthdate", PeriodSide(0, 2, 0, -1), <<>>, 0, AllDay),
    PeriodEntry("monthday", PeriodSide(0, 0, 0, 2), <<[k |-> -1]>>, 0, << <<1, 1>> >>),
    PeriodEntry("monthday", PeriodSide(0, 0, 0, -1), <<[k |-> 1]>>, 0, AllDay),
    PeriodEntry("weekday", PeriodSide(0, 0, 1, 1), <<>>, 0, AllDay),
    PeriodEntry("weekday", PeriodSide(0, 0, 1, -1), <<PeriodSide(0, 0, 0, 1)>>, 0, AllDay),
    PeriodEntry("monthweekday", PeriodSide(0, 2, 0, 1), <<>>, 0, AllDay),
    PeriodEntry("monthweekday", PeriodSide(0, 3, 0, -1), <<PeriodSide(0, 1, 2, 1)>>, 0, AllDay)}
PeriodExcludes == {<<>>,
                   <<<<PeriodEntry("standard", PeriodSide(0, 0, 2, 0), <<>>, 0,
                                   << <<0, 1>> >>)>>>>,
    <<<<PeriodEntry("calendar", PeriodSide(1, 3, 0, 1), <<PeriodSide(1, 3, 0, 3)>>, 0,
                    AllDay)>>>>}

Peri == INSTANCE TimePeriods WITH entry <- x1, dr <- x2, exclude <- x3, now <- x4, cache <- x5,
    isActive <- x6, asked <- x7, answer <- x8, Day <- 3, Minute <- 1, Hour <- 2, Week <- 3,
    LastYear <- 2, MaxDrift <- 2, MonthStart <- PeriodMonthStart, Entries <- PeriodEntries,
    Excludes <- PeriodExcludes
PeriodRest == <<x9, x10, x11, x12, x13, x14, x15, x16>>

-----------------------------------------------------------------------------
\* Business rules are built and evaluated.

Rule == INSTANCE MCBusinessRules WITH rule <- x1, night <- x2, node <- x3, processed <- x4,
    hard <- x5, business_rule_downtime_as_ack <- x6, acked <- x7, downtime <- x8, answer <- x9,
    RuleHosts <- {"h"}, RuleServices <- {"s", "t"}, MaxCared <- 2, Member <- RuleMember,
    HostOf <- RuleHostOf, Rules <- RuleRules, ByDay <- RuleByDay, ByNight <- RuleByNight
RuleRest == <<x10, x11, x12, x13, x14, x15, x16>>

-----------------------------------------------------------------------------
\* The objects of a broker module are regenerated from broks.

RegenNeeds(id) ==
    {[kind |-> "command", name |-> "check"]}
    \cup (IF id = 1 THEN {[kind |-> "timeperiod", name |-> "always"]}
          ELSE {[kind |-> "contact", name |-> "x"]})
RegenHost(i, id, g) == [instance |-> i, id |-> id, groups |-> g, needs |-> RegenNeeds(id),
                        version |-> 0]

\* Hosts that move, change groups, come and go; the last one numbers them
\* anew.
RegenConfigurations ==
    {[hosts |-> [a |-> RegenHost(1, 1, {"g"}), b |-> RegenHost(2, 2, {"g"})], services |-> {"d"},
      contacts |-> {"x"}],
     [hosts |-> [a |-> RegenHost(2, 1, {"g", "k"}), b |-> RegenHost(2, 2, {})],
      services |-> {"e"}, contacts |-> {"y"}],
     [hosts |-> [a |-> RegenHost(2, 1, {"g"}), b |-> RegenHost(1, 2, {"k"})], services |-> {"d"},
      contacts |-> {}],
     [hosts |-> [b |-> RegenHost(1, 1, {"g"})], services |-> {}, contacts |-> {"x"}]}

Regen == INSTANCE Regenerator WITH conf <- x1, version <- x2, streams <- x3, round <- x4,
    configs <- x5, inp <- x6, hosts <- x7, services <- x8, attrs <- x9, hostOf <- x10,
    hostgroups <- x11, servicegroups <- x12, contactgroups <- x13, known <- x14, onHost <- x15,
    history <- x16, Instances <- {1, 2}, Taken <- {0, 3, 8}, MaxConfs <- 2, MaxUpdates <- 1,
    Configurations <- RegenConfigurations

-----------------------------------------------------------------------------
\* The values of the constants: the inputs that the modules MC... list, out of
\* instances that are in no state.
ReadingInputs == INSTANCE MCConfigReading WITH disk <- 0, split <- 0, stage <- 0,
    files <- 0, buf <- 0, correct <- 0, dirs <- 0, line_nb <- 0, define <- 0,
    tmp_line <- 0, objects <- 0, params <- 0, settings <- 0, None <- Nil, Cases <- {}
ServInputs == INSTANCE MCServices WITH conf <- 0, members <- 0, exploded <- 0,
    objs <- 0, items <- 0, index <- 0, deps <- 0, realm <- 0, errors <- 0, todo <- 0,
    stage <- 0, Configurations <- {}
DiscInputs == INSTANCE MCDiscovery WITH setup <- 0, phase <- 0, disco_data <- 0,
    launch <- 0, todo <- 0, still_loop <- 0, said <- 0, files <- 0, db <- 0,
    None <- Nil, Props <- {"use", "service_description", "address"}, Macros <- {"_M"},
    Setups <- {}, BaseName <- <<>>
RuleInputs == INSTANCE MCBusinessRules WITH rule <- 0, night <- 0, node <- 0,
    processed <- 0, hard <- 0, business_rule_downtime_as_ack <- 0, acked <- 0,
    downtime <- 0, answer <- 0, RuleHosts <- {"h"}, RuleServices <- {"s", "t"},
    MaxCared <- 2, Member <- <<>>, HostOf <- <<>>, Rules <- {}, ByDay <- <<>>,
    ByNight <- <<>>

MCReadingCases == ReadingInputs!MCCases
MCServiceConfigurations == ServInputs!MCConfigurations
MCDiscoverySetups == DiscInputs!MCSetups
MCDiscoveryBaseName == DiscInputs!MCBaseName
MCRuleMember == RuleInputs!MCMember
MCRuleHostOf == RuleInputs!MCHostOf
MCRuleRules == RuleInputs!MCRules
MCRuleByDay == RuleInputs!Day
MCRuleByNight == RuleInputs!Night

-----------------------------------------------------------------------------
\* The component of this behaviour has less than k variables.
IdleFrom(k) ==
    /\ (k <= 6 => x6 = Nil) /\ (k <= 7 => x7 = Nil) /\ (k <= 8 => x8 = Nil)
    /\ (k <= 9 => x9 = Nil) /\ (k <= 10 => x10 = Nil) /\ (k <= 11 => x11 = Nil)
    /\ (k <= 12 => x12 = Nil) /\ (k <= 13 => x13 = Nil) /\ (k <= 14 => x14 = Nil)
    /\ (k <= 15 => x15 = Nil) /\ (k <= 16 => x16 = Nil)

Init ==
    \/ topic = "reading" /\ Reading!Init /\ IdleFrom(14)
    \/ topic = "objects" /\ Objs!Init /\ IdleFrom(13)
    \/ topic = "services" /\ Serv!Init /\ IdleFrom(12)
    \/ topic = "dependencies" /\ Deps!Init /\ IdleFrom(14)
    \/ topic = "realms" /\ Rlms!Init /\ IdleFrom(12)
    \/ topic = "cut" /\ Cutting!Init
    \/ topic = "discovery" /\ Disc!Init /\ IdleFrom(10)
    \/ topic = "macros" /\ Macr!Init /\ IdleFrom(6)
    \/ topic = "periods" /\ Peri!Init /\ IdleFrom(9)
    \/ topic = "rules" /\ Rule!Init /\ IdleFrom(10)
    \/ topic = "regenerator" /\ Regen!Init

Next ==
    \/ topic = "reading" /\ Reading!Next /\ UNCHANGED <<topic, ReadingRest>>
    \/ topic = "objects" /\ Objs!Next /\ UNCHANGED <<topic, ObjectRest>>
    \/ topic = "services" /\ Serv!Next /\ UNCHANGED <<topic, ServiceRest>>
    \/ topic = "dependencies" /\ Deps!Next /\ UNCHANGED <<topic, DependencyRest>>
    \/ topic = "realms" /\ Rlms!Next /\ UNCHANGED <<topic, RealmRest>>
    \/ topic = "cut" /\ Cutting!Next /\ UNCHANGED topic
    \/ topic = "discovery" /\ Disc!Next /\ UNCHANGED <<topic, DiscoveryRest>>
    \/ topic = "macros" /\ Macr!Next /\ UNCHANGED <<topic, MacroRest>>
    \/ topic = "periods" /\ Peri!Next /\ UNCHANGED <<topic, PeriodRest>>
    \/ topic = "rules" /\ Rule!Next /\ UNCHANGED <<topic, RuleRest>>
    \/ topic = "regenerator" /\ Regen!Next /\ UNCHANGED topic

vars == <<topic, x1, x2, x3, x4, x5, x6, x7, x8, x9, x10, x11, x12, x13, x14, x15, x16>>

Spec == Init /\ [][Next]_vars

\* The fairness of the components, as their own specifications state it.
LiveSpec ==
    /\ Spec
    /\ WF_(Cutting!vars)(topic = "cut" /\ Cutting!Next)
    /\ WF_(Disc!vars)(topic = "discovery" /\ Disc!Next)
    /\ WF_(Macr!macroVars)(topic = "macros" /\ Macr!Next)

-----------------------------------------------------------------------------
\* What the files say is what the objects are: nothing of one file runs into the
\* next, what cannot be read is told, of several objects of a name the lowest
\* order is kept, templates give what is missing, and groups of groups give all
\* their members (Config.read_config, Items.apply_inheritance, explode).
ReadAsMeant ==
    /\ topic = "reading" =>
         /\ Reading!ObjectsAreRead /\ Reading!BadFileIsTold /\ Reading!CutAtSemicolons
    /\ topic = "objects" =>
         /\ Objs!LowestOrderWins /\ Objs!InheritsWhatIsMeant /\ Objs!ContactsAreTold
         /\ Objs!GroupsAreComplete

\* What objects say of one another is what is linked: the services of hosts and
\* groups, their overrides and realms, and the dependencies, which block exactly
\* along their chains and are known on both sides (Services.explode, linkify,
\* do_i_raise_dependency).
LinkedAsMeant ==
    /\ topic = "services" =>
         /\ Serv!LowestIsFound /\ Serv!ServicesAreMeant /\ Serv!OverridesWin
         /\ Serv!RealmIsMeant
    /\ topic = "dependencies" =>
         /\ Deps!DependsAsMeant /\ Deps!BlockedByChain /\ Deps!BothSidesKnow

\* The parts that are dispatched hold every host once, in its realm, with those it
\* is related to, loops of parents and of realms are refused and nothing else is,
\* and enough satellites run each part (create_packs, prepare_for_sending,
\* Realms.explode, check_dispatch).
PartsAreComplete ==
    /\ topic = "realms" =>
         /\ Rlms!ExplosionTells /\ Rlms!EnoughRun /\ Rlms!BrokerIsLinked
    /\ topic = "cut" =>
         /\ Cutting!LoopFound /\ Cutting!PacksAreRelated /\ Cutting!EveryHostOnce
         /\ Cutting!SentIsComplete

\* What is evaluated while the configuration runs is what it says: a command line
\* whatever the order of its macros, a period at every time it is asked for, and a
\* business rule in every state of its members (resolve_simple_macros_in_string,
\* get_next_valid_time_from_t, DependencyNode.get_state).
EvaluatedAsMeant ==
    /\ topic = "macros" =>
         /\ Macr!ResolvedAsMeant /\ Macr!ArgsAreSplit
    /\ topic = "periods" =>
         /\ Peri!RightInItsYear /\ Peri!AlwaysRight /\ Peri!NextIsFirst
    /\ topic = "rules" =>
         /\ Rule!RuleIsKept /\ Rule!SmartlySilent

\* What others tell in any order is shown whole: a discovered host has all that was
\* printed of it and the file its rules say, and the objects a broker module
\* rebuilds from interleaved broks are those of the last configuration
\* (discoverymanager.py, regenerator.py).
ShownAsFound ==
    /\ topic = "discovery" =>
         /\ Disc!NothingMissed /\ Disc!HostIsAsRuled
    /\ topic = "regenerator" =>
         /\ Regen!ShownIsConfigured /\ Regen!GroupsAreRight /\ Regen!LinksAreCurrent

\* The programs that work through a configuration come to their end: the arbiter
\* loads it, though children of it may die (config.py), the discovery runs out of
\* scripts to launch (discoverymanager.py:423), and the macros of a line are
\* resolved, those that hold themselves too (macroresolver.py:197).
ProgramsEnd ==
    <>(/\ topic = "cut" => Cutting!Loaded
       /\ topic = "discovery" => Disc!Over
       /\ topic = "macros" => Macr!Resolved)
=============================================================================
