---------------------------- MODULE MCDiscovery ----------------------------
EXTENDS Discovery

P(op, key, v) == [op |-> op, key |-> key, v |-> v]
L(name, key, v) == [name |-> name, key |-> key, v |-> v]
R(name, order, type, params) ==
    [name |-> name, order |-> order, type |-> type, params |-> params]
S(name, params) == [name |-> name, params |-> params]

MCBaseName == [n \in {"h", "h.d", "g", "f"} |-> IF n = "h.d" THEN "h" ELSE n]

\* Two rules of templates in the file's order, one that removes, a service.
MCRuleSets ==
    {<<R("http", 1, "host", <<P("", "port", <<"80">>), P("+", "use", <<"http">>)>>),
       R("linux", bt[1], "host", <<P("", "os", <<"linux">>)>> \o w),
       R("router", 3, "host", <<P("", "vendor", <<"rb">>), P("!", "os", <<"win">>),
                                P("+", "use", <<"router">>), P("-", "use", <<"linux">>)>>),
       R("web", 4, bt[2], <<P("", "port", <<"80">>), P("", "service_description", <<"Web">>)>>)>> :
        bt \in {<<2, "service">>, <<5, "other">>},
        w \in {<<P("+", "use", <<"linux", "http">>)>>, <<P("", "use", <<"linux">>)>>,
               <<P("-", "use", <<"http">>), P("+", "use", <<"linux">>)>>,
               <<P("+", "_M", <<"m">>)>>}}

MCRuns ==
    {<<S("scan", <<>>),
       S("snmp", <<P("", "use", <<"http">>)>>),
       S("deep", <<P("", "os", <<"linux">>), P("!", "use", <<"router">>)>>)>>}

Hosts == {"h", "h.d", "g", "f"}
MCPrints ==
    {[scan |-> [n \in Hosts \cup {None} |->
            IF n = None THEN first ELSE <<>>],
      snmp |-> [n \in Hosts \cup {None} |-> IF n = None THEN <<>> ELSE
            IF n = "h" THEN <<L("h.d", "os", <<"linux">>)>> ELSE <<L("h", "_M", <<"y">>)>>],
      deep |-> [n \in Hosts \cup {None} |-> IF n = None THEN <<>> ELSE
            <<L(n, "vendor", <<"rb">>), L(n, "_M", <<"x">>)>>]] :
      first \in {<<L("h.d", "port", <<"22", "80">>), L("g", "os", <<"linux">>)>>,
                 <<L("h.d", "ip", <<"1.2">>), L("h.d", "port", <<"80">>), L("g", None, <<>>),
                   L("f", "port", <<"80">>), L("f", "_M", <<"x">>)>>}}

MCSetups ==
    {[rules |-> r, runs |-> s, prints |-> p, allowed |-> a, strip |-> o[1], merge |-> o[2],
      first_level_only |-> o[3], overwrite |-> o[4], files |-> f,
      db |-> o[4], direct |-> o[1], only_new |-> o[3]] :
        r \in MCRuleSets, s \in MCRuns, p \in MCPrints, a \in {{"*"}, {"scan"}},
        f \in {Put(Empty, <<"g", "g">>, Empty)},
        o \in {<<TRUE, FALSE, FALSE, TRUE>>, <<TRUE, TRUE, FALSE, FALSE>>,
               <<FALSE, FALSE, FALSE, TRUE>>, <<TRUE, FALSE, TRUE, FALSE>>}}
=============================================================================
