---------------------------- MODULE MCItemState ----------------------------
EXTENDS ItemState

MCLink(son, dep, status, type, period) ==
    [son |-> son, dep |-> dep, status |-> status, type |-> type,
     period |-> period]

\* A server behind a router, and a service of the server.
MCHost == {"router", "server"}
MCService == {"http"}
MCDep ==
    <<MCLink("server", "router", {"d", "u", "s", "f"}, "network_dep", None),
      MCLink("http", "server", {"d", "u", "s", "f"}, "network_dep", None)>>
MCPeriod == {"night"}
MCModulation == [http |-> <<"night", 3>>]
MCAttempts == [router |-> 1, server |-> 1, http |-> 2]
MCImpact == [router |-> 1, server |-> 1, http |-> 2]
MCExit == [router |-> {0, 1}, server |-> {0, 3}, http |-> 0..3]
MCNone == {}
MCWants == {"server"}
=============================================================================
