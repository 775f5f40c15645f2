----------------------------- MODULE MCArbiter ------------------------------
(* Two schedulers with a part each; commands by both ways.                 *)
EXTENDS Arbiter

MCPartSeq == <<"p1", "p2">>
MCFirstAssigned == [p \in {"p1", "p2"} |-> IF p = "p1" THEN "s1" ELSE "s2"]

Cmd(to, by) == [to |-> to, by |-> by]

Plan(direct, cmds) == [direct |-> direct, cmds |-> cmds]

MCPlans ==
    {Plan(TRUE, <<Cmd("p1", "receiver"), Cmd("p2", "receiver")>>),
     Plan(TRUE, <<Cmd("p1", "receiver"), Cmd("p1", "receiver")>>),
     Plan(TRUE, <<Cmd("p1", "module"), Cmd("p1", "module")>>),
     Plan(TRUE, <<Cmd("group", "receiver"), Cmd("all", "module")>>),
     Plan(FALSE, <<Cmd("p1", "receiver")>>)}
=============================================================================
