-------------------------- MODULE MCBusinessRules --------------------------
EXTENDS BusinessRules

MCHostOf == [x \in RuleItems |-> "h"]
MCMember == [g |-> {"s", "t", "h"}]
Num(n) == <<Value(n, FALSE)>>
Pct(n) == <<Value(n, TRUE)>>
Pair == <<Leaf("s"), Leaf("t")>>
Triple == <<Leaf("s"), Leaf("t"), Leaf("h")>>
MCRules ==
    {Leaf("h"), Sel("g"), Not(Sel("g")), Not(Leaf("h"))}
    \cup {All(<<Leaf("h"), b>>) : b \in {All(Pair), Of(Num(1), Pair), Not(All(Pair))}}
    \cup {Not(Either(<<Leaf("s"), b>>)) : b \in {Either(<<Leaf("h"), Leaf("t")>>), Not(Leaf("t"))}}
    \cup {Of(v, <<Leaf("s"), Leaf("t"), Either(<<Leaf("t"), Leaf("h")>>)>>) :
            v \in {Num(2), Macro,
                   <<Value(3, FALSE), Value(1, FALSE), Value(2, FALSE)>>,
                   <<Value(50, TRUE), Value(40, TRUE), Value(-50, TRUE)>>}}
    \cup {Of(v, <<Sel("g")>>) : v \in {Num(-1), Pct(60), Macro}}
    \cup {All(<<Leaf("h"), Of(Macro, Triple)>>), Either(<<Not(Of(Num(-1), Triple)), Leaf("h")>>)}
Day == Num(2)
Night == Num(-2)
Init == InitRules
Next == NextRules
Spec == Init /\ [][Next]_ruleVars
=============================================================================
