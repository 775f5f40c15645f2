--------------------------- MODULE BusinessRules ---------------------------
(***************************************************************************)
(* Business rules: dependencynode.py and the part of schedulingitem.py     *)
(* that keeps and evaluates the rule of a host or service.                 *)
(*                                                                         *)
(* A rule is written as an expression over hosts and services.  The        *)
(* factory cuts the text into a tree of nodes and the check of the item    *)
(* asks the root node for its state, after it has read the rule again when *)
(* a macro may have changed it.  The text is a sequence of tokens here; a  *)
(* rule of the model is a tree that is written down as text first, so that *)
(* the state that the code computes can be compared with what the tree     *)
(* means.                                                                  *)
(***************************************************************************)
EXTENDS Integers, Sequences, FiniteSets, FiniteSetsExt, SequencesExt

CONSTANTS
    RuleHosts,          \* the hosts of the configuration
    RuleServices,       \* its services
    Member,             \* the items that a group, tag or label stands for
    HostOf,             \* the host of a service; of a host, the host itself
    Rules,              \* the rules, as trees
    ByDay, ByNight,     \* the value of the macro outside and in its modulation
    MaxCared            \* bound: items acknowledged and in downtime at once

RuleItems == RuleHosts \cup RuleServices

VARIABLES
    rule,       \* the tree that the administrator has written
    night,      \* the modulation of the macro is in effect
    node,       \* business_rule of the item, or NoNode
    processed,  \* processed_business_rule, the text that node was made from
    hard,       \* last_hard_state_id of each item
    business_rule_downtime_as_ack,
    acked,      \* the items whose problem is acknowledged
    downtime,   \* the items in a scheduled downtime
    answer      \* the state that the check gave, or Unasked since a change

config == <<rule, business_rule_downtime_as_ack>>
ruleVars == <<config, night, node, processed, hard, acked, downtime, answer>>

Unasked == -1

-----------------------------------------------------------------------------
(* The trees, and how they are written.                                    *)

Leaf(x) == [t |-> "leaf", x |-> x]              \* host or host,service
Sel(g) == [t |-> "sel", x |-> g]                \* g:group, l:label, t:tag, *
Not(r) == [t |-> "not", son |-> r]
All(s) == [t |-> "&", sons |-> s]
Either(s) == [t |-> "|", sons |-> s]
Of(v, s) == [t |-> "of", v |-> v, sons |-> s]   \* v of: a & b & ...
Value(n, pct) == [n |-> n, pct |-> pct]         \* X or X% of an of: rule
Macro == <<Value(0, FALSE), Value(0, FALSE)>>   \* the value is a macro

Token(c, x, v) == [c |-> c, x |-> x, v |-> v]
Sign(c) == <<Token(c, "", <<>>)>>
IsSimple(r) == r.t \in {"leaf", "sel"}

RECURSIVE Text(_)
RECURSIVE Joined(_, _)
Son(r) ==
    CASE IsSimple(r) -> Text(r)
      [] r.t = "not" -> Text(r)
      [] OTHER -> Sign("(") \o Text(r) \o Sign(")")
Joined(sons, sign) ==
    IF Len(sons) = 1 THEN Son(sons[1])
    ELSE Son(sons[1]) \o Sign(sign) \o Joined(Tail(sons), sign)
Text(r) ==
    CASE IsSimple(r) -> <<Token(r.t, r.x, <<>>)>>
      [] r.t = "not" -> Sign("!") \o Son(r.son)
      [] r.t = "of" -> <<Token("of", "", r.v)>> \o Joined(r.sons, "&")
      [] OTHER -> Joined(r.sons, r.t)

RECURSIVE HasMacro(_)
HasMacro(r) ==
    CASE IsSimple(r) -> FALSE
      [] r.t = "not" -> HasMacro(r.son)
      [] OTHER -> (r.t = "of" /\ r.v = Macro) \/ \E k \in DOMAIN r.sons : HasMacro(r.sons[k])

\* resolve_simple_macros_in_string, for the macro of the rule.
Resolved(text) ==
    [k \in DOMAIN text |->
        IF text[k].v = Macro THEN [text[k] EXCEPT !.v = IF night THEN ByNight ELSE ByDay]
        ELSE text[k]]

-----------------------------------------------------------------------------
(* DependencyNodeFactory: from the text to the nodes.                      *)

NoNode == [op |-> "none"]
DependencyNode == [op |-> "", sons |-> <<>>, of |-> <<>>, mul |-> FALSE, neg |-> FALSE]
ItemNode(x) == [DependencyNode EXCEPT !.op = "item", !.sons = <<x>>]

\* The node and the rest of the text.
eval_xof_pattern(text) ==
    IF text # <<>> /\ text[1].c = "of"
    THEN [node |-> [DependencyNode EXCEPT !.op = "of:", !.mul = Len(text[1].v) = 3,
                    !.of = IF Len(text[1].v) = 3 THEN text[1].v
                           ELSE <<text[1].v[1], Value(0, FALSE), Value(0, FALSE)>>],
          text |-> Tail(text)]
    ELSE [node |-> [DependencyNode EXCEPT !.of = [k \in 1..3 |-> Value(0, FALSE)]],
          text |-> text]

\* A number that was not given stands for all the sons.
switch_zeros_of_values(n) ==
    [n EXCEPT !.of = [k \in 1..3 |->
        IF n.of[k] = Value(0, FALSE) THEN Value(Len(n.sons), FALSE) ELSE n.of[k]]]

\* get_host_filters, get_srv_host_filters, get_srv_service_filters and
\* find_by_filter: the items that an expression stands for, one son each.
expand_expression(g) == [k \in 1..Len(SetToSeq(Member[g])) |->
                            ItemNode(SetToSeq(Member[g])[k])]

\* One item, or the items of an expression, with a NOT before it or not.
eval_simple_cor_pattern(text) ==
    LET xof == eval_xof_pattern(text)
        neg == xof.text[1].c = "!"
        tok == IF neg THEN xof.text[2] ELSE xof.text[1]
    IN IF tok.c = "sel"
       THEN switch_zeros_of_values(
                [xof.node EXCEPT !.neg = neg, !.sons = expand_expression(tok.x),
                                 !.op = IF @ = "of:" THEN @ ELSE "&"])
       ELSE [ItemNode(tok.x) EXCEPT !.neg = neg]

RECURSIVE eval_cor_pattern(_)

\* The text collected in tmp is the next son; a NOT before it was remembered.
AddSon(acc) ==
    IF acc.tmp = <<>> THEN acc
    ELSE LET son == eval_cor_pattern(acc.tmp) IN
         [acc EXCEPT !.tmp = <<>>, !.neg = FALSE,
                     !.node.sons = Append(@, IF acc.neg THEN [son EXCEPT !.neg = TRUE]
                                             ELSE son)]

\* A step of the loop over the text.  What is in parentheses is collected and
\* read by a call of its own.
ReadToken(acc, tok) ==
    CASE tok.c = "(" ->
            [acc EXCEPT !.par = @ + 1,
                        !.tmp = IF acc.par > 0 THEN Append(@, tok) ELSE @]
      [] tok.c = ")" /\ acc.par = 1 -> AddSon([acc EXCEPT !.par = 0])
      [] tok.c = ")" /\ acc.par > 1 ->
            [acc EXCEPT !.par = @ - 1, !.tmp = Append(@, tok)]
      [] tok.c \notin {"(", ")"} /\ acc.par > 0 -> [acc EXCEPT !.tmp = Append(@, tok)]
      [] tok.c = "!" /\ acc.par = 0 -> [acc EXCEPT !.neg = TRUE]
      [] tok.c \in {"&", "|"} /\ acc.par = 0 ->
            AddSon([acc EXCEPT !.node.op = IF @ = "of:" THEN @ ELSE tok.c])
      [] OTHER -> [acc EXCEPT !.tmp = Append(@, tok)]

eval_complex_cor_pattern(text) ==
    LET xof == eval_xof_pattern(text)
        start == [node |-> xof.node, tmp |-> <<>>, neg |-> FALSE, par |-> 0]
    IN switch_zeros_of_values(AddSon(FoldLeft(ReadToken, start, xof.text)).node)

eval_cor_pattern(text) ==
    IF \E k \in DOMAIN text : text[k].c \in {"(", ")", "&", "|"}
    THEN eval_complex_cor_pattern(text)
    ELSE eval_simple_cor_pattern(text)

-----------------------------------------------------------------------------
(* DependencyNode: the state of a node.                                    *)

get_reverse_state(s) == CASE s = 0 -> 2 [] s = 2 -> 0 [] OTHER -> s
Reversed(n, s) == IF n.neg THEN get_reverse_state(s) ELSE s

\* A host that is DOWN counts as critical; the NOT of a host looks for 1.
get_simple_node_state(n) ==
    LET x == n.sons[1]
        s == IF x \in RuleHosts /\ hard[x] = 1 THEN 2 ELSE hard[x]
    IN CASE ~n.neg -> s
         [] n.neg /\ x \in RuleHosts -> IF s = 0 THEN 1 ELSE s
         [] OTHER -> get_reverse_state(s)

Worst(S) == IF 2 \in S THEN 2 ELSE Max(S)

\* Enough of the sons: a number or a percentage, from above when negative.
Applies(total, real, v) ==
    IF v.pct
    THEN real * 100 >= total * (IF v.n < 0 THEN Max({100 + v.n, 0}) ELSE v.n)
    ELSE real >= (IF v.n < 0 THEN Max({total + v.n, 0}) ELSE v.n)

RECURSIVE get_state(_)
get_complex_node_state(n) ==
    LET states == [k \in DOMAIN n.sons |-> get_state(n.sons[k])]
        S == {states[k] : k \in DOMAIN states}
        nb(T) == Cardinality({k \in DOMAIN states : states[k] \in T})
        apply(T, k) == Applies(Len(states), nb(T), n.of[k])
    IN CASE n.op = "|" -> Min(S)
         [] n.op = "&" -> Worst(S)
         [] OTHER ->
            CASE apply({2}, 3) -> 2
              [] ~apply({2}, 3) /\ apply({1, 2}, 2) -> 1
              [] ~apply({2}, 3) /\ ~apply({1, 2}, 2) /\ apply({0}, 1) -> 0
              [] OTHER -> IF n.mul THEN 0 ELSE Worst(S)
get_state(n) ==
    IF n.op = "item" THEN get_simple_node_state(n)
    ELSE Reversed(n, get_complex_node_state(n))

RECURSIVE list_all_elements(_)
list_all_elements(n) ==
    IF n.op = "item" THEN {n.sons[1]}
    ELSE UNION {list_all_elements(n.sons[k]) : k \in DOMAIN n.sons}

-----------------------------------------------------------------------------
(* The item with the rule.                                                 *)

InitRules ==
    /\ rule \in Rules /\ business_rule_downtime_as_ack \in BOOLEAN
    /\ night = FALSE
    /\ node = NoNode /\ processed = <<>>
    /\ hard = [x \in RuleItems |-> 0]
    /\ acked = {} /\ downtime = {}
    /\ answer = Unasked

\* The rule is read when there is none yet, or when the text starts with a
\* macro and the macro has another value than last time.
ReadRule ==
    LET text == Text(rule)
        again == node = NoNode \/ text[1].v = Macro
        new == again /\ Resolved(text) # processed
    IN /\ processed' = IF new THEN Resolved(text) ELSE processed
       /\ node' = IF new THEN eval_cor_pattern(Resolved(text)) ELSE node

manage_internal_check ==
    /\ ReadRule
    /\ answer' = get_state(node')
    /\ UNCHANGED <<config, night, hard, acked, downtime>>

\* A hard state of an item changes; its acknowledgement goes with the problem.
HardState(x, s) ==
    /\ s # hard[x] /\ (x \in RuleHosts => s # 3)
    /\ hard' = [hard EXCEPT ![x] = s]
    /\ acked' = IF s = 0 THEN acked \ {x} ELSE acked
    /\ answer' = Unasked
    /\ UNCHANGED <<config, night, node, processed, downtime>>

AcknowledgeItem(x) ==
    /\ hard[x] # 0 /\ x \notin acked
    /\ Cardinality(acked) + Cardinality(downtime) < MaxCared
    /\ acked' = acked \cup {x}
    /\ UNCHANGED <<config, night, node, processed, hard, downtime, answer>>

ItemDowntime(x) ==
    /\ x \in downtime \/ Cardinality(acked) + Cardinality(downtime) < MaxCared
    /\ downtime' = (downtime \ {x}) \cup ({x} \ downtime)
    /\ UNCHANGED <<config, night, node, processed, hard, acked, answer>>

ModulationChanges ==
    /\ HasMacro(rule)
    /\ night' = ~night
    /\ answer' = Unasked
    /\ UNCHANGED <<config, node, processed, hard, acked, downtime>>

NextRules ==
    \/ manage_internal_check
    \/ \E x \in RuleItems : \E s \in 0..3 : HardState(x, s)
    \/ \E x \in RuleItems : AcknowledgeItem(x) \/ ItemDowntime(x)
    \/ ModulationChanges

\* source_problems of the item: the elements of its rule that are problems.
source_problems == {x \in list_all_elements(node) : hard[x] # 0}

business_rule_notification_is_blocked ==
    \A x \in source_problems :
        \/ x \in acked
        \/ business_rule_downtime_as_ack /\ {x, HostOf[x]} \cap downtime # {}

-----------------------------------------------------------------------------
(* What a rule means.                                                      *)

RECURSIVE HasNot(_, _)
\* A NOT whose argument is in the set, by kind.
HasNot(r, kinds) ==
    CASE IsSimple(r) -> FALSE
      [] r.t = "not" ->
            \/ r.son.t \in kinds
            \/ r.son.t = "leaf" /\ r.son.x \in RuleHosts /\ "host" \in kinds
            \/ HasNot(r.son, kinds)
      [] OTHER -> \E k \in DOMAIN r.sons : HasNot(r.sons[k], kinds)

Seen(h, x) == IF h[x] = 1 /\ x \in RuleHosts THEN 2 ELSE h[x]

RECURSIVE Meaning(_, _)
\* The meaning of a rule for the hard states h (business-rules.rst): the worst
\* state of "&", the best of "|", OK and critical exchanged by "!".  "X of" is
\* OK when X sons are, unless no son is, else the worst state; "X,Y,Z of" is
\* the worst state with enough sons.
Meaning(r, h) ==
    LET sons == IF Len(r.sons) = 1 /\ r.sons[1].t = "sel"
                THEN LET m == SetToSeq(Member[r.sons[1].x])
                     IN [k \in DOMAIN m |-> Seen(h, m[k])]
                ELSE [k \in DOMAIN r.sons |-> Meaning(r.sons[k], h)]
        S == {sons[k] : k \in DOMAIN sons}
        v == IF r.v = Macro THEN (IF night THEN ByNight ELSE ByDay) ELSE r.v
        many(T) == Cardinality({k \in DOMAIN sons : sons[k] \in T})
        enough(T, k) == Applies(Len(sons), many(T), v[k])
    IN CASE r.t = "leaf" -> Seen(h, r.x)
         [] r.t = "sel" -> Worst({Seen(h, x) : x \in Member[r.x]})
         [] r.t = "not" -> get_reverse_state(Meaning(r.son, h))
         [] r.t = "&" -> Worst(S)
         [] r.t = "|" -> Min(S)
         [] r.t = "of" /\ Len(v) = 1 ->
                CASE S \subseteq {1, 2} -> Min(S)
                  [] ~(S \subseteq {1, 2}) /\ enough({0}, 1) -> 0
                  [] OTHER -> Worst(S)
         [] OTHER -> CASE enough({2}, 3) -> 2
                       [] ~enough({2}, 3) /\ enough({1, 2}, 2) -> 1
                       [] OTHER -> 0

\* The check of a business rule gives the state that the rule means, through
\* the cutting of its text into nodes, the numbers of its of: parts and the
\* modulation of a macro it starts with.  The NOT of a host and a macro
\* further on are left out: the code does not follow these (see the README).
RuleIsKept ==
    answer # Unasked /\ ~HasNot(rule, {"host"})
        /\ (HasMacro(rule) => Text(rule)[1].v = Macro)
        => answer = Meaning(rule, hard)

\* With smart notifications a rule without a NOT that is not OK is kept silent
\* only if it would be OK were it not for problems that somebody has taken
\* care of: acknowledged, or in a downtime where that counts as much.
SmartlySilent ==
    answer \notin {Unasked, 0} /\ ~HasNot(rule, {"leaf", "sel", "&", "|", "of", "not"})
        /\ business_rule_notification_is_blocked
        => LET cared == acked \cup {x \in RuleItems : business_rule_downtime_as_ack
                                        /\ {x, HostOf[x]} \cap downtime # {}}
           IN Meaning(rule, [x \in RuleItems |-> IF x \in cared THEN 0 ELSE hard[x]]) = 0
=============================================================================
