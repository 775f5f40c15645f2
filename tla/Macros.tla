------------------------------- MODULE Macros -------------------------------
(***************************************************************************)
(* The macro resolver (macroresolver.py) and the call of a command with its *)
(* arguments (commandcall.py): the macros of a command line are replaced    *)
(* round after round, since the value of a macro may hold other macros.     *)
(*                                                                         *)
(* A text is a sequence of tokens: "$", words, and Dollar for the token     *)
(* DOUBLEDOLLAR that stands for an escaped dollar.  The name of a macro is  *)
(* what is between two dollars.                                             *)
(***************************************************************************)
EXTENDS Integers, SequencesExt

CONSTANTS
    Cases,      \* sets of command lines, the data they are resolved with, a call
    MaxLoop     \* the rounds after which the resolver gives up (32)

VARIABLES
    case,       \* the command line, the data and the call
    c_line,     \* the text so far
    nb_loop,    \* the rounds so far
    still_got_macros,
    resolved    \* the text that is returned

macroVars == <<case, c_line, nb_loop, still_got_macros, resolved>>

Dollar == "DOUBLEDOLLAR"

\* F(x), with x evaluated once.
Once(x, F(_)) == CHOOSE r \in {F(v) : v \in {x}} : TRUE

(***************************************************************************)
(* str.replace, from the left and without overlaps                          *)
(***************************************************************************)
RECURSIVE Replace(_, _, _)
Replace(s, pattern, value) ==
    IF Len(s) < Len(pattern) THEN s
    ELSE IF SubSeq(s, 1, Len(pattern)) = pattern
         THEN value \o Replace(SubSeq(s, Len(pattern) + 1, Len(s)), pattern, value)
         ELSE <<s[1]>> \o Replace(Tail(s), pattern, value)

(***************************************************************************)
(* The macros of a text and their values                                    *)
(***************************************************************************)
\* The text is cut at every dollar, and every second piece is a macro; an
\* empty one is not.
DollarsBefore(s, i) == Cardinality({j \in 1..i - 1 : s[j] = "$"})
_get_macros(s) ==
    {SubSeq(s, i + 1, j - 1) : <<i, j>> \in
        {p \in (1..Len(s)) \X (1..Len(s) + 1) :
            /\ p[1] + 1 < p[2]
            /\ s[p[1]] = "$" /\ DollarsBefore(s, p[1]) % 2 = 0
            /\ p[2] <= Len(s) => s[p[2]] = "$"
            /\ \A k \in p[1] + 1..p[2] - 1 : s[k] # "$"}}

Data == case.data
IsA(i, cls) == Data[i].cls = cls

\* An argument that is not given is empty; ARG0 is the last one.
_resolve_argn(n) ==
    IF n = 0 /\ case.args # <<>> THEN case.args[Len(case.args)]
    ELSE IF n \in DOMAIN case.args THEN case.args[n] ELSE <<>>

\* The class that has the macro is the last of the data that has it.
ClassValue(m) ==
    LET having == {i \in DOMAIN Data : m \in DOMAIN Data[i].macros}
    IN  IF having = {} THEN <<>>
        ELSE LET i == CHOOSE i \in having : \A j \in having : j <= i
             IN  IF m \in case.output THEN SelectSeq(Data[i].macros[m], LAMBDA c : c \notin case.illegal)
                 ELSE Data[i].macros[m]

\* The modulations are asked from the last one back, so the first wins.
CustomOf(v, elt, name) ==
    FoldLeft(LAMBDA u, mm : IF mm.active /\ name \in DOMAIN mm.customs THEN mm.customs[name] ELSE u,
             IF name \in DOMAIN elt.customs THEN elt.customs[name] ELSE v,
             Reverse(elt.modulations))

CustomValue(cls, name) ==
    FoldLeft(LAMBDA v, elt : IF elt.cls = cls THEN CustomOf(v, elt, name) ELSE v, <<>>, Data)

\* $NAME:element$: an empty element is the host of the data.
_resolve_ondemand(m) ==
    LET hosts == {i \in DOMAIN Data : IsA(i, "host")}
        elt == IF m.elt # "" THEN m.elt
               ELSE IF hosts = {} THEN "" ELSE Data[CHOOSE i \in hosts : TRUE].name
    IN  IF <<m.name, elt>> \in DOMAIN case.others THEN case.others[<<m.name, elt>>] ELSE <<>>

\* A macro nobody knows is empty.
ValueOf(name) ==
    IF Len(name) # 1 \/ name[1] \notin DOMAIN case.kinds THEN <<>>
    ELSE LET m == case.kinds[name[1]] IN
         CASE m.type = "ARGN" -> _resolve_argn(m.n)
           [] m.type = "CUSTOM" -> CustomValue(m.cls, m.name)
           [] m.type = "ONDEMAND" -> _resolve_ondemand(m)
           [] m.type = "class" -> ClassValue(name[1])

(***************************************************************************)
(* resolve_simple_macros_in_string                                          *)
(***************************************************************************)
Replaced(s, order) ==
    Replace(FoldLeft(LAMBDA t, m : Once(t, LAMBDA u : Replace(u, <<"$">> \o m \o <<"$">>, ValueOf(m))),
                     s, order),
            <<"$", "$">>, <<Dollar>>)

\* Mutant: the rounds are not counted.
RoundUncounted ==
    /\ still_got_macros
    /\ \E ms \in {_get_macros(c_line)} : \E order \in SetToSeqs(ms) :
          /\ c_line' = Replaced(c_line, order)
          /\ still_got_macros' = (ms # {})
    /\ UNCHANGED <<case, nb_loop, resolved>>

\* The macros of a round come in the order of a dictionary.
Round ==
    /\ still_got_macros
    /\ nb_loop' = nb_loop + 1
    /\ \E ms \in {_get_macros(c_line)} : \E order \in SetToSeqs(ms) :
          /\ c_line' = Replaced(c_line, order)
          /\ still_got_macros' = (ms # {} /\ nb_loop' <= MaxLoop)
    /\ UNCHANGED <<case, resolved>>

Return ==
    /\ ~still_got_macros
    /\ resolved = <<>>
    /\ resolved' = <<Replace(c_line, <<Dollar>>, <<"$">>)>>
    /\ UNCHANGED <<case, c_line, nb_loop, still_got_macros>>

(***************************************************************************)
(* The call of a command, "command!arg!arg", as characters                  *)
(***************************************************************************)
Protected == "___PROTECT_EXCLAMATION___"
RECURSIVE SplitCall(_)
SplitCall(s) ==
    IF \E i \in DOMAIN s : s[i] = "!"
    THEN LET i == SelectInSeq(s, LAMBDA c : c = "!")
         IN  <<SubSeq(s, 1, i - 1)>> \o SplitCall(SubSeq(s, i + 1, Len(s)))
    ELSE <<s>>

get_command_and_args(call) ==
    LET tab == SplitCall(Replace(call, <<"\\", "!">>, <<Protected>>))
    IN  [command |-> tab[1],
         args |-> [i \in 1..Len(tab) - 1 |-> Replace(tab[i + 1], <<Protected>>, <<"!">>)]]

(***************************************************************************)
(* The specification                                                        *)
(***************************************************************************)
Init ==
    /\ \E S \in Cases : case \in S
    /\ c_line = case.line
    /\ nb_loop = 0
    /\ still_got_macros = TRUE
    /\ resolved = <<>>

Next == Round \/ Return

Spec == Init /\ [][Next]_macroVars

\* The resolver is a loop of one thread.
LiveSpec == Spec /\ WF_macroVars(Next)

(***************************************************************************)
(* Properties                                                               *)
(***************************************************************************)
\* The value a custom macro of the host should have: that of the first active
\* modulation that has one, or the host's own.
CustomMeant(name) ==
    LET h == Data[CHOOSE i \in DOMAIN Data : IsA(i, "host")]
        Has(i) == h.modulations[i].active /\ name \in DOMAIN h.modulations[i].customs
    IN  IF \E i \in DOMAIN h.modulations : Has(i)
        THEN h.modulations[CHOOSE i \in DOMAIN h.modulations : Has(i) /\ \A j \in 1..i - 1 : ~Has(j)].customs[name]
        ELSE h.customs[name]
ValueMeant(m) ==
    IF m \in {<<w>> : w \in DOMAIN case.kinds} /\ case.kinds[m[1]].type = "CUSTOM"
    THEN CustomMeant(case.kinds[m[1]].name) ELSE ValueOf(m)

\* What a text means: "$$" is a dollar, a macro is what its value means, and
\* the rest is itself.
RECURSIVE Meaning(_)
Meaning(s) ==
    IF ~\E i \in DOMAIN s : s[i] = "$" THEN s
    ELSE LET i == SelectInSeq(s, LAMBDA c : c = "$")
             rest == SubSeq(s, i + 1, Len(s))
             j == SelectInSeq(rest, LAMBDA c : c = "$")
             before == SubSeq(s, 1, i - 1)
         IN  IF j = 0 THEN s
             ELSE before \o (IF j = 1 THEN <<"$">> ELSE Meaning(ValueMeant(SubSeq(rest, 1, j - 1))))
                  \o Meaning(SubSeq(rest, j + 1, Len(rest)))

\* The texts a line may turn into, through the macros it holds.
Names == {<<w>> : w \in DOMAIN case.kinds}
Inside(s) == _get_macros(s) \cap Names
Reach(ms) == ms \cup UNION {Inside(ValueOf(m)) : m \in ms}
ReachN == Reach(Reach(Reach(Inside(case.line))))
Acyclic == \A m \in ReachN : m \notin Reach(Reach(Inside(ValueOf(m))))
EvenDollars(s) == Cardinality({i \in DOMAIN s : s[i] = "$"}) % 2 = 0
NoTwoDollars(s) == \A i \in 1..Len(s) - 1 : ~(s[i] = "$" /\ s[i + 1] = "$")
Flat == \A m \in ReachN : "$" \notin ToSet(ValueOf(m))
\* No macro of the line is also between two escaped dollars.
NotAlsoEscaped ==
    \A m \in _get_macros(case.line) : \A i \in 1..Len(case.line) - Len(m) - 1 :
        SubSeq(case.line, i, i + Len(m) + 1) = <<"$">> \o m \o <<"$">>
            => DollarsBefore(case.line, i) % 2 = 0

\* A command line comes out as it is meant, whatever order the macros of a
\* round are replaced in: macros in the values of macros are followed to the
\* end, an unknown macro is empty, "$$" is a dollar, a modulation that is
\* active wins over the host's own value and the first one over the next.
\* Dollars that meet are only understood when no value holds a macro.
ResolvedAsMeant ==
    resolved # <<>> /\ EvenDollars(case.line) /\ Acyclic
    /\ (\/ Flat /\ NotAlsoEscaped
        \/ /\ NoTwoDollars(case.line)
           /\ \A m \in ReachN : NoTwoDollars(ValueOf(m)) /\ EvenDollars(ValueOf(m)))
    => resolved[1] = Meaning(case.line)

\* Resolving ends, for macros that hold themselves too.
Resolved == resolved # <<>>

\* The arguments of a call are what is between the exclamation marks that have
\* no backslash in front of them, without the other marks' backslashes.
ArgsAreSplit ==
    LET s == case.call
        cuts == {i \in DOMAIN s : s[i] = "!" /\ ~(i > 1 /\ s[i - 1] = "\\")}
        kept == {i \in DOMAIN s : ~(s[i] = "\\" /\ i < Len(s) /\ s[i + 1] = "!")}
        args == get_command_and_args(s).args
    IN  /\ Len(args) = Cardinality(cuts)
        /\ \A n \in DOMAIN args :
              LET part == {i \in kept \ cuts : Cardinality({c \in cuts : c < i}) = n}
                  pos == SetToSortSeq(part, <)
              IN  args[n] = [j \in DOMAIN pos |-> s[pos[j]]]
=============================================================================
