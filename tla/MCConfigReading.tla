-------------------------- MODULE MCConfigReading --------------------------
EXTENDS ConfigReading

Param(k, v) == [type |-> "param", words |-> <<"=", k, v>>]
Object(t, props) == [type |-> t, props |-> props]

\* The ways to write a block: braces on the line of the define or on the next
\* one, a property over two lines, an object the next define ends.
Cont(l) == [l EXCEPT !.cont = TRUE]
PropLines(p, style) ==
    IF style = "broken" THEN <<Cont(Line("text", <<p[1]>>)), Line("text", Tail(p))>>
    ELSE <<Line("text", p)>>
Lines(b, style) ==
    IF b.type = "param" THEN <<Line("text", b.words)>>
    ELSE (IF style = "next" THEN <<Line("almost", <<b.type>>), Line("open", <<"{">>)>>
          ELSE <<Line("define", <<b.type>>)>>)
         \o FlattenSeq([i \in DOMAIN b.props |-> PropLines(b.props[i], style)])
         \o (IF style = "unclosed" /\ b.type = "host" THEN <<Blank>> ELSE <<Line("close", <<"}">>)>>)

Written(blocks, style, nl) ==
    [lines |-> FlattenSeq([i \in DOMAIN blocks |-> Lines(blocks[i], style)]),
     blocks |-> blocks, nl |-> nl, readable |-> TRUE]
\* A last line whose backslash has nothing after it.
Dangling(blocks) ==
    LET w == Written(blocks, "same", TRUE) IN [w EXCEPT !.lines[Len(w.lines)].cont = TRUE]
Missing == [lines |-> <<>>, blocks |-> <<>>, nl |-> TRUE, readable |-> FALSE]

Host(n) == Object("host", <<<<"host_name", n>>, <<"use", "t">>>>)
Service == Object("service", <<<<"description", "s">>>>)

Mains ==
    {Written(b, style, nl) : style \in {"same", "next", "broken"}, nl \in BOOLEAN,
        b \in {<<Param("a", "1"), Param("cfg_file", "one")>>,
               <<Param("cfg_file", "one"), Host("h"), Param("a", "2")>>,
               <<Param("cfg_dir", "d"), Param("cfg_file", "one"), Param("triggers_dir", "d")>>,
               <<Service, Param("cfg_dir", "no"), [type |-> "param", words |-> <<"=", "b">>]>>}}
Ones ==
    {Written(<<Host("g"), Service>>, style, nl) : style \in {"same", "unclosed"}, nl \in BOOLEAN}
    \cup {Dangling(<<Service, Param("a", "3")>>)} \cup {Missing}
Seconds ==
    {Written(<<Host("k"), Param("cfg_file", "one"), Param("a", "4")>>, style, nl) :
        style \in {"next", "broken"}, nl \in BOOLEAN} \cup {Missing}

MCDisks ==
    {[given |-> g, files |-> [main |-> m, one |-> o, two |-> s],
      dirs |-> [d |-> [is_dir |-> TRUE, cfgs |-> <<"one", "two">>],
                no |-> [is_dir |-> FALSE, cfgs |-> <<>>]]] :
        g \in {<<"main">>, <<"main", "two">>}, m \in Mains, o \in Ones, s \in Seconds}
NoDisk == [given |-> <<>>, files |-> [f \in {} |-> Missing], dirs |-> [d \in {} |-> Missing]]

Chars == {"a", ";", "\\"}
MCTexts ==
    {[line |-> l, maxsplit |-> m] : l \in UNION {[1..n -> Chars] : n \in 0..5}, m \in {None, 0, 1, 2}}
NoText == [line |-> <<>>, maxsplit |-> None]

MCCases ==
    {[disk |-> d, split |-> NoText] : d \in MCDisks}
    \cup {[disk |-> NoDisk, split |-> t] : t \in MCTexts}
=============================================================================
