------------------------------- MODULE Lists -------------------------------
(* Lists of links, commands and comments, as Dispatcher, Arbiter and       *)
(* Commands make them, and of bytes, as Plugins does.                      *)
EXTENDS Naturals, Sequences

\* The elements of a list that are in Keep, in order.
Filter(seq, Keep) ==
    LET kept[i \in 0..Len(seq)] ==
          IF i = 0 THEN <<>>
          ELSE IF seq[i] \in Keep THEN Append(kept[i - 1], seq[i])
          ELSE kept[i - 1]
    IN kept[Len(seq)]

\* Where the step G leads from start, taken with each element of a list, in order.
Through(G, start, seq) ==
    LET after[i \in 0..Len(seq)] ==
          IF i = 0 THEN start ELSE G[after[i - 1]][seq[i]]
    IN after[Len(seq)]
=============================================================================
