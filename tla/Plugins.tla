------------------------------- MODULE Plugins -------------------------------
(***************************************************************************)
(* A worker runs a plugin (action.py): it is launched, polled and read     *)
(* while it runs, killed when it takes too long, and what it wrote is cut  *)
(* into output, long output and performance data.                          *)
(*                                                                         *)
(* What a plugin writes is a sequence of bytes: "x" stands for text, "<"   *)
(* and ">" for the two bytes of one character, "b" for a backslash, "|"    *)
(* and "n" (new line) for themselves, "!" for the complaint of a shell     *)
(* about the command, and "A" for what the worker adds to the errors of a  *)
(* plugin that did not end well.                                           *)
(***************************************************************************)
EXTENDS Integers, Sequences, FiniteSets, SequencesExt, Lists

CONSTANTS
    Plugins,    \* [launch, out, err, exit] : how each plugin can behave
    PipeSize,   \* bytes that fit in a pipe
    MaxLength   \* max_plugins_output_length

VARIABLES
    plugin,
    status,     \* Action.status
    shell,      \* whether the command runs in a shell
    process,    \* none, runs, exited, killed
    written,    \* bytes that the plugin wrote to stdout and stderr
    taken,      \* bytes that were read from the pipes
    data,       \* stdoutdata and stderrdata
    result      \* what the action tells: exit_status, output, long_output, perf_data

vars == <<plugin, status, shell, process, written, taken, data, result>>

Once(x, F(_)) == CHOOSE r \in {F(v) : v \in {x}} : TRUE
Streams == {"out", "err"}
Text == {"x", ">", "P", "!", "A"}

-----------------------------------------------------------------------------
(* The text.                                                               *)

\* decode("utf-8") of some bytes; what cannot be decoded is lost as a whole.
Valid(s) ==
    /\ \A k \in DOMAIN s : s[k] = "<" => k < Len(s) /\ s[k + 1] = ">"
    /\ \A k \in DOMAIN s : s[k] = ">" => k > 1 /\ s[k - 1] = "<"
Decoded(s) == IF Valid(s) THEN Filter(s, ToSet(s) \ {"<"}) ELSE <<>>

Blank(s) == \A k \in DOMAIN s : s[k] = "n"

\* replace(r'\|', '___PROTECT_PIPE___')
Protected(s) ==
    LET escaped == {k \in DOMAIN s : s[k] = "|" /\ k > 1 /\ s[k - 1] = "b"}
    IN SelectSeq([k \in DOMAIN s |-> IF k \in escaped THEN "P" ELSE IF k + 1 \in escaped THEN "" ELSE s[k]],
                 LAMBDA c : c # "")

\* split(c)
Split(s, c) ==
    Once(SetToSortSeq({0, Len(s) + 1} \cup {k \in DOMAIN s : s[k] = c}, <),
         LAMBDA cuts : [k \in 1..(Len(cuts) - 1) |-> SubSeq(s, cuts[k] + 1, cuts[k + 1] - 1)])

\* split(c, 1)
SplitOnce(s, c) ==
    LET cuts == {k \in DOMAIN s : s[k] = c}
        first == CHOOSE k \in cuts : \A j \in cuts : k <= j
    IN IF cuts = {} THEN <<s>> ELSE <<SubSeq(s, 1, first - 1), SubSeq(s, first + 1, Len(s))>>

\* A line after the first one: long output before the first |, performance data after it.
AddLine(acc, line) ==
    IF acc.in_perfdata THEN [acc EXCEPT !.perf_data = @ \o line]
    ELSE Once(SplitOnce(line, "|"),
              LAMBDA parts : [acc EXCEPT !.long_output = Append(@, parts[1]),
                                         !.in_perfdata = Len(parts) > 1,
                                         !.perf_data = IF Len(parts) > 1 THEN @ \o parts[2] ELSE @])

\* out[:max_plugins_output_length]
Squeezed(s) == IF Len(s) <= MaxLength THEN s ELSE SubSeq(s, 1, MaxLength)

\* The first line is cut at every |, and only its first two parts are used.
FirstCut(first) ==
    [output |-> first[1], long_output |-> <<>>, in_perfdata |-> FALSE,
     perf_data |-> IF Len(first) > 1 THEN first[2] ELSE <<>>]

get_outputs(s) ==
    Once(Split(Protected(Squeezed(s)), "n"),
         LAMBDA lines : FoldLeft(LAMBDA acc, l : Once(acc, LAMBDA a : AddLine(a, l)),
                                 FirstCut(Split(lines[1], "|")), Tail(lines)))

NoResult == [exit_status |-> -1, output |-> <<>>, long_output |-> <<>>, perf_data |-> <<>>]

-----------------------------------------------------------------------------
(* The launch.                                                             *)

\* execute
execute ==
    /\ status = "queue"
    /\ status' = "launched"
    /\ data' = [s \in Streams |-> <<>>]
    /\ UNCHANGED <<plugin, shell, process, written, taken, result>>

Ends(code, text) ==
    /\ status' = "done"
    /\ result' = [NoResult EXCEPT !.exit_status = code, !.output = text]

\* execute__: the command may not be one for a shell; the system may refuse it, and a file
\* that it cannot execute is tried again in a shell.
Launch ==
    /\ status = "launched" /\ process = "none"
    /\ \/ /\ plugin.launch = "syntax"
          /\ Ends(3, <<"A">>)
          /\ UNCHANGED <<shell, process>>
       \/ /\ plugin.launch = "refused" \/ (plugin.launch = "format" /\ shell)
          /\ Ends(2, <<"A">>)
          /\ UNCHANGED <<shell, process>>
       \/ /\ plugin.launch \in {"format", "script"} /\ ~shell
          /\ shell' = TRUE
          /\ UNCHANGED <<status, result, process>>
       \/ /\ plugin.launch = "good" \/ (plugin.launch = "script" /\ shell)
          /\ process' = "runs"
          /\ UNCHANGED <<status, result, shell>>
    /\ UNCHANGED <<plugin, written, taken, data>>

-----------------------------------------------------------------------------
(* The plugin.                                                             *)

\* It writes one byte; with a full pipe it waits.
Writes(s) ==
    /\ process = "runs"
    /\ written[s] < Len(plugin[s])
    /\ written[s] - taken[s] < PipeSize
    /\ written' = [written EXCEPT ![s] = @ + 1]
    /\ UNCHANGED <<plugin, status, shell, process, taken, data, result>>

Exits ==
    /\ process = "runs"
    /\ \A s \in Streams : written[s] = Len(plugin[s])
    /\ process' = "exited"
    /\ UNCHANGED <<plugin, status, shell, written, taken, data, result>>

-----------------------------------------------------------------------------
(* The polls of check_finished.                                            *)

\* What is in a pipe, as no_block_read gives it.
no_block_read(s) == Decoded(SubSeq(plugin[s], taken[s] + 1, written[s]))
AllRead == [s \in Streams |-> data[s] \o no_block_read(s)]

\* Mutant: the pipes are read when the plugin is over.
PollRunningUnread ==
    /\ status = "launched" /\ process = "runs"
    /\ UNCHANGED <<data, taken>>
    /\ UNCHANGED <<plugin, status, shell, process, written, result>>

\* The plugin still runs: its pipes are emptied.
PollRunning ==
    /\ status = "launched" /\ process = "runs"
    /\ data' = AllRead
    /\ taken' = written
    /\ UNCHANGED <<plugin, status, shell, process, written, result>>

\* It ran too long: its process group is killed, and what it wrote is not looked at.
TimesOut ==
    /\ status = "launched" /\ process = "runs"
    /\ data' = AllRead
    /\ taken' = written
    /\ process' = "killed"
    /\ status' = "timeout"
    /\ result' = [NoResult EXCEPT !.exit_status = 3]
    /\ UNCHANGED <<plugin, shell, written>>

Has(s, c) == \E k \in DOMAIN s : s[k] = c

\* A signal is told in the errors; so is an unknown code when there are no errors.
Errors(err, code) ==
    LET told == IF code = -11 THEN Append(err, "A") ELSE err
    IN IF Blank(told) /\ code \notin 0..3 THEN Append(told, "A") ELSE told

\* The errors stand for an output that is blank.
TextOf(out, err, code) == IF Blank(out) THEN err ELSE out

\* The code and the text that are worked out of what was read.
ResultOf(read, code) ==
    Once(read, LAMBDA r :
    Once(Errors(r["err"], code), LAMBDA err :
    Once(IF Has(err, "!") THEN r["out"] \o err ELSE r["out"], LAMBDA out :
    Once(get_outputs(TextOf(out, err, code)), LAMBDA cut :
        [exit_status |-> IF Has(err, "!") \/ code \notin 0..3 THEN 3 ELSE code,
         output |-> cut.output, long_output |-> cut.long_output, perf_data |-> cut.perf_data]))))

\* It is over, and the rest is read.
PollExited ==
    /\ status = "launched" /\ process = "exited"
    /\ taken' = written
    /\ result' = ResultOf(AllRead, plugin.exit)
    /\ status' = "done"
    /\ data' = [s \in Streams |-> <<>>]
    /\ UNCHANGED <<plugin, shell, process, written>>

-----------------------------------------------------------------------------
Init ==
    /\ plugin \in Plugins
    /\ status = "queue"
    /\ shell = FALSE
    /\ process = "none"
    /\ written = [s \in Streams |-> 0] /\ taken = written
    /\ data = [s \in Streams |-> <<>>]
    /\ result = NoResult

Next ==
    \/ execute
    \/ Launch
    \/ \E s \in Streams : Writes(s)
    \/ Exits
    \/ PollRunning
    \/ TimesOut
    \/ PollExited

\* The worker polls, and a plugin goes on that can; nothing says that it is too slow.
Spec == Init /\ [][Next]_vars
LiveSpec ==
    /\ Spec
    /\ WF_vars(execute) /\ WF_vars(Launch) /\ WF_vars(PollRunning) /\ WF_vars(PollExited) /\ WF_vars(Exits)
    /\ \A s \in Streams : WF_vars(Writes(s))

-----------------------------------------------------------------------------
Count(s, c) == Cardinality({k \in DOMAIN s : s[k] = c})
Told == result.output \o FlattenSeq(result.long_output) \o result.perf_data

Plain(s) == ~Has(s, "<") /\ ~Has(s, ">")
FirstLine(s) == Split(Protected(s), "n")[1]

\* What is told of a plugin that writes single bytes does not depend on when its pipes
\* were read and how much was in them (action.py:131).
ToldAsWritten ==
    (status = "done" /\ process = "exited" /\ \A s \in Streams : Plain(plugin[s]))
      => result = ResultOf([s \in Streams |-> plugin[s]], plugin.exit)

\* The text of a plugin that writes single bytes is told in full, whatever the polls
\* read when: none is lost between the polls or by the cut (action.py:131, 56).
TextIsKept ==
    (/\ status = "done" /\ process = "exited" /\ Plain(plugin.out)
     /\ ~Blank(plugin.out) /\ ~Has(plugin.err, "!")
     /\ Len(plugin.out) <= MaxLength
     /\ Count(FirstLine(plugin.out), "|") <= 1)
      => \A c \in {"x", "P"} : Count(Told, c) = Count(Protected(plugin.out), c)

\* A plugin that does not end well is told with an unknown state and some text, in the
\* words of the plugin or in those of the worker (action.py:222).
BadEndIsTold ==
    (status = "done" /\ process = "exited" /\ plugin.exit \notin 0..3)
      => /\ result.exit_status = 3
         /\ (\E c \in Text : Has(plugin.out \o plugin.err, c)) \/ Has(Told, "A")

\* A plugin that ends by itself; it is done in the end, however much it writes,
\* if it is not too slow (action.py:180).
Runs == status = "launched" /\ process = "runs"
Over == status \in {"done", "timeout"}
=============================================================================
