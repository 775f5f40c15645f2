--------------------------- MODULE ConfigReading ---------------------------
(***************************************************************************)
(* Reading the configuration files (objects/config.py, read_config and      *)
(* read_config_buf, with clean_params, load_params and util.py's            *)
(* split_semicolon): every file, and every file these include, is copied    *)
(* into one text, the text is cut into logical lines, and the lines into    *)
(* parameters and objects.                                                  *)
(*                                                                         *)
(* A line of a file is [k, v, cont]: k is what the patterns of the code     *)
(* make of it, v its words, cont a backslash at its end.  The kinds are     *)
(*   "define"  define TYPE {          "almost"  define TYPE                 *)
(*   "open"    {                      "close"   }                           *)
(*   "text"    any other words        "blank"   nothing or a comment        *)
(*   "from"    # IMPORTEDFROM=FILE                                          *)
(* A parameter KEY=VALUE is a text whose first word is "=".                 *)
(***************************************************************************)
EXTENDS Integers, SequencesExt

CONSTANTS
    Cases,      \* what can be on the disk, and lines for split_semicolon
    None

VARIABLES
    disk,       \* the files and directories, and which files are given
    split,      \* a line and its limit, for split_semicolon
    stage,      \* "read", "parse" or "done"
    files,      \* the given files that are still to be read
    buf,        \* the text, and its last line when no line return ended it
    correct,    \* conf_is_correct
    dirs,       \* packs_dirs and triggers_dirs
    line_nb,    \* the line of the text that is parsed next
    define,     \* in_define, almost_in_define, and the object being read
    tmp_line,   \* what came before a backslash, None without one
    objects,    \* the objects read so far, by type
    params,     \* the parameters read so far
    settings    \* their values, set by load_params at the end

readVars == <<disk, split, stage, files, buf, correct, dirs>>
parseVars == <<line_nb, define, tmp_line, objects, params, settings>>
configVars == <<readVars, parseVars>>

Line(k, v) == [k |-> k, v |-> v, cont |-> FALSE]
Blank == Line("blank", <<>>)
\* F(x), with x evaluated once.
Once(x, F(_)) == CHOOSE r \in {F(v) : v \in {x}} : TRUE

(***************************************************************************)
(* The text.  open is a last line that no line return has ended yet.        *)
(***************************************************************************)
\* Two lines that no line return parts are one.
Glued(l, m) ==
    IF m = Blank THEN l
    ELSE [k |-> IF l.k = "blank" THEN m.k ELSE "text", v |-> l.v \o m.v, cont |-> m.cont]

Write(b, l, ended) ==
    LET line == IF b.open = None THEN l ELSE Glued(b.open, l)
    IN  IF ended THEN [lines |-> Append(b.lines, line), open |-> None]
        ELSE [b EXCEPT !.open = line]

linesep(b) == Write(b, Blank, TRUE)

Content(b, file) ==
    FoldLeft(LAMBDA a, i : Once(a, LAMBDA x :
                 Write(x, file.lines[i], i < Len(file.lines) \/ file.nl)),
             b, [i \in DOMAIN file.lines |-> i])

\* A file that is included is copied as it is: the files it names are not read.
Include(b, name) ==
    linesep(Content(Write(linesep(b), Line("from", <<name>>), TRUE), disk.files[name]))

Readable(name) == disk.files[name].readable

(***************************************************************************)
(* read_config: one step for one given file                                 *)
(***************************************************************************)
Reading == [buf |-> buf, ok |-> correct, dirs |-> dirs]

\* The files of a directory that end in .cfg, in the order the walk gives.
IncludeDir(acc, d) ==
    FoldLeft(LAMBDA a, f : Once(a, LAMBDA x :
                 IF Readable(f) THEN [x EXCEPT !.buf = Include(@, f)]
                 ELSE [x EXCEPT !.ok = FALSE,
                                !.buf = Write(linesep(@), Line("from", <<f>>), TRUE)]),
             [acc EXCEPT !.ok = @ /\ disk.dirs[d].is_dir, !.dirs = Append(@, <<"packs", d>>)],
             disk.dirs[d].cfgs)

ReadLine(acc, l, ended) ==
    LET now == [acc EXCEPT !.buf = Write(@, l, ended)]
        key == IF l.k = "text" /\ l.v[1] = "=" THEN l.v[2] ELSE None
    IN  CASE key = "cfg_file" ->
                 IF Readable(l.v[3]) THEN [now EXCEPT !.buf = Include(@, l.v[3])]
                 ELSE [now EXCEPT !.ok = FALSE]
          [] key = "cfg_dir" -> IncludeDir(now, l.v[3])
          [] key = "triggers_dir" ->
                 IF disk.dirs[l.v[3]].is_dir
                 THEN [now EXCEPT !.dirs = Append(@, <<"triggers", l.v[3]>>)]
                 ELSE [now EXCEPT !.ok = FALSE]
          [] OTHER -> now

Read(name) ==
    LET file == disk.files[name]
        headed == [Reading EXCEPT !.buf = Write(linesep(@), Line("from", <<name>>), TRUE)]
    IN  IF ~Readable(name) THEN [headed EXCEPT !.ok = FALSE]
        ELSE FoldLeft(LAMBDA a, i : Once(a, LAMBDA x :
                          ReadLine(x, file.lines[i], i < Len(file.lines) \/ file.nl)),
                      headed, [i \in DOMAIN file.lines |-> i])

read_config ==
    /\ stage = "read"
    /\ files # <<>>
    /\ \E r \in {Read(Head(files))} :
          /\ buf' = r.buf
          /\ correct' = r.ok
          /\ dirs' = r.dirs
    /\ files' = Tail(files)
    /\ UNCHANGED <<disk, split, stage, parseVars>>

AllRead ==
    /\ stage = "read"
    /\ files = <<>>
    /\ stage' = "parse"
    /\ buf' = IF buf.open = None THEN buf ELSE linesep(buf)
    /\ UNCHANGED <<disk, split, files, correct, dirs, parseVars>>

(***************************************************************************)
(* read_config_buf: one step for each line of the text                      *)
(***************************************************************************)
Parsing == stage = "parse" /\ line_nb <= Len(buf.lines)
Here == buf.lines[line_nb]

Passed ==
    /\ line_nb' = line_nb + 1
    /\ UNCHANGED readVars

\* A line that says where the following ones are from is left before the
\* backslashes are looked at.
ImportedFrom ==
    /\ Parsing
    /\ Here.k = "from"
    /\ define' = [define EXCEPT !.filefrom = Here.v[1]]
    /\ Passed
    /\ UNCHANGED <<tmp_line, objects, params, settings>>

Continued ==
    /\ Parsing
    /\ Here.k # "from"
    /\ Here.cont
    /\ tmp_line' = (IF tmp_line = None THEN <<>> ELSE tmp_line) \o Here.v
    /\ Passed
    /\ UNCHANGED <<define, objects, params, settings>>

\* What a line is after the lines before it that ended with a backslash.
Logical ==
    IF tmp_line = None \/ tmp_line = <<>> THEN Here
    ELSE Line("text", tmp_line \o Here.v)

Whole(kinds) ==
    /\ Parsing
    /\ Here.k # "from"
    /\ ~Here.cont
    /\ Logical.k \in kinds
    /\ tmp_line' = None
    /\ Passed

Close ==
    /\ Whole({"close"})
    /\ define' = [define EXCEPT !.in_define = FALSE]
    /\ UNCHANGED <<objects, params, settings>>

\* A brace alone that no define waits for is a line like any other one.
Open ==
    /\ Whole({"open"})
    /\ define.almost_in_define
    /\ define' = [define EXCEPT !.in_define = TRUE, !.almost_in_define = FALSE]
    /\ UNCHANGED <<objects, params, settings>>

Skip ==
    /\ Whole({"blank"})
    /\ UNCHANGED <<define, objects, params, settings>>

Saved(d) ==
    [t \in DOMAIN objects \cup {d.tmp_type} |->
        (IF t \in DOMAIN objects THEN objects[t] ELSE <<>>)
        \o (IF t = d.tmp_type THEN <<d.tmp>> ELSE <<>>)]

Define ==
    /\ Whole({"define", "almost"})
    /\ objects' = Saved(define)
    /\ define' = [define EXCEPT !.in_define = @ \/ Here.k = "define",
                                !.almost_in_define = @ \/ Here.k = "almost",
                                !.tmp_type = Here.v[1],
                                !.tmp = <<<<"imported_from", define.filefrom>>>>]
    /\ UNCHANGED <<params, settings>>

Keep ==
    /\ Whole({"text", "open"})
    /\ Logical.k = "open" => ~define.almost_in_define
    /\ IF define.in_define
       THEN define' = [define EXCEPT !.tmp = Append(@, Logical.v)] /\ UNCHANGED params
       ELSE params' = Append(params, Logical.v) /\ UNCHANGED define
    /\ UNCHANGED <<objects, settings>>

\* A parameter without a value makes the configuration wrong.
IsParam(words) == words[1] = "=" /\ Len(words) > 2
clean_params(ps) == \A i \in DOMAIN ps : IsParam(ps[i])

\* The value of a parameter is the last one it is given.
load_params(ps) ==
    LET good == SelectSeq(ps, IsParam)
    IN  [key \in {good[i][2] : i \in DOMAIN good} |->
            good[SelectLastInSeq(good, LAMBDA p : p[2] = key)][3]]

EndOfText ==
    /\ stage = "parse"
    /\ line_nb > Len(buf.lines)
    /\ stage' = "done"
    /\ objects' = Saved(define)
    /\ correct' = (correct /\ clean_params(params))
    /\ settings' = load_params(params)
    /\ UNCHANGED <<disk, split, files, buf, dirs, line_nb, define, tmp_line, params>>

(***************************************************************************)
(* split_semicolon.  A line is a sequence of characters.                    *)
(***************************************************************************)
RECURSIVE Parts(_)
Parts(line) ==
    IF \E i \in DOMAIN line : line[i] = ";"
    THEN LET i == SelectInSeq(line, LAMBDA c : c = ";")
         IN  <<SubSeq(line, 1, i - 1)>> \o Parts(SubSeq(line, i + 1, Len(line)))
    ELSE <<line>>

EndsWithSlash(p) == p # <<>> /\ p[Len(p)] = "\\"

RECURSIVE JoinAt(_, _, _)
JoinAt(parts, i, maxsplit) ==
    IF i >= Len(parts) THEN parts
    ELSE LET ends == EndsWithSlash(parts[i])
             p == IF ends THEN SubSeq(parts[i], 1, Len(parts[i]) - 1) ELSE parts[i]
         IN  IF ends \/ i > maxsplit
             THEN JoinAt(SubSeq(parts, 1, i - 1) \o <<p \o <<";">> \o parts[i + 1]>>
                         \o SubSeq(parts, i + 2, Len(parts)), i, maxsplit)
             ELSE JoinAt(parts, i + 1, maxsplit)

split_semicolon(line, maxsplit) ==
    JoinAt(Parts(line), 1, IF maxsplit = None THEN Len(Parts(line)) ELSE maxsplit)

(***************************************************************************)
(* The specification                                                        *)
(***************************************************************************)
Init ==
    /\ \E c \in Cases : disk = c.disk /\ split = c.split
    /\ stage = "read"
    /\ files = disk.given
    /\ buf = [lines |-> <<>>, open |-> None]
    /\ correct = TRUE
    /\ dirs = <<>>
    /\ line_nb = 1
    /\ define = [in_define |-> FALSE, almost_in_define |-> FALSE, tmp_type |-> "void",
                 tmp |-> <<>>, filefrom |-> None]
    /\ tmp_line = None
    /\ objects = [t \in {"host", "service"} |-> <<>>]
    /\ params = <<>>
    /\ settings = [t \in {} |-> None]

Next ==
    \/ read_config
    \/ AllRead
    \/ ImportedFrom
    \/ Continued
    \/ Close
    \/ Open
    \/ Skip
    \/ Define
    \/ Keep
    \/ EndOfText

Spec == Init /\ [][Next]_configVars

(***************************************************************************)
(* Properties.  blocks is what the author of a file means by it: parameters *)
(* and objects, whatever way the lines are broken.                          *)
(***************************************************************************)
DirFiles(d) == SelectSeq(disk.dirs[d].cfgs, Readable)
Included(b) ==
    CASE b.type = "param" /\ b.words[2] = "cfg_file" -> SelectSeq(<<b.words[3]>>, Readable)
      [] b.type = "param" /\ b.words[2] = "cfg_dir" -> DirFiles(b.words[3])
      [] OTHER -> <<>>
BlocksOf(names) == FlattenSeq([i \in DOMAIN names |-> disk.files[names[i]].blocks])
Meant ==
    LET read == BlocksOf(SelectSeq(disk.given, Readable))
    IN  FlattenSeq([i \in DOMAIN read |-> <<read[i]>> \o BlocksOf(Included(read[i]))])
MeantOf(t) == SelectSeq(Meant, LAMBDA b : b.type = t)

\* Nothing of one file runs into the next one, whether or not its last line has
\* a line return, or with one ends with a backslash: the objects of every type are those the readable
\* files define, in the order the files are read in, with their properties,
\* the parameters are those outside of the objects, and the last value of a
\* parameter is the one that counts (the line returns of read_config, and
\* in_define, almost_in_define and continuation_line of read_config_buf).
ObjectsAreRead ==
    stage = "done" =>
        /\ \A t \in {"host", "service"} :
              LET meant == MeantOf(t) IN
              /\ Len(objects[t]) = Len(meant)
              /\ \A i \in DOMAIN meant : Tail(objects[t][i]) = meant[i].props
        /\ params = [i \in DOMAIN MeantOf("param") |-> MeantOf("param")[i].words]
        /\ \A i \in DOMAIN MeantOf("param") :
              LET p == MeantOf("param")[i] IN
              (IsParam(p.words) /\ \A j \in DOMAIN MeantOf("param") :
                   MeantOf("param")[j].words[2] = p.words[2] => j <= i)
              => settings[p.words[2]] = p.words[3]

\* The configuration is said to be wrong exactly when something that is asked
\* for cannot be read: a given or an included file, a directory, a file in it,
\* or when a parameter has no value (the four places that reset
\* conf_is_correct in read_config, and clean_params).
BadFileIsTold ==
    stage = "done" =>
        (correct <=>
            /\ \A f \in ToSet(disk.given) : Readable(f)
            /\ \A b \in ToSet(Meant) : b.type = "param" => IsParam(b.words)
            /\ \A b \in ToSet(BlocksOf(SelectSeq(disk.given, Readable))) :
                  b.type = "param" /\ IsParam(b.words) =>
                    /\ b.words[2] = "cfg_file" => Readable(b.words[3])
                    /\ b.words[2] \in {"cfg_dir", "triggers_dir"} => disk.dirs[b.words[3]].is_dir
                    /\ b.words[2] = "cfg_dir" =>
                          \A f \in ToSet(disk.dirs[b.words[3]].cfgs) : Readable(f))

Escaped(line, i) == i > 1 /\ line[i - 1] = "\\"
Cuts(line, maxsplit) ==
    {i \in DOMAIN line : /\ line[i] = ";" /\ ~Escaped(line, i)
                         /\ maxsplit # None =>
                              Cardinality({j \in 1..i - 1 : line[j] = ";" /\ ~Escaped(line, j)})
                                  < maxsplit}

\* A semicolon cuts a line unless a backslash is in front of it or the limit of
\* cuts is reached, and only these backslashes are taken away: no part loses
\* or gains a character (split_semicolon, which also cuts external commands).
CutAtSemicolons ==
    LET line == split.line
        cuts == Cuts(line, split.maxsplit)
        got == split_semicolon(line, split.maxsplit)
        kept == {i \in DOMAIN line : ~(line[i] = "\\" /\ i < Len(line) /\ line[i + 1] = ";")}
        Number(i) == Cardinality({c \in cuts : c < i}) + 1
    IN  /\ Len(got) = Cardinality(cuts) + 1
        /\ \A n \in DOMAIN got :
              got[n] = LET part == {i \in kept \ cuts : Number(i) = n}
                           pos == SetToSortSeq(part, <)
                       IN  [j \in DOMAIN pos |-> line[pos[j]]]
=============================================================================
