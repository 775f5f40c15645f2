---------------------------- MODULE TimePeriods ----------------------------
(***************************************************************************)
(* Time periods: daterange.py and objects/timeperiod.py.                   *)
(*                                                                         *)
(* A period is a list of date ranges and a list of excluded periods.  The  *)
(* scheduler asks it whether a time is valid (is_time_valid) and which     *)
(* time is the next valid one, to plan checks, notifications and           *)
(* downtimes.  A date range of a form without a year remembers years in    *)
(* syear and eyear when it is asked, so the answers depend on the earlier  *)
(* questions; dr is that state.                                            *)
(*                                                                         *)
(* The calendar is a parameter: a week, the months of a year and a day are *)
(* shorter than ours, so that behaviours go through several years.  Times  *)
(* are seconds since the first day of the year 1, which has weekday 0.     *)
(***************************************************************************)
EXTENDS Integers, Sequences, FiniteSets, FiniteSetsExt, SequencesExt

CONSTANTS
    Day,        \* 86400, the seconds of a day
    Minute,     \* 60, the step of a search
    Hour,       \* 3600, the step of a search after a month
    Week,       \* 7, the days of a week
    MonthStart, \* the days of a year before each month, and the days of a year
    LastYear,   \* bound: the last year of a behaviour
    MaxDrift,   \* bound on the years that eyear runs ahead
    Entries,    \* the date ranges, as they are written in the configuration
    Excludes    \* the lists of periods that a period may exclude

Months == Len(MonthStart) - 1
YearDays == MonthStart[Months + 1]
MonthDays(m) == MonthStart[m + 1] - MonthStart[m]
MonthSpan == 30 * Day           \* a search goes in minutes for this long,
YearSpan == 2 * YearDays * Day  \* and ends after this long (366 days)

VARIABLES
    entry,      \* the date range as it is written
    dr,         \* the Daterange object
    exclude,    \* the excluded periods, each a sequence of entries
    now,        \* the clock
    cache,      \* the answers of the period's get_next_valid_time_from_t
    isActive,   \* is_active of the period: -1 before the first turn, then 0 or 1
    asked,      \* history: the date range before the last question
    answer      \* the last answer of is_time_valid for dr, and its time

vars == <<entry, dr, exclude, now, cache, isActive, asked, answer>>

None == -1

\* F(x), with x evaluated once.
Once(x, F(_)) == CHOOSE r \in {F(v) : v \in {x}} : TRUE

-----------------------------------------------------------------------------
(* The calendar: util.py and the library that it uses.                     *)

get_sec_from_morning(t) == t % Day
get_day(t) == t - get_sec_from_morning(t)
YearOf(t) == (t \div Day) \div YearDays + 1
DayOfYear(t) == (t \div Day) % YearDays
MonthOf(t) == CHOOSE m \in 1..Months :
    MonthStart[m] <= DayOfYear(t) /\ DayOfYear(t) < MonthStart[m + 1]
Weekday(t) == (t \div Day) % Week

\* mktime, which takes a day beyond the end of the month too.
get_start_of_day(y, m, d) == ((y - 1) * YearDays + MonthStart[m] + d - 1) * Day
get_end_of_day(y, m, d) == get_start_of_day(y, m, d) + Day - 1

\* The k-th such weekday of a month, from its end when k is negative.
find_day_by_weekday_offset(y, m, w, k) ==
    LET first == 1 + ((w - Weekday(get_start_of_day(y, m, 1))) % Week)
        n == (MonthDays(m) - first) \div Week + 1
    IN first + (IF k >= 0 THEN k - 1 ELSE n + k) * Week

find_day_by_offset(y, m, k) ==
    IF k >= 0 THEN Min({k, MonthDays(m)}) ELSE Max({1, MonthDays(m) + k + 1})

-----------------------------------------------------------------------------
(* The date range that an entry stands for.                                *)

\* An entry is written as FROM [- TO] [/ skip] ranges, where FROM and TO are a
\* calendar date, a weekday with an offset and a month, a weekday with an
\* offset, a day of a month, a day of every month or a weekday.  Without TO
\* the range ends where it starts; a TO of a single number takes the words of
\* FROM.
End(e) ==
    CASE e.to = <<>> -> e.from
      [] e.to # <<>> /\ DOMAIN e.to[1] = {"k"} -> [e.from EXCEPT !.k = e.to[1].k]
      [] OTHER -> e.to[1]

resolve_daterange(e) ==
    [kind |-> e.kind, from |-> e.from, to |-> End(e), ranges |-> e.ranges,
     skip_interval |-> e.skip,
     syear |-> IF e.kind = "calendar" THEN e.from.y ELSE 0,
     eyear |-> IF e.kind = "calendar" THEN End(e).y ELSE 0]

-----------------------------------------------------------------------------
(* get_start_and_end_time: the next (or current) span of days of the range *)
(* seen from t, and the years that the object remembers afterwards.        *)

Span(s, e, sy, ey) == [start |-> s, end |-> e, syear |-> sy, eyear |-> ey]

\* The day of one end of a range in month m of year y; k is the offset.
DayIn(kind, side, y, m, k) ==
    IF kind \in {"monthweekday", "weekday"}
    THEN find_day_by_weekday_offset(y, m, side.w, k)
    ELSE find_day_by_offset(y, m, k)

StandardSpan(r, t) ==
    LET diff == (r.from.w - Weekday(t)) % Week IN
    Span(get_day(t) + diff * Day, get_day(t) + diff * Day + Day - 1, 0, 0)

CalendarSpan(r, t) ==
    Span(get_start_of_day(r.syear, r.from.m, r.from.k),
         get_end_of_day(r.eyear, r.to.m, r.to.k), r.syear, r.eyear)

\* Mutant: a range into the next year has always begun in this one.
YearlySpanFromThisYear(r, t) ==
    LET s == get_start_of_day(YearOf(t), r.from.m,
                 DayIn(r.kind, r.from, YearOf(t), r.from.m, r.from.k))
        end(y) ==
            get_end_of_day(y, r.to.m, DayIn(r.kind, r.to, y, r.to.m, r.to.k))
    IN Span(s, IF s > end(YearOf(t)) THEN end(YearOf(t) + 1) ELSE end(YearOf(t)),
            YearOf(t), YearOf(t))

\* MonthWeekDayDaterange and MonthDateDaterange.  The latter takes the day of
\* the end for the start when it looks at another year.
YearlySpan(r, t) ==
    LET sy == IF r.syear = 0 THEN YearOf(t) ELSE r.syear
        ey == IF r.eyear = 0 THEN YearOf(t) ELSE r.eyear
        other == IF r.kind = "monthdate" THEN r.to.k ELSE r.from.k
        start(y, k) ==
            get_start_of_day(y, r.from.m, DayIn(r.kind, r.from, y, r.from.m, k))
        end(y) ==
            get_end_of_day(y, r.to.m, DayIn(r.kind, r.to, y, r.to.m, r.to.k))
        s == start(sy, r.from.k)
        e == end(ey)
    IN CASE s > e /\ t > e -> Span(s, end(ey + 1), sy, ey)
         [] s > e /\ t <= e -> Span(start(sy - 1, other), e, sy, ey)
         [] s <= e /\ t > e -> Span(start(sy + 1, other), end(ey + 1), sy, ey)
         [] OTHER -> Span(s, e, sy, ey)

\* WeekDayDaterange and MonthDayDaterange.  A month after the last one is the
\* first of the next year, and the object keeps that year.
MonthlySpan(r, t) ==
    LET sy == IF r.syear = 0 THEN YearOf(t) ELSE r.syear
        ey == IF r.eyear = 0 THEN YearOf(t) ELSE r.eyear
        m == MonthOf(t)
        next(k) == IF k + 1 > Months THEN 1 ELSE k + 1
        over(k) == IF k + 1 > Months THEN 1 ELSE 0
        start(y, k) ==
            get_start_of_day(y, k, DayIn(r.kind, r.from, y, k, r.from.k))
        \* MonthDayDaterange finds the day in month d.
        end(y, k, d) == get_end_of_day(y, k,
            DayIn(r.kind, r.to, y, IF r.kind = "monthday" THEN d ELSE k, r.to.k))
        crosses == start(sy, m) > end(ey, m, m)
        m1 == IF crosses THEN next(m) ELSE m
        ey1 == IF crosses THEN ey + over(m) ELSE ey
        e1 == IF crosses THEN end(ey1, m1, m) ELSE end(ey, m, m)
        sy2 == sy + over(m)
        ey2 == ey1 + over(m1)
    IN IF e1 < t
       THEN Span(start(sy2, next(m)), end(ey2, next(m1), next(m1)), sy2, ey2)
       ELSE Span(start(sy, m), e1, sy, ey1)

get_start_and_end_time(r, t) ==
    CASE r.kind = "standard" -> StandardSpan(r, t)
      [] r.kind = "calendar" -> CalendarSpan(r, t)
      [] r.kind \in {"monthweekday", "monthdate"} -> YearlySpan(r, t)
      [] OTHER -> MonthlySpan(r, t)

\* The object after the call.
Stored(r, span) == [r EXCEPT !.syear = span.syear, !.eyear = span.eyear]
After(r, t) == Stored(r, get_start_and_end_time(r, t))

-----------------------------------------------------------------------------
(* Daterange: questions about a time.                                      *)

is_time_day_valid(r, t) ==
    Once(get_start_and_end_time(r, t), LAMBDA span : span.start <= t /\ t <= span.end)

InTimerange(r, t) ==
    \E k \in DOMAIN r.ranges :
        /\ r.ranges[k][1] <= get_sec_from_morning(t)
        /\ get_sec_from_morning(t) <= r.ranges[k][2]

is_time_valid(r, t) == is_time_day_valid(r, t) /\ InTimerange(r, t)

Least(S) == IF S = {} THEN None ELSE Min(S)

Starts(r) == {r.ranges[k][1] : k \in DOMAIN r.ranges}
Ends(r) == {r.ranges[k][2] : k \in DOMAIN r.ranges}

get_next_future_timerange_valid(r, t) ==
    Least({s \in Starts(r) : s >= get_sec_from_morning(t)})

get_next_future_timerange_invalid(r, t) ==
    Least({s \in Starts(r) \cup Ends(r) : s >= get_sec_from_morning(t)} \ {Day})

\* The day, and the object afterwards.
get_next_valid_day(r, t) ==
    LET finished == get_next_future_timerange_valid(r, t) = None
        u == IF finished THEN get_day(t) + Day ELSE t
        Judged(span) ==
            IF t <= span.start THEN [day |-> get_day(span.start), r |-> Stored(r, span)]
            ELSE [day |-> IF is_time_day_valid(Stored(r, span), t) THEN get_day(t) ELSE None,
                  r |-> After(Stored(r, span), t)]
    IN Once(get_start_and_end_time(r, u), Judged)

\* The first second of a range on the day, None without a day or a range.
SecondOf(r, day) ==
    IF day = None THEN None
    ELSE IF get_next_future_timerange_valid(r, day) = None THEN None
    ELSE day + get_next_future_timerange_valid(r, day)

get_next_valid_time_from_t(r, t) ==
    LET sec(first) == get_next_future_timerange_valid(r,
                          IF first.day # None /\ t < first.day THEN first.day ELSE t)
        Later(first) ==
            IF sec(first) # None /\ first.day # None THEN first.day + sec(first)
            ELSE Once(get_next_valid_day(first.r, get_day(t) + Day).day,
                      LAMBDA day : SecondOf(r, day))
    IN IF is_time_valid(r, t) THEN t
       ELSE Once(get_next_valid_day(After(r, t), t), Later)

get_next_invalid_day(r, t) ==
    IF ~is_time_day_valid(r, t) THEN t
    ELSE IF get_next_future_timerange_invalid(r, t) # None THEN get_day(t)
    ELSE get_day(get_start_and_end_time(r, get_day(t)).end + 1)

get_next_invalid_time_from_t(r, t) ==
    LET Found(day) ==
            LET sec == get_next_future_timerange_invalid(r, IF t < day THEN day ELSE t)
            IN IF sec = None THEN day ELSE day + sec + 1
    IN IF ~is_time_valid(r, t) THEN t ELSE Once(get_next_invalid_day(r, t), Found)

-----------------------------------------------------------------------------
(* Timeperiod.  A period is a sequence of date ranges and a sequence of    *)
(* excluded periods.  The searches go on until they find a time or are too *)
(* far away.                                                               *)

RECURSIVE PeriodValid(_, _)
PeriodValid(p, t) ==
    /\ \A k \in DOMAIN p.exclude : ~PeriodValid(p.exclude[k], t)
    /\ \E k \in DOMAIN p.ranges : is_time_valid(p.ranges[k], t)

\* A turn of the search for an invalid time: the first time that is invalid
\* for some range, one step further when the period is still valid there.
Advanced(p, t, from) ==
    LET At(u) ==
            IF ~PeriodValid(p, u) THEN [t |-> u, found |-> TRUE]
            ELSE LET v == u + (IF u > from + MonthSpan THEN Hour ELSE Minute)
                 IN [t |-> v, found |-> v > from + YearSpan]
    IN Once({get_next_invalid_time_from_t(p.ranges[k], t) : k \in DOMAIN p.ranges},
            LAMBDA S : At(IF S = {} THEN t ELSE Min(S)))

RECURSIVE PeriodNextInvalid(_, _)
RECURSIVE SearchInvalid(_, _, _)
\* An excluded period that is valid at the time found sends the search on.
SearchInvalid(p, t, from) ==
    LET step(acc, x) ==
            IF ~PeriodValid(x, acc.t) THEN acc
            ELSE Once(PeriodNextInvalid(x, acc.t + Minute),
                      LAMBDA u : [t |-> u, found |-> u > from + MonthSpan])
    IN Once(FoldLeft(step, Advanced(p, t, from), p.exclude),
            LAMBDA last : IF last.found THEN last.t ELSE SearchInvalid(p, last.t, from))

PeriodNextInvalid(p, t) ==
    IF ~PeriodValid(p, t) THEN t ELSE SearchInvalid(p, t, t)

Candidates(p, t) ==
    {get_next_valid_time_from_t(p.ranges[k], t) : k \in DOMAIN p.ranges} \ {None}

\* A candidate is taken when some excluded period is not valid then.
Free(p, C) ==
    {u \in C : p.exclude = <<>>
               \/ \E k \in DOMAIN p.exclude : ~PeriodValid(p.exclude[k], u)}

RECURSIVE SearchValid(_, _, _)
SearchValid(p, t, from) ==
    LET left(C) == {PeriodNextInvalid(p.exclude[k], Min(C)) : k \in DOMAIN p.exclude}
        At(u, free) == CASE u > from + YearSpan -> None
                         [] u <= from + YearSpan /\ free -> u
                         [] OTHER -> SearchValid(p, u, from)
        Among(C) ==
            IF C = {} THEN None
            ELSE IF Free(p, C) # {} THEN At(Min(Free(p, C)), TRUE)
            ELSE At(Min(left(C)), FALSE)
    IN Once(Candidates(p, t), Among)

PeriodNextValid(p, t) == SearchValid(p, t, t)

-----------------------------------------------------------------------------
(* A period in a scheduler.                                                *)

Fresh(es) == [ranges |-> [k \in DOMAIN es |-> resolve_daterange(es[k])],
              exclude |-> <<>>]
Period == [ranges |-> <<dr>>, exclude |-> [k \in DOMAIN exclude |-> Fresh(exclude[k])]]

NoAnswer == [t |-> None, valid |-> FALSE]

Stateless == {"calendar", "standard"}

Init ==
    /\ entry \in Entries
    /\ dr = resolve_daterange(entry)
    /\ exclude \in (IF entry.kind \in Stateless THEN Excludes ELSE {<<>>})
    /\ now = 0
    /\ cache = <<>> /\ isActive = None
    /\ answer = NoAnswer /\ asked = dr

TimePasses ==
    /\ YearOf(now + 1) <= LastYear
    /\ now' = now + 1
    /\ answer' = NoAnswer /\ asked' = dr
    /\ UNCHANGED <<entry, dr, exclude, cache, isActive>>

\* The period is active when it is valid now; the question about dr is the
\* one that may change the object.
check_and_log_activation_change ==
    /\ dr.eyear <= YearOf(now) + MaxDrift
    /\ isActive' = IF PeriodValid(Period, now) THEN 1 ELSE 0
    /\ dr' = IF \E k \in DOMAIN exclude : PeriodValid(Period.exclude[k], now)
             THEN dr ELSE After(dr, now)
    /\ asked' = dr
    /\ answer' = [t |-> now, valid |-> PeriodValid(Period, now)]
    /\ UNCHANGED <<entry, exclude, now, cache>>

\* get_next_valid_time_from_t of the period, asked for a check or a
\* notification that is planned for now or later.
PlanNext(t) ==
    /\ entry.kind \in Stateless
    /\ t \notin DOMAIN cache
    /\ cache' = [u \in DOMAIN cache \cup {t} |->
                    IF u = t THEN PeriodNextValid(Period, t) ELSE cache[u]]
    /\ UNCHANGED <<entry, dr, exclude, now, isActive, asked, answer>>

clean_cache ==
    /\ \E t \in DOMAIN cache : t < now
    /\ cache' = [t \in {u \in DOMAIN cache : u >= now} |-> cache[t]]
    /\ UNCHANGED <<entry, dr, exclude, now, isActive, asked, answer>>

Next ==
    \/ TimePasses
    \/ check_and_log_activation_change
    \/ cache = <<>> /\ PlanNext(now)
    \/ clean_cache

Spec == Init /\ [][Next]_vars

-----------------------------------------------------------------------------
(* What the documentation says about the entries.                          *)

\* The time is in the part of the day that the entry names.
InHours(e, t) ==
    \E k \in DOMAIN e.ranges : t % Day \in e.ranges[k][1]..e.ranges[k][2]

\* The days that an entry stands for (timeperiod.rst), skip intervals aside,
\* as pairs of a first and a last second.  A range whose end comes before its
\* start goes on into the next year or month.
Until(s, e, following) == <<s, IF e >= s THEN e ELSE following>>

Spans(e) ==
    LET a == e.from
        b == End(e)
        start(y, m) == get_start_of_day(y, m, DayIn(e.kind, a, y, m, a.k))
        end(y, m) == get_end_of_day(y, m, DayIn(e.kind, b, y, m, b.k))
    IN CASE e.kind = "calendar" ->
                {<<get_start_of_day(a.y, a.m, a.k), get_end_of_day(b.y, b.m, b.k)>>}
         [] e.kind = "standard" ->
                {<<d * Day, d * Day + Day - 1>> :
                    d \in {x \in 0..(YearDays * LastYear) : x % Week = a.w}}
         [] e.kind \in {"monthdate", "monthweekday"} ->
                {Until(start(y, a.m), end(y, b.m), end(y + 1, b.m)) :
                    y \in 0..LastYear}
         [] OTHER ->
                {Until(start(y, m), end(y, m),
                       IF m = Months THEN end(y + 1, 1) ELSE end(y, m + 1)) :
                    y \in 0..LastYear, m \in 1..Months}

Meant(e, t) == InHours(e, t) /\ \E s \in Spans(e) : s[1] <= t /\ t <= s[2]

Excluded(t) ==
    \E k \in DOMAIN exclude : \E j \in DOMAIN exclude[k] : Meant(exclude[k][j], t)

\* A range from a day to an earlier day of the month, every month.
IntoNextMonth(e) ==
    /\ e.kind \in {"monthday", "weekday"}
    /\ \E s \in Spans(e) : MonthOf(s[1]) # MonthOf(s[2])

\* As long as the years that a date range has stored are the current one, the
\* period is valid exactly at the times that the range means and no excluded
\* period does, whatever was asked before (get_start_and_end_time, with its
\* ranges that end in the next year).  Ranges into the next month aside.
RightInItsYear ==
    answer.t # None /\ ~IntoNextMonth(entry)
        /\ {asked.syear, asked.eyear} \subseteq {0, YearOf(answer.t)}
        => (answer.valid <=> Meant(entry, answer.t) /\ ~Excluded(answer.t))

\* A period whose date range names its years or a weekday stays right forever.
AlwaysRight ==
    answer.t # None /\ entry.kind \in Stateless =>
        (answer.valid <=> Meant(entry, answer.t) /\ ~Excluded(answer.t))

\* The next valid time that a check is planned for is valid, is not in the
\* past, and none before it is valid (get_next_valid_time_from_t, whose answer
\* may come from the cache).
NextIsFirst ==
    \A t \in DOMAIN cache :
        /\ cache[t] # None => cache[t] >= t /\ PeriodValid(Period, cache[t])
        /\ \A u \in t..(t + YearSpan) :
                (cache[t] # None /\ cache[t] <= u) \/ ~PeriodValid(Period, u)
=============================================================================
