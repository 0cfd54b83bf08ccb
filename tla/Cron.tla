---------------------------------- MODULE Cron ----------------------------------
(***************************************************************************)
(* CronParser::nextExecution (src/scheduler/cron_parser.cpp) and the       *)
(* library it calls (include/corpcron/third_party/croncpp.h): an           *)
(* expression becomes a set of values per field, and the search moves a    *)
(* std::tm forward, field after field, with mktime putting it in order     *)
(* after every change.  The local time has no daylight saving.             *)
(*                                                                         *)
(* An expression is given by the terms of its fields: each a range, with a *)
(* step (-1: none), of which "*" and a single value are special cases.      *)
(***************************************************************************)
EXTENDS Integers, Sequences, FiniteSets, FiniteSetsExt, SequencesExt

CONSTANTS
    Jobs,           \* the expressions, each with the time it is asked at
    FirstYear,      \* the years of the calendar
    LastYear

VARIABLES
    job,            \* the expression and `now`
    cex,            \* the values of each field: cronexpr
    date,           \* the std::tm the search moves
    dot,            \* the year it started in
    again,          \* the second find_next of cron_next
    stage,          \* the field find_next is at
    marked,         \* marked_fields
    calls,          \* the find_next calls that wait for one they made
    result          \* what nextExecution returns: a time or none

cronVars == <<job, cex, date, dot, again, stage, marked, calls, result>>

Names == <<"second", "minute", "hour", "day_of_month", "month", "day_of_week">>

\* cron_standard_traits.
MinOf(f) == IF f \in {"day_of_month", "month"} THEN 1 ELSE 0
MaxOf(f) ==
    CASE f \in {"second", "minute"} -> 59
      [] f = "hour"         -> 23
      [] f = "day_of_month" -> 31
      [] f = "month"        -> 12
      [] f = "day_of_week"  -> 6

Star           == [form |-> "star", first |-> 0, last |-> 0, step |-> -1]
Just(n)        == [form |-> "one", first |-> n, last |-> n, step |-> -1]
Between(a, b)  == [form |-> "range", first |-> a, last |-> b, step |-> -1]
Every(t, step) == [t EXCEPT !.step = step]

-----------------------------------------------------------------------------
(* The C library: std::tm, mktime *)

\* Days since 1970-01-01 of a day of the Gregorian calendar, and back.
DayNumber(y, m, d) ==
    LET yy == IF m <= 1 THEN y - 1 ELSE y
        mm == IF m <= 1 THEN m + 10 ELSE m - 2
    IN  365 * yy + yy \div 4 - yy \div 100 + yy \div 400 + (153 * mm + 2) \div 5 + d - 719469

Civil(n) ==
    LET z   == n + 719468
        era == z \div 146097
        doe == z % 146097
        yoe == (doe - doe \div 1460 + doe \div 36524 - doe \div 146096) \div 365
        doy == doe - (365 * yoe + yoe \div 4 - yoe \div 100)
        mp  == (5 * doy + 2) \div 153
        m   == IF mp < 10 THEN mp + 2 ELSE mp - 10
    IN  [year |-> yoe + 400 * era + (IF m <= 1 THEN 1 ELSE 0), month |-> m,
         day_of_month |-> doy - (153 * mp + 2) \div 5 + 1]

\* The years a search may look at, as a table.
Calendar == [n \in DayNumber(FirstYear, 0, 1)..DayNumber(LastYear, 11, 31) |-> Civil(n)]

Tm(y, m, d, h, i, s) ==
    LET min  == i + s \div 60
        hour == h + min \div 60
        n    == DayNumber(y + m \div 12, m % 12, 1) + d - 1 + hour \div 24
    IN  Calendar[n] @@ [hour |-> hour % 24, minute |-> min % 60, second |-> s % 60, day_of_week |-> (n + 4) % 7]

\* mktime: every field back in its range, the day of the week set.  (u: t as a value, taken once.)
mktime(t) ==
    CHOOSE v \in {Tm(u.year, u.month, u.day_of_month, u.hour, u.minute, u.second) : u \in {t}} : TRUE

\* The order of time_t.
Before(a, b) ==
    LET da == DayNumber(a.year, a.month, a.day_of_month)  sa == 3600 * a.hour + 60 * a.minute + a.second
        db == DayNumber(b.year, b.month, b.day_of_month)  sb == 3600 * b.hour + 60 * b.minute + b.second
    IN  da < db \/ (da = db /\ sa < sb)

-----------------------------------------------------------------------------
(* make_cron *)

Bad == {-1}     \* bad_cronexpr is thrown

to_cron_int(n) == n % 256

make_range(t, lo, hi) ==
    IF t.form = "star" THEN <<lo, hi>> ELSE <<to_cron_int(t.first), to_cron_int(t.last)>>

\* i += delta on a cron_int, as long as it is not past the last value.
Steps(i, last, delta) ==
    LET at(k) == (i + k * delta) % 256
        end   == CHOOSE n \in 0..256 : at(n) > last /\ \A k \in 0..(n - 1) : at(k) <= last
    IN  {at(k) : k \in 0..(end - 1)}

\* The bits one term sets, counted from zero.
TermBits(t, lo, hi) ==
    LET r     == make_range(t, lo, hi)
        last  == IF t.step # -1 /\ t.form # "range" THEN hi ELSE r[2]
        delta == IF t.step = -1 THEN 1 ELSE to_cron_int(t.step)
    IN  IF r[1] > hi \/ r[2] > hi \/ r[1] < lo \/ r[2] < lo \/ r[1] > r[2] \/ delta = 0 THEN Bad
        ELSE Steps(r[1] - lo, last - lo, delta)

set_cron_field(terms, lo, hi) ==
    LET bits == UNION {TermBits(t, lo, hi) : t \in ToSet(terms)}
    IN  IF terms = <<>> \/ Bad \subseteq bits THEN Bad ELSE bits

make_cron(expr) == [f \in ToSet(Names) |-> set_cron_field(expr[f], MinOf(f), MaxOf(f))]

-----------------------------------------------------------------------------
(* find_next *)

\* A field of the date by its bit: months count from zero in both, days from one.
Bit(t, f) == IF f = "day_of_month" THEN t[f] - 1 ELSE t[f]

add_to_field(t, f, n) == mktime([t EXCEPT ![f] = @ + n])
set_field(t, f, n)    == mktime([t EXCEPT ![f] = n])
reset_field(t, f)     == set_field(t, f, IF f = "day_of_month" THEN 1 ELSE 0)

Order == <<"second", "minute", "hour", "day_of_month", "month">>

\* Mutant: the fields below the one that moved keep their values.
reset_all_fields_Keeps(when, fields) == when

reset_all_fields(when, fields) ==
    FoldLeft(LAMBDA d, f : IF f \in fields THEN reset_field(d, f) ELSE d, when, Order)

NextField(f) ==
    CASE f = "second" -> "minute" [] f = "minute" -> "hour" [] f = "hour" -> "day_of_month" [] f = "month" -> "year"

\* The next value a field may have, from its present one on, carrying into the next field.
find_next_value(bits, t, f, fields) ==
    LET up     == {b \in bits : b >= t[f]}
        from   == IF up = {} THEN reset_field(add_to_field(t, NextField(f), 1), f) ELSE t
        target == IF up = {} THEN Min(bits) ELSE Min(up)
    IN  [value |-> target,
         date  |-> IF target = t[f] THEN t ELSE reset_all_fields(set_field(from, f, target), fields)]

\* Day after day, at most 366 of them, until the day of the month and the day of the week both fit.
find_next_day(c, t, fields) ==
    LET day(k)  == add_to_field(t, "day_of_month", k)
        fits(k) == LET d == day(k) IN Bit(d, "day_of_month") \in c["day_of_month"] /\ d.day_of_week \in c["day_of_week"]
        n == CHOOSE k \in 0..366 : (k = 366 \/ fits(k)) /\ \A j \in 0..(k - 1) : ~fits(j)
    IN  IF n = 0 THEN t ELSE reset_all_fields(day(n), fields)

-----------------------------------------------------------------------------
(* The search, a step per field: find_next<Traits> calls itself when a field had to     *)
(* move, and goes on from the date the call leaves, with the next field.               *)

Then(f) == IF f = "month" THEN "return" ELSE Order[CHOOSE i \in 2..5 : Order[i - 1] = f]

\* find_next of the outermost call has returned, or an exception has ended it.
Done(r) == stage' = "done" /\ result' = r /\ UNCHANGED <<job, cex, date, dot, again, marked, calls>>

\* nextExecution: localtime, make_cron; then cron_next calls find_next.
Start ==
    /\ stage = "parse"
    /\ cex' = make_cron(job.expr)
    /\ IF \E f \in DOMAIN cex' : cex'[f] = Bad
       THEN stage' = "done"
       ELSE stage' = "second"
    /\ UNCHANGED <<job, date, dot, again, marked, calls, result>>

\* What follows a field: it stood (mark it, go on) or moved (a call of its own first).
Stands(f) == stage' = Then(f) /\ marked' = marked \cup ({f} \ {"month"}) /\ UNCHANGED calls
Moved(f)  ==
    /\ stage' = "second"
    /\ marked' = {}
    /\ calls' = Append(calls, [stage |-> Then(f), marked |-> marked])

Second ==
    /\ stage = "second"
    /\ \E r \in {find_next_value(cex["second"], date, "second", {})} :
           /\ date' = r.date
           /\ IF r.value = date.second THEN Stands("second")
              ELSE stage' = "minute" /\ UNCHANGED <<marked, calls>>
    /\ UNCHANGED <<job, cex, dot, again, result>>

Field(f) ==
    /\ stage = f
    /\ \E r \in {find_next_value(cex[f], date, f, marked)} :
           /\ date' = r.date
           /\ IF r.value = date[f] THEN Stands(f) ELSE Moved(f)
    /\ UNCHANGED <<job, cex, dot, again, result>>

Day ==
    /\ stage = "day_of_month"
    /\ date' = find_next_day(cex, date, marked)
    /\ IF date'.day_of_month = date.day_of_month THEN Stands("day_of_month") ELSE Moved("day_of_month")
    /\ UNCHANGED <<job, cex, dot, again, result>>

\* A month more than four years ahead ends the search: cron_next returns no date.
Month ==
    /\ stage = "month"
    /\ \E r \in {find_next_value(cex["month"], date, "month", marked)} :
           IF r.value # date.month /\ r.date.year - dot > 4 THEN Done(<<>>)
           ELSE /\ date' = r.date
                /\ IF r.value = date.month THEN Stands("month") ELSE Moved("month")
                /\ UNCHANGED <<job, cex, dot, again, result>>

Return ==
    /\ stage = "return" /\ calls # <<>>
    /\ stage' = Last(calls).stage
    /\ marked' = Last(calls).marked
    /\ calls' = Front(calls)
    /\ UNCHANGED <<job, cex, date, dot, again, result>>

\* Mutant: the search starts again from the same time.
Found_SameTime ==
    /\ stage = "return" /\ calls = <<>>
    /\ IF date = job.now
       THEN marked' = {} /\ stage' = "second" /\ UNCHANGED <<job, cex, date, dot, again, calls, result>>
       ELSE Done(IF Before(job.now, date) THEN <<date>> ELSE <<>>)

\* cron_next: the time it started from does not count; nextExecution: only the future does.
Found ==
    /\ stage = "return" /\ calls = <<>>
    /\ IF date = job.now /\ ~again
       THEN /\ date' = add_to_field(date, "second", 1)
            /\ dot' = date'.year
            /\ again' = TRUE
            /\ marked' = {}
            /\ stage' = "second"
            /\ UNCHANGED <<job, cex, calls, result>>
       ELSE Done(IF Before(job.now, date) THEN <<date>> ELSE <<>>)

CronInit ==
    /\ job \in Jobs
    /\ cex = <<>>
    /\ date = job.now
    /\ dot = job.now.year
    /\ again = FALSE
    /\ marked = {}
    /\ calls = <<>>
    /\ stage = "parse"
    /\ result = <<>>

CronNext == Start \/ Second \/ Field("minute") \/ Field("hour") \/ Day \/ Month \/ Return \/ Found

CronSpec == CronInit /\ [][CronNext]_cronVars /\ WF_cronVars(CronNext)
=============================================================================
