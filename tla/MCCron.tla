-------------------------------- MODULE MCCron --------------------------------
(* Expressions for Cron, and what the next time of an expression is. *)
EXTENDS Cron

Expr(s, i, h, d, m, w) ==
    [second |-> s, minute |-> i, hour |-> h, day_of_month |-> d, month |-> m, day_of_week |-> w]

All == <<Star>>

TimesOfDay == {
    <<<<Just(0)>>, <<Just(0)>>, <<Just(12)>>>>,
    <<<<Every(Just(15), 20)>>, <<Just(59), Every(Star, 25)>>, <<Between(8, 9), Just(23)>>>>,
    <<All, All, All>> }

\* Refused by make_cron: too large, backwards, a step of nothing, nothing, a range that ends too high.
BadTimes == {
    <<<<Just(60)>>, All, All>>, <<All, <<Between(5, 3)>>, All>>, <<All, <<Every(Just(1), 0)>>, All>>,
    <<All, All, <<>>>>, <<All, All, <<Between(0, 24)>>>> }

MonthDays == {All, <<Just(1)>>, <<Just(13), Just(28)>>, <<Between(29, 31)>>, <<Every(Just(3), 14)>>}
MonthSets == {All, <<Just(2)>>, <<Just(4), Just(12)>>}
WeekDays  == {All, <<Just(5)>>, <<Between(1, 4), Just(0)>>}

\* The end of February and of the year, the 31st, a leap day, a time that fits itself.
Nows == {
    Tm(2024, 1, 28, 23, 59, 59), Tm(2024, 1, 29, 8, 50, 15), Tm(2025, 0, 31, 10, 0, 0), Tm(2025, 2, 31, 10, 0, 0),
    Tm(2025, 11, 31, 23, 59, 35), Tm(2026, 3, 28, 12, 0, 0), Tm(2027, 2, 5, 0, 0, 0), Tm(2027, 11, 12, 23, 0, 16) }

\* What a date has to satisfy.
Allows(terms, f, v) ==
    \E t \in ToSet(terms) :
        LET lo == IF t.form = "star" THEN MinOf(f) ELSE t.first
            hi == IF t.form = "star" \/ (t.form = "one" /\ t.step # -1) THEN MaxOf(f) ELSE t.last
        IN  v \in lo..hi /\ (t.step # -1 => (v - lo) % t.step = 0)

IsDay(expr, n) ==
    LET c == Civil(n)
    IN  /\ Allows(expr["day_of_month"], "day_of_month", c.day_of_month)
        /\ Allows(expr["month"], "month", c.month + 1)
        /\ Allows(expr["day_of_week"], "day_of_week", (n + 4) % 7)

DayOf(t)  == DayNumber(t.year, t.month, t.day_of_month)
TimeOf(t) == 3600 * t.hour + 60 * t.minute + t.second

Allowed(expr, f) == {v \in MinOf(f)..MaxOf(f) : Allows(expr[f], f, v)}

\* The times of day, after a given one, that could be the first.
TimesAfter(expr, t) ==
    LET H == Allowed(expr, "hour")  M == Allowed(expr, "minute")  S == Allowed(expr, "second")
    IN  {3600 * h + 60 * Min(M) + Min(S) : h \in {x \in H : x > t.hour}}
        \cup {3600 * t.hour + 60 * m + Min(S) : m \in {x \in M : x > t.minute /\ t.hour \in H}}
        \cup {3600 * t.hour + 60 * t.minute + s : s \in {x \in S : x > t.second /\ t.hour \in H /\ t.minute \in M}}

FirstTime(expr) == 3600 * Min(Allowed(expr, "hour")) + 60 * Min(Allowed(expr, "minute")) + Min(Allowed(expr, "second"))

IsExpression(expr) ==
    \A f \in ToSet(Names) : expr[f] # <<>> /\ \A t \in ToSet(expr[f]) :
        t.step # 0 /\ (t.form = "star" \/ (MinOf(f) <= t.first /\ t.first <= t.last /\ t.last <= MaxOf(f)))

IsNext(expr, now, r) ==
    LET today == DayOf(now)
        later == TimesAfter(expr, now)
    IN  IF IsDay(expr, today) /\ later # {}
        THEN r # <<>> /\ DayOf(r[1]) = today /\ TimeOf(r[1]) = Min(later)
        ELSE LET last == IF r = <<>> THEN DayNumber(now.year + 5, 0, 1) ELSE DayOf(r[1])
             IN  /\ \A n \in (today + 1)..(last - 1) : ~IsDay(expr, n)
                 /\ r # <<>> => /\ last > today
                                /\ IsDay(expr, last)
                                /\ TimeOf(r[1]) = FirstTime(expr)

\* The time nextExecution returns is the first one after now that the expression
\* allows; it returns none for a bad expression, and when none is left in the
\* four calendar years that follow this one.
NextIsLeast ==
    stage = "done" =>
        IF IsExpression(job.expr) THEN IsNext(job.expr, job.now, result) ELSE result = <<>>

\* A search that begins ends: find_next does not call itself for ever.
SearchEnds == stage = "second" ~> stage = "done"

\* Expressions on which the search is exact: one that names months names days up to
\* the 28th only, and one that names days of the week leaves the day and the month alone.
Plain(d, m, w) ==
    \/ m = All /\ (d = All \/ w = All)
    \/ w = All /\ d # All /\ \A v \in 29..31 : ~Allows(d, "day_of_month", v)

PlainJobs ==
    { [expr |-> Expr(t[1], t[2], t[3], x[1], x[2], x[3]), now |-> n] :
        t \in TimesOfDay, n \in Nows, x \in {y \in MonthDays \X MonthSets \X WeekDays : Plain(y[1], y[2], y[3])} }
    \cup { [expr |-> Expr(t[1], t[2], t[3], All, All, All), now |-> n] : t \in BadTimes, n \in Nows }

AllJobs ==
    { [expr |-> Expr(t[1], t[2], t[3], d, m, w), now |-> n] :
        t \in TimesOfDay, n \in Nows, d \in MonthDays, m \in MonthSets, w \in WeekDays }
=============================================================================
