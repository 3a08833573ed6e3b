---------------------------- MODULE CronSchedule ----------------------------
(***************************************************************************)
(* The cron expressions of report jobs: reports/cron.rs.  A field is the   *)
(* list of its comma-separated fragments, already split into tokens; a     *)
(* moment is a number of minutes since 1 January 1970, UTC.                *)
(***************************************************************************)
EXTENDS Integers, Sequences, FiniteSets, FiniteSetsExt

CONSTANT HorizonDays   \* how far next_after looks ahead (400)

ASSUME HorizonAssumption == HorizonDays \in Nat /\ HorizonDays >= 400

MinutesPerDay == 1440

\* A fragment: <<>> or <<lo, hi>> for "*" or a range, <<>> or <<n>> for a step.
Star == [range |-> <<>>, step |-> <<>>]
Every(n) == [range |-> <<>>, step |-> <<n>>]
Range2(lo, hi) == [range |-> <<lo, hi>>, step |-> <<>>]
RangeStep(lo, hi, n) == [range |-> <<lo, hi>>, step |-> <<n>>]
Value(v) == Range2(v, v)

\* An expression, whatever is written in its fields.
Fragment == [range : {<<>>} \cup (Int \X Int), step : {<<>>} \cup [{1} -> Int]]
Expression == [minute : Seq(Fragment), hour : Seq(Fragment), dom : Seq(Fragment),
               month : Seq(Fragment), dow : Seq(Fragment)]

FragmentOk(f, min, max) ==
    /\ f.step # <<>> => f.step[1] > 0
    /\ f.range # <<>> => /\ f.range[1] <= f.range[2]
                         /\ min <= f.range[1] /\ f.range[2] <= max

FragmentValues(f, min, max) ==
    LET lo == IF f.range = <<>> THEN min ELSE f.range[1]
        hi == IF f.range = <<>> THEN max ELSE f.range[2]
        step == IF f.step = <<>> THEN 1 ELSE f.step[1]
    IN  {v \in lo..hi : (v - lo) % step = 0}

\* The values a field stands for; {} is an error.
ParseField(field, min, max) ==
    IF \A i \in DOMAIN field : FragmentOk(field[i], min, max)
    THEN UNION {FragmentValues(field[i], min, max) : i \in DOMAIN field}
    ELSE {}

\* 0 and 7 are Sunday.  "*/1" is not "*": it counts as a restriction.
Parse(e) ==
    [minutes |-> ParseField(e.minute, 0, 59),
     hours   |-> ParseField(e.hour, 0, 23),
     dom     |-> ParseField(e.dom, 1, 31),
     months  |-> ParseField(e.month, 1, 12),
     dow     |-> {v % 7 : v \in ParseField(e.dow, 0, 7)},
     domRestricted |-> e.dom # <<Star>>,
     dowRestricted |-> e.dow # <<Star>>]

Parses(e) ==
    LET s == Parse(e)
    IN  {} \notin {s.minutes, s.hours, s.dom, s.months, s.dow}

-----------------------------------------------------------------------------
(* The calendar of the chrono crate: the date of a day since 1 January 1970 *)

Date(d) ==
    LET z   == d + 719468
        doe == z % 146097
        yoe == (doe - doe \div 1460 + doe \div 36524 - doe \div 146096) \div 365
        doy == doe - (365 * yoe + yoe \div 4 - yoe \div 100)
        mp  == (5 * doy + 2) \div 153
    IN  [day |-> doy - (153 * mp + 2) \div 5 + 1,
         month |-> IF mp < 10 THEN mp + 3 ELSE mp - 9]

DayOfWeek(d) == (d + 4) % 7   \* 1 January 1970 was a Thursday

-----------------------------------------------------------------------------
DayMatches(s, d) ==
    LET date == Date(d)
        domHit == date.day \in s.dom
        dowHit == DayOfWeek(d) \in s.dow
    IN  /\ date.month \in s.months
        /\ IF s.domRestricted /\ s.dowRestricted THEN domHit \/ dowHit
           ELSE (s.domRestricted => domHit) /\ (s.dowRestricted => dowHit)

Matches(s, t) ==
    /\ (t % 60) \in s.minutes
    /\ ((t % MinutesPerDay) \div 60) \in s.hours
    /\ DayMatches(s, t \div MinutesPerDay)

Never == -1
Days(first, last) == (first \div MinutesPerDay)..(last \div MinutesPerDay)

\* The first match from start to last.  The code tries every minute; here the
\* days are tried, and in a day that matches the minutes of the two lists.
FirstMatch(s, start, last) ==
    LET early == Min(s.hours) * 60 + Min(s.minutes)
        late  == Max(s.hours) * 60 + Max(s.minutes)
        days  == {d \in Days(start, last) :
                    /\ DayMatches(s, d)
                    /\ d * MinutesPerDay + late >= start
                    /\ d * MinutesPerDay + early <= last}
        times == {Min(days) * MinutesPerDay + h * 60 + m :
                    h \in s.hours, m \in s.minutes}
    IN  IF days = {} \/ {t \in times : start <= t /\ t <= last} = {} THEN Never
        ELSE Min({t \in times : start <= t /\ t <= last})

\* Slip: a month is enough.
NextAfterMonth(s, from) ==
    FirstMatch(s, from + 1, from + 1 + 31 * MinutesPerDay)

\* Slip: the minute of the reference time itself counts.
NextFrom(s, from) == FirstMatch(s, from, from + HorizonDays * MinutesPerDay)

NextAfter(s, from) ==
    FirstMatch(s, from + 1, from + 1 + HorizonDays * MinutesPerDay)

-----------------------------------------------------------------------------
(* What a reader of the expressions expects *)

MonthLength == <<31, 28, 31, 30, 31, 30, 31, 31, 30, 31, 30, 31>>

\* The schedule names a day that every year has.
Yearly(s) ==
    s.dowRestricted \/ ~s.domRestricted
    \/ \E m \in s.months, d \in s.dom : d <= MonthLength[m]
=============================================================================
