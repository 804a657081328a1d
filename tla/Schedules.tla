------------------------------ MODULE Schedules ------------------------------
(***************************************************************************)
(* When the tasks of the assistant run by themselves: cron expressions on   *)
(* the wall clock of a zone that moves its clock once                      *)
(* (ai/CronExpression.cpp), and the schedule of one task, in memory and in  *)
(* the database (ai/AiPlugin.cpp, ai/AiTaskRepository.cpp).                *)
(*                                                                         *)
(* Time goes by the minute.  A day, an hour, a year and a week are as long  *)
(* as the instance says; day 0 is the first of a year and of a week.  An    *)
(* expression is its five fields, each a wildcard or a set of ranges.  That *)
(* a task is queued and runs, and what is stored of that, is TaskRuns: here *)
(* it is busy.                                                             *)
(***************************************************************************)
EXTENDS Integers, FiniteSetsExt, SequencesExt

CONSTANTS
    MinutesInHour, HoursInDay, DaysInWeek,
    Calendar,         \* the days of every year: [month, day]
    SupportedDays,    \* supportedSchedulingYears
    Zones,            \* where the clock moves: [at, before, after], its offsets
    Later,            \* of a wall clock that is repeated Qt may mean the later one
    Expressions,      \* name -> the fields of a cron expression
    Plans,       \* the schedules somebody saves
    Start, End,       \* bound: the instants
    MaxWrites,        \* bound: writes in flight
    MaxFaults         \* bound: writes that fail, clocks set back, restarts

DayLength == MinutesInHour * HoursInDay

VARIABLES
    region,     \* the zone of the schedule
    clock,      \* QDateTime::currentDateTimeUtc()
    schedule,   \* the schedule of the task in m_tasks
    row,        \* ... in ai_tasks_schedules
    writes,     \* the writes in flight
    occupied,   \* runState(taskId) is not Idle
    crossed,    \* history: a run came due while a save was on its way
    mishaps     \* history: how many faults there were

vars == <<region, clock, schedule, row, writes, occupied, crossed, mishaps>>

-----------------------------------------------------------------------------
(* The expression.                                                         *)
InRange(number, least, most) == number \in least..most

(* The values of a field, or {} when one of its elements is not valid.       *)
Field(field, least, most, normalizeSunday) ==
    IF field.wildcard THEN least..most
    ELSE IF \E e \in field.ranges : ~InRange(e[1], least, most) \/ ~InRange(e[2], least, most) \/ e[1] > e[2] THEN {}
    ELSE {IF normalizeSunday /\ v = DaysInWeek THEN 0 ELSE v : v \in UNION {e[1]..e[2] : e \in field.ranges}}

Parse(name) ==
    LET e == Expressions[name] IN
    [minutes |-> Field(e.minutes, 0, MinutesInHour - 1, FALSE),
     hours |-> Field(e.hours, 0, HoursInDay - 1, FALSE),
     monthDays |-> Field(e.monthDays, 1, Max({d.day : d \in ToSet(Calendar)}), FALSE),
     months |-> Field(e.months, 1, Max({d.month : d \in ToSet(Calendar)}), FALSE),
     weekDays |-> Field(e.weekDays, 0, DaysInWeek, TRUE),
     anyMonthDay |-> e.monthDays.wildcard, anyWeekDay |-> e.weekDays.wildcard]

Parses(name) ==
    LET p == Parse(name) IN {} \notin {p.minutes, p.hours, p.monthDays, p.months, p.weekDays}

MatchesDate(p, date) ==
    LET day == Calendar[(date % Len(Calendar)) + 1]
        month == day.month \in p.months
        monthDay == day.day \in p.monthDays
        weekDay == date % DaysInWeek \in p.weekDays IN
    month /\ (IF p.anyWeekDay THEN monthDay ELSE IF p.anyMonthDay THEN weekDay ELSE monthDay \/ weekDay)

Matches(p, wall) ==
    /\ wall % MinutesInHour \in p.minutes
    /\ (wall % DayLength) \div MinutesInHour \in p.hours
    /\ MatchesDate(p, wall \div DayLength)

(* The clock on the wall, and the instants that show a time on it.           *)
Local(zone, instant) == instant + (IF instant < zone.at THEN zone.before ELSE zone.after)
Showing(zone, wall) == {i \in {wall - zone.before, wall - zone.after} : Local(zone, i) = wall}

(* QDateTime(date, time, zone): one of the instants that show it, and for a  *)
(* time the clock skips the one it would have been.                          *)
Meant(zone, wall) ==
    IF Showing(zone, wall) = {} THEN wall - zone.before
    ELSE IF Later THEN Max(Showing(zone, wall)) ELSE Min(Showing(zone, wall))

\* Mutant of InstantOf: the hour that is repeated is not looked for.
InstantOfMeant(zone, wall) ==
    IF Local(zone, Meant(zone, wall)) = wall THEN {Meant(zone, wall)}
    ELSE LET day == (wall \div DayLength) * DayLength
             probes == {m \in 0..(DayLength - 1) : Local(zone, Meant(zone, day) + m) >= wall} IN
         {Meant(zone, day) + Min(probes) : any \in {p \in {0} : probes # {}}}

InstantOf(zone, wall) ==
    IF Local(zone, Meant(zone, wall)) = wall
    THEN {IF Local(zone, Meant(zone, wall) - MinutesInHour) = wall THEN Meant(zone, wall) - MinutesInHour ELSE Meant(zone, wall)}
    ELSE LET day == (wall \div DayLength) * DayLength
             probes == {m \in 0..(DayLength - 1) : Local(zone, Meant(zone, day) + m) >= wall} IN
         IF probes = {} THEN {} ELSE {Meant(zone, day) + Min(probes)}

\* Mutant of Upcoming: the minute it is now is looked at again.
UpcomingWithThisOne(zone, p, after) ==
    LET today == Local(zone, after) \div DayLength IN
    {wall \in Local(zone, after)..((today + SupportedDays) * DayLength - 1) :
        Matches(p, wall) /\ \E i \in InstantOf(zone, wall) : i >= after}

(* The wall clocks nextAfter takes, the first of which it answers.            *)
Upcoming(zone, p, after) ==
    LET today == Local(zone, after) \div DayLength IN
    {wall \in (Local(zone, after) + 1)..((today + SupportedDays) * DayLength - 1) :
        Matches(p, wall) /\ \E i \in InstantOf(zone, wall) : i > after}

NextAfter(zone, name, after) ==
    LET upcoming == Upcoming(zone, Parse(name), after) IN
    IF Parses(name) /\ upcoming # {} THEN InstantOf(zone, Min(upcoming)) ELSE {}

-----------------------------------------------------------------------------
(* The schedule: nothing is set where a time is 0.                           *)
NoSchedule == [kind |-> "none", enabled |-> FALSE, once |-> 0, interval |-> 0, cron |-> "", next |-> 0, last |-> 0]

(* validateSchedule, without which a row of the board is not read.            *)
ValidateSchedule(s) ==
    /\ s.enabled <=> s.next > 0
    /\ s.kind = "once" => s.once > 0 /\ s.interval = 0 /\ s.cron = "" /\ (s.enabled => s.next = s.once)
    /\ s.kind = "interval" => s.once = 0 /\ s.interval > 0 /\ s.cron = ""
    /\ s.kind = "cron" => s.once = 0 /\ s.interval = 0 /\ s.cron \in DOMAIN Expressions /\ Parses(s.cron)

ParseSchedule(stored) == IF stored.kind = "none" THEN {NoSchedule} ELSE {s \in {stored} : ValidateSchedule(s)}

(* prepareTaskSchedule: what is saved of it, or nothing.                      *)
Prepared(zone, candidate, now) ==
    LET next == CASE candidate.kind = "once" -> {t \in {candidate.once} : t > now}
                  [] candidate.kind = "interval" -> {now + candidate.interval}
                  [] candidate.kind = "cron" -> NextAfter(zone, candidate.cron, now) IN
    IF candidate.kind = "none" THEN {NoSchedule}
    ELSE {s \in {[candidate EXCEPT !.enabled = TRUE, !.last = 0, !.next = t] : t \in next} : ValidateSchedule(s)}

\* Mutant of OnTheGrid: the next time of an interval, however late it is.
OnTheGridOnce(s, now) == s.next + s.interval

(* The times of an interval stay where they were, however late one is run.    *)
OnTheGrid(s, now) == s.next + s.interval * (((now - s.next) \div s.interval) + 1)

(* advanceSchedule.                                                        *)
Advanced(zone, s, now) ==
    CASE s.kind = "once" -> {[s EXCEPT !.last = now, !.enabled = FALSE, !.next = 0]}
      [] s.kind = "interval" -> {[s EXCEPT !.last = now, !.next = OnTheGrid(s, now)]}
      [] s.kind = "cron" -> {[s EXCEPT !.last = now, !.next = t] : t \in NextAfter(zone, s.cron, now)}

-----------------------------------------------------------------------------
ScheduleInit ==
    /\ region \in Zones /\ clock = Start
    /\ schedule \in UNION {Prepared(region, c, Start) : c \in Plans}
    /\ row = schedule /\ writes = <<>>
    /\ occupied = FALSE /\ crossed = FALSE /\ mishaps = 0

Fault == mishaps < MaxFaults /\ mishaps' = mishaps + 1

Tick == clock < End /\ clock' = clock + 1 /\ UNCHANGED <<region, schedule, row, writes, occupied, crossed, mishaps>>

SetBack == Fault /\ clock > Start /\ clock' = clock - 1 /\ UNCHANGED <<region, schedule, row, writes, occupied, crossed>>

(* saveTask: the task keeps its schedule until the new one is stored.          *)
SaveTask ==
    /\ ~occupied /\ Len(writes) < MaxWrites
    /\ \E c \in Plans : \E s \in Prepared(region, c, clock) :
          writes' = Append(writes, [kind |-> "save", schedule |-> s, previous |-> s])
    /\ UNCHANGED <<region, clock, schedule, row, occupied, crossed, mishaps>>

(* processSchedules, and the schedule's part of applyScheduledDispatch.        *)
ProcessSchedules ==
    /\ schedule.enabled /\ schedule.next <= clock /\ ~occupied
    /\ \E s \in Advanced(region, schedule, clock) :
          /\ schedule' = s
          /\ writes' = Append(writes, [kind |-> "enqueue", schedule |-> s, previous |-> schedule])
    /\ occupied' = TRUE
    /\ crossed' = (crossed \/ writes # <<>>)
    /\ UNCHANGED <<region, clock, row, mishaps>>

(* enqueueTask leaves the kind of the row alone: it updates where it stands.   *)
Dispatched(s) == IF row.kind = "none" THEN row ELSE [row EXCEPT !.enabled = s.enabled, !.next = s.next, !.last = s.last]

WriteStored ==
    /\ writes # <<>> /\ writes' = Tail(writes)
    /\ IF Head(writes).kind = "save"
       THEN row' = Head(writes).schedule /\ schedule' = Head(writes).schedule
       ELSE row' = Dispatched(Head(writes).schedule) /\ UNCHANGED schedule
    /\ UNCHANGED <<region, clock, occupied, crossed, mishaps>>

\* Mutant of Refused: the occurrence that was not stored is not taken back.
RefusedForGood(write) == UNCHANGED <<schedule, occupied>>

Refused(write) ==
    IF write.kind = "save" THEN UNCHANGED <<schedule, occupied>>
    ELSE schedule' = write.previous /\ occupied' = FALSE

WriteFails ==
    /\ Fault /\ writes # <<>> /\ writes' = Tail(writes) /\ Refused(Head(writes))
    /\ UNCHANGED <<region, clock, row, crossed>>

(* A run, which only the end of it makes room for the next one.              *)
RunEnds ==
    /\ occupied /\ \A i \in DOMAIN writes : writes[i].kind = "save"
    /\ occupied' = FALSE
    /\ UNCHANGED <<region, clock, schedule, row, writes, crossed, mishaps>>

RunStarts ==
    /\ ~occupied /\ occupied' = TRUE
    /\ UNCHANGED <<region, clock, schedule, row, writes, crossed, mishaps>>

(* A crash loses what was not written, and the next start reads the row.       *)
Restart ==
    /\ Fault /\ schedule' \in ParseSchedule(row)
    /\ writes' = <<>> /\ occupied' \in BOOLEAN
    /\ UNCHANGED <<region, clock, row, crossed>>

ScheduleNext ==
    \/ Tick \/ SetBack \/ SaveTask \/ ProcessSchedules
    \/ WriteStored \/ WriteFails \/ RunEnds \/ RunStarts \/ Restart

-----------------------------------------------------------------------------
(* What an expression asks for, read off its fields: a time on the wall is    *)
(* reached when the clock first shows it, or is first past it.                *)
Asks(field, v) == field.wildcard \/ \E e \in field.ranges : v \in e[1]..e[2]
AsksFor(e, wall) ==
    LET date == wall \div DayLength
        day == Calendar[(date % Len(Calendar)) + 1]
        week == Asks(e.weekDays, date % DaysInWeek) \/ (date % DaysInWeek = 0 /\ Asks(e.weekDays, DaysInWeek)) IN
    /\ Asks(e.minutes, wall % MinutesInHour)
    /\ Asks(e.hours, (wall \div MinutesInHour) % HoursInDay)
    /\ Asks(e.months, day.month)
    /\ \/ Asks(e.monthDays, day.day) /\ week
       \/ ~e.monthDays.wildcard /\ ~e.weekDays.wildcard /\ (Asks(e.monthDays, day.day) \/ week)

Reached(zone, wall) == Min({i \in (wall - Max({zone.before, zone.after}))..(wall + DayLength) : Local(zone, i) >= wall})

Occurrences(zone, name, after) ==
    {Reached(zone, wall) : wall \in {w \in (Local(zone, after) - DayLength)..(Local(zone, after) + SupportedDays * DayLength) :
                                  AsksFor(Expressions[name], w)}}

(* "A wall clock the calendar skips is answered by the first one it does      *)
(* carry, and a wall clock it repeats is answered by the first of the two"    *)
(* (CronExpression.cpp:96): whenever it is asked, nextAfter leaves out no      *)
(* occurrence and gives none twice.                                        *)
NoOccurrenceIsMissed ==
    \A zone \in Zones, name \in {n \in DOMAIN Expressions : Parses(n)}, now \in DayLength..(4 * DayLength) :
        LET later == {i \in Occurrences(zone, name, now) : i > now} IN
        NextAfter(zone, name, now) = IF later = {} THEN {} ELSE {Min(later)}

(* The schedule in memory is always one that can be stored, is ahead of its    *)
(* last run, and once nothing is on its way it is the stored one, whatever     *)
(* failed or was lost: no occurrence is dispatched again after a restart.      *)
(* Unless a run came due while the task was being saved.                       *)
ScheduleIsKept ==
    /\ schedule.kind # "none" => ValidateSchedule(schedule)
    /\ schedule.enabled => schedule.next > schedule.last
    /\ ~crossed => ParseSchedule(row) # {} /\ (writes = <<>> => row = schedule)

=============================================================================
