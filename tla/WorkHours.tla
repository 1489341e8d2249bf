------------------------------ MODULE WorkHours ------------------------------
(***************************************************************************)
(* The notice that nobody is there (the end of _handle_free_text in        *)
(* src/app/handlers/user.py): src/app/workhours.py with the working hours  *)
(* that src/app/config.py accepts.  The clock is local and shows the hour, *)
(* all that the code looks at; it is read twice for one notice.  It keeps  *)
(* no summer time.                                                         *)
(***************************************************************************)
EXTENDS Naturals

CONSTANT MaxHour \* bound: the clock, in hours since a midnight

ASSUME HourAssumption == MaxHour \in Nat

VARIABLES
    workHours, \* cfg.work_hours
    hour,      \* the clock
    notice     \* the notice for a ticket opened in this hour

hoursVars == <<workHours, hour, notice>>

\* _parse_work_hours
WorkingHours == {w \in [start : 0..23, end : 1..24] : w.start < w.end}

\* asked: is_working_now has read the clock at "since".  quiet: nothing is
\* said.  promised: the hour next_working_time has named.
Notice == [at : {"none", "asked", "quiet", "promised"}, since : 0..MaxHour,
           opens : 0..MaxHour + 48]

HoursTypeOK ==
    /\ workHours \in WorkingHours /\ hour \in 0..MaxHour /\ notice \in Notice

NoNotice == [at |-> "none", since |-> 0, opens |-> 0]

HoursInit ==
    /\ workHours \in WorkingHours
    /\ hour = 0
    /\ notice = NoNotice

\* The clock goes on; once at most between the two readings.
HourPasses ==
    /\ hour < MaxHour
    /\ hour' = hour + 1
    /\ \/ notice.at = "asked" /\ notice.since = hour /\ UNCHANGED notice
       \/ notice.at # "asked" /\ notice' = NoNotice
    /\ UNCHANGED workHours

\* Seeded bug: the closing hour counts as working time.
IsWorkingToTheEnd(h) == workHours.start <= h % 24 /\ h % 24 <= workHours.end

\* is_working_now
IsWorking(h) == workHours.start <= h % 24 /\ h % 24 < workHours.end

\* next_working_time: today or tomorrow, at the hour they begin.
NextWorkingTime(h) ==
    h - (h % 24) + (IF h % 24 < workHours.start THEN 0 ELSE 24) + workHours.start

AskWorking ==
    /\ notice.at # "asked"
    /\ notice' = [at |-> IF IsWorking(hour) THEN "quiet" ELSE "asked",
                  since |-> hour, opens |-> 0]
    /\ UNCHANGED <<workHours, hour>>

Promise ==
    /\ notice.at = "asked"
    /\ notice' = [notice EXCEPT !.at = "promised", !.opens = NextWorkingTime(hour)]
    /\ UNCHANGED <<workHours, hour>>

HoursNext == HourPasses \/ AskWorking \/ Promise

HoursSpec == HoursInit /\ [][HoursNext]_hoursVars

-----------------------------------------------------------------------------
\* The hours at which somebody is there, day after day.
Manned == {h \in 0..MaxHour + 48 : h % 24 \in workHours.start..(workHours.end - 1)}

\* A client is told nothing when somebody is there, and is else promised the
\* next hour at which somebody will be, also when midnight passes between the
\* two readings of the clock.  When the office opens between them he is told of
\* the day after.
NoticeNamesOpening ==
    /\ notice.at = "quiet" => notice.since \in Manned
    /\ notice.at = "promised" =>
         \E next \in Manned :
            /\ next >= notice.since
            /\ \A h \in Manned : h >= notice.since => h >= next
            /\ \/ notice.opens = next
               \/ next = notice.since + 1 /\ notice.opens = next + 24

\* Why: what the first reading found is remembered, and the second is of the
\* same hour or of the one after it.
NoticeIsOfThisHour ==
    /\ notice.at = "quiet" => IsWorking(notice.since)
    /\ notice.at \in {"asked", "promised"} =>
          ~IsWorking(notice.since) /\ hour \in {notice.since, notice.since + 1}
    /\ notice.at = "promised" => notice.opens = NextWorkingTime(hour)
=============================================================================
