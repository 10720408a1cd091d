------------------------------ MODULE Schedule ------------------------------
(***************************************************************************)
(* The hours in which a device is lent: _within_hours in src/scheduler.py,  *)
(* under a schedule the administrator may replace (set_schedule in          *)
(* src/agent.py).  The other controls, and what is done when the answer     *)
(* changes, are in Agent.                                                  *)
(***************************************************************************)
EXTENDS Integers

CONSTANTS
  DayLength,    \* minutes of a day: 1440
  WeekLength,   \* days of a week: 7
  Schedules     \* the schedules that may be set: sets of windows

Weekday == 0..(WeekLength - 1)
Minute == 0..(DayLength - 1)

\* A window that names no days has them all.
Windows == [days : SUBSET Weekday, start : 0..DayLength, end : 0..DayLength]

ASSUME ScheduleAssumption ==
  /\ DayLength \in Nat \ {0} /\ WeekLength \in Nat \ {0}
  /\ Schedules \subseteq SUBSET Windows

VARIABLES
  weekday, minute,   \* datetime.now()
  schedule           \* config["schedule"], one dict for the agent and its scheduler

scheduleVars == <<weekday, minute, schedule>>

ScheduleInit ==
  /\ weekday \in Weekday /\ minute \in Minute
  /\ schedule \in Schedules

\* A mutant of InWindow: a window round midnight is taken for one that has ended.
MutInWindow(w) == w.start <= minute /\ minute < w.end

InWindow(w) ==
  IF w.start <= w.end
    THEN w.start <= minute /\ minute < w.end
    ELSE minute >= w.start \/ minute < w.end

WithinHours ==
  \/ schedule = {}
  \/ \E w \in schedule : weekday \in w.days /\ InWindow(w)

SetSchedule ==
  /\ schedule' \in Schedules
  /\ UNCHANGED <<weekday, minute>>

MinutePasses ==
  /\ minute' = (minute + 1) % DayLength
  /\ weekday' = IF minute' = 0 THEN (weekday + 1) % WeekLength ELSE weekday
  /\ UNCHANGED schedule

ScheduleNext == SetSchedule \/ MinutePasses

ScheduleSpec == ScheduleInit /\ [][ScheduleNext]_scheduleVars

----------------------------------------------------------------------------
(* Properties *)

\* How long a window lasts; one that ends as it starts is empty.
Span(w) == IF w.start <= w.end THEN w.end - w.start ELSE w.end - w.start + DayLength

\* The minutes gone since the window was last to start on day d.
Since(w, d) == (weekday * DayLength + minute - d * DayLength - w.start) % (WeekLength * DayLength)

\* "Recurring weekday windows" (README.md:37, scheduler.py:7): a device is lent from the
\* start of a window, on each of its days, for exactly its length, round midnight and into
\* the next week.  This leaves out schedules with a window that both goes round midnight
\* and names its days: its hours after midnight are those of the days named, not of the
\* nights that begin on them (scheduler.py:79).
HoursExact ==
  (\A w \in schedule : w.start <= w.end \/ w.days = Weekday)
    => (WithinHours <=> schedule = {} \/ \E w \in schedule : \E d \in w.days : Since(w, d) < Span(w))
=============================================================================
