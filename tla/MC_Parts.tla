------------------------------ MODULE MC_Parts ------------------------------
(* Four small parts that have no state in common, in one run: the sandbox of *)
(* a job, a submitter under a limit of two in three moments, a device under  *)
(* schedules of a week of three days of four minutes, and an organization    *)
(* of three users.  A behaviour is about one part, and the others wait where *)
(* they begin.                                                               *)
EXTENDS Sandbox, RateLimit, Schedule, Membership

CONSTANTS k1, u1, u2, u3, r1, r2, t1, t2

VARIABLE part   \* which one the behaviour is about

sandboxVars == vars

W(days, start, end) == [days |-> days, start |-> start, end |-> end]

MCSchedules ==
  {{}, {W(Weekday, 3, 1)}, {W({1}, 1, 3)}, {W({0, 2}, 0, 4)}, {W({2}, 3, 1)},
   {W(Weekday, 2, 2), W({0}, 0, 1)}, {W({1, 2}, 2, 4), W(Weekday, 4, 1)}}

PartsInit ==
  /\ Init /\ RateInit /\ ScheduleInit /\ MembersInit
  /\ part \in {"sandbox", "rate", "hours", "members"}
  /\ part # "sandbox" => backend = "subprocess" /\ ~pip /\ ~watched
  /\ part # "hours" => weekday = 0 /\ minute = 0 /\ schedule = {}
  /\ part # "members" => role[u1] = "admin"

PartsNext ==
  /\ UNCHANGED part
  /\ \/ part = "sandbox" /\ Next /\ UNCHANGED <<rateVars, scheduleVars, memberVars>>
     \/ part = "rate" /\ RateNext /\ UNCHANGED <<sandboxVars, scheduleVars, memberVars>>
     \/ part = "hours" /\ ScheduleNext /\ UNCHANGED <<sandboxVars, rateVars, memberVars>>
     \/ part = "members" /\ MembersNext /\ UNCHANGED <<sandboxVars, rateVars, scheduleVars>>

\* Only the sandbox has anything that must happen.
PartsSpec ==
  /\ PartsInit
  /\ [][PartsNext]_<<part, sandboxVars, rateVars, scheduleVars, memberVars>>
  /\ part = "sandbox" => Fairness
=============================================================================
