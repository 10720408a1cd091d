------------------------------- MODULE JobRun -------------------------------
(***************************************************************************)
(* What a sandbox promises the agent about one job, without its threads,   *)
(* its lock or the install that may come first: cancelling is two events,  *)
(* a request after which nothing is started any more and a kill; both may  *)
(* come again.  A job gets one outcome, and one that it was killed for, or *)
(* cancelled after it had started, is not reported as its own end.         *)
(* Sandbox implements this specification (its property ImplementsJobRun).  *)
(*                                                                         *)
(* The job itself is launched once; before that its packages may be        *)
(* installed.  Where a launch is not instant the process appears in its    *)
(* own time, neither a kill nor an outcome prevents it before that, and a  *)
(* kill may have no effect.                                                *)
(***************************************************************************)

VARIABLES
  instant,  \* a launched process is there at once
  process,  \* "none", "launched" or "alive"
  started,  \* the job itself has been launched, not only its install
  killed,   \* a process of the job has been killed
  stop,     \* the cancellation: "no", "asked" or "done"
  outcome   \* the status of the job, "none" before it has one

vars == <<instant, process, started, killed, stop, outcome>>

OwnEnd == {"ok", "error", "raised"}
Outcome == OwnEnd \cup {"cancelled", "timeout", "oom"}

Init ==
  /\ instant \in BOOLEAN
  /\ process = "none"
  /\ started = FALSE
  /\ killed = FALSE
  /\ stop = "no"
  /\ outcome = "none"

\* Nothing is launched that is to be cancelled, has been killed or has its outcome.
Launch ==
  /\ process = "none" /\ outcome = "none"
  /\ stop = "no" /\ ~killed /\ ~started
  /\ started' \in BOOLEAN
  /\ process' = IF instant THEN "alive" ELSE "launched"
  /\ UNCHANGED <<instant, killed, stop, outcome>>

Appear ==
  /\ process = "launched"
  /\ process' \in {"alive", "none"}
  /\ UNCHANGED <<instant, started, killed, stop, outcome>>

\* The process ends by itself, or a limit or the watchdog ends it.
Terminate ==
  /\ process = "alive"
  /\ process' = "none"
  /\ killed' \in {killed, TRUE}
  /\ UNCHANGED <<instant, started, stop, outcome>>

Ask ==
  /\ stop \in {"no", "done"}
  /\ stop' = "asked"
  /\ UNCHANGED <<instant, process, started, killed, outcome>>

\* Only a process that is there is killed; one that was not there at once, or of a job
\* with its outcome, maybe not even then.
StopIt ==
  /\ stop = "asked"
  /\ stop' = "done"
  /\ \/ process = "alive" /\ process' = "none" /\ killed' = TRUE
     \/ (process # "alive" \/ outcome # "none" \/ ~instant) /\ UNCHANGED <<process, killed>>
  /\ UNCHANGED <<instant, started, outcome>>

\* The outcome, once.  Only a limit is reported of a process that may still appear, and
\* only a job that never started may fail by itself in spite of its cancellation.
Report(o) ==
  /\ outcome = "none"
  /\ process = "none" \/ (o = "timeout" /\ ~instant)
  /\ o \in OwnEnd => ~killed /\ (stop = "no" \/ ~started)
  /\ o = "ok" => started
  /\ o = "cancelled" => stop # "no"
  /\ o = "timeout" /\ instant => killed
  /\ outcome' = o
  /\ UNCHANGED <<instant, process, started, killed, stop>>

Next == Launch \/ Appear \/ Terminate \/ Ask \/ StopIt \/ \E o \in Outcome : Report(o)

Spec == Init /\ [][Next]_vars
=============================================================================
