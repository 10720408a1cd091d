---------------------------- MODULE JobLifecycle ----------------------------
(***************************************************************************)
(* What the gateway promises a submitter about a job, without queue, node  *)
(* sessions or tasks: a job waits, runs on one device at a time and never  *)
(* twice on the same device, ends once, and is kept until the bounded      *)
(* store needs its place.  A submitter never has more than MaxConcurrent   *)
(* jobs running.  Gateway implements this specification (its property      *)
(* ImplementsLifecycle) when a device's sessions do not overlap.           *)
(***************************************************************************)
EXTENDS Naturals, FiniteSets

CONSTANTS Job, Device, Owner, OwnerOf, Target, MaxConcurrent, DoneCap, None

VARIABLES
  state,   \* where each job is
  runner,  \* the device it runs on, or ran on when it ended
  given    \* the devices that have been given the job

vars == <<state, runner, given>>

Ended == {"done", "failed", "cancelled"}

Init ==
  /\ state = [j \in Job |-> "new"]
  /\ runner = [j \in Job |-> None]
  /\ given = [j \in Job |-> {}]

\* The job waits for a device.
Accept(j) ==
  /\ state[j] = "new"
  /\ state' = [state EXCEPT ![j] = "queued"]
  /\ UNCHANGED <<runner, given>>

\* A device that has not had the job gets it, within its submitter's cap.
Start(j, d) ==
  /\ state[j] \in {"new", "queued"}
  /\ d \notin given[j]
  /\ Target[j] \in {None, d}
  /\ \/ MaxConcurrent = 0
     \/ Cardinality({k \in Job : state[k] = "running" /\ OwnerOf[k] = OwnerOf[j]})
          < MaxConcurrent
  /\ state' = [state EXCEPT ![j] = "running"]
  /\ runner' = [runner EXCEPT ![j] = d]
  /\ given' = [given EXCEPT ![j] = @ \cup {d}]

\* The device left or gave the job back.
GiveBack(j) ==
  /\ state[j] = "running"
  /\ state' = [state EXCEPT ![j] = "queued"]
  /\ runner' = [runner EXCEPT ![j] = None]
  /\ UNCHANGED given

\* The job ends; when the store is full, one that ended earlier is forgotten.
End(j) ==
  /\ \E outcome \in Ended :
       /\ <<state[j], outcome>> \in
            {<<"new", "failed">>, <<"queued", "cancelled">>, <<"running", "done">>}
       /\ \/ /\ Cardinality({k \in Job : state[k] \in Ended}) < DoneCap
             /\ state' = [state EXCEPT ![j] = outcome]
          \/ /\ Cardinality({k \in Job : state[k] \in Ended}) = DoneCap
             /\ \E old \in Job :
                  /\ state[old] \in Ended
                  /\ state' = [state EXCEPT ![j] = outcome, ![old] = "forgotten"]
  /\ UNCHANGED <<runner, given>>

Next ==
  \E j \in Job : Accept(j) \/ GiveBack(j) \/ End(j) \/ \E d \in Device : Start(j, d)

Spec == Init /\ [][Next]_vars
=============================================================================
