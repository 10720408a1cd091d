------------------------------ MODULE WebJobs ------------------------------
(***************************************************************************)
(* Jobs submitted in the browser: rows of the portal's web_jobs table that *)
(* the gateway's poller (src/gateway.py, _web_poll_tick) turns into jobs   *)
(* of its own and keeps in step with, through the calls of                 *)
(* src/portal_link.py, which fail soft: the poller never learns whether a  *)
(* call was applied.                                                       *)
(*                                                                         *)
(* The poller is one coroutine and a call is an await: jobs go on while it *)
(* waits.  A call is applied and returns, is lost, or times out and is     *)
(* applied later, after calls made since.  The gateway may be restarted;   *)
(* it keeps nothing.  How a job is placed, given back and run is module    *)
(* Gateway: here it starts and ends.                                       *)
(***************************************************************************)
EXTENDS Naturals, FiniteSets

CONSTANTS
  Rows,         \* bound: rows that are submitted
  PickUps,      \* bound: gateway jobs that are made for them
  FetchLimit,   \* LIMIT 20 of the query for pending rows
  MaxFaults,    \* bound: calls that are lost or late
  MaxCrashes,   \* bound: restarts of the gateway
  Forgetful,    \* done_cap may drop a job before the poller has seen its end
  None

ASSUME BoundsAssumption ==
  /\ {Rows, PickUps, MaxFaults, MaxCrashes} \subseteq Nat
  /\ FetchLimit \in Nat \ {0}
ASSUME FlagAssumption == Forgetful \in BOOLEAN
ASSUME NoneAssumption == None \notin Nat

Row == 1 .. Rows         \* ids, in the order of submission
GwJob == 1 .. PickUps    \* in the order of the pick-ups

Ended == {"done", "failed"}

VARIABLES
  row,        \* web_jobs.status, "absent" before the browser submits
  job,        \* job.status of each gateway job; "lost" when a restart took it
  web,        \* the row a gateway job was made for
  stored,     \* the keys of Gateway.jobs
  webMap,     \* the keys of Gateway.web_map
  pc,         \* the poller: "sleep", "pick", "mark", "submit", "sync"
  batch,      \* the rows this tick has fetched and still picks up, by number
  todo,       \* of the snapshot of web_map, what this tick still goes through
  call,       \* the call to the portal under way
  late,       \* calls that timed out and are still to be applied
  blame,      \* per row: faults and restarts that hit it
  faults, crashes

pollVars == <<pc, batch, todo, call>>
bounds == <<blame, faults, crashes>>
vars == <<row, job, web, stored, webMap, pollVars, late, bounds>>

NoCall == [row |-> None, status |-> "none", job |-> None]

Init ==
  /\ row = [w \in Row |-> "absent"]
  /\ job = [g \in GwJob |-> "none"]
  /\ web = [g \in GwJob |-> None]
  /\ stored = {}
  /\ webMap = {}
  /\ pc = "sleep"
  /\ batch = {}
  /\ todo = {}
  /\ call = NoCall
  /\ late = {}
  /\ blame = [w \in Row |-> 0]
  /\ faults = 0
  /\ crashes = 0

----------------------------------------------------------------------------
(* The portal *)

\* A user submits: rows are numbered in order.
BrowserSubmits ==
  /\ \E w \in Row :
       /\ row[w] = "absent"
       /\ \A v \in 1 .. w - 1 : row[v] # "absent"
       /\ row' = [row EXCEPT ![w] = "pending"]
  /\ UNCHANGED <<job, web, stored, webMap, pollVars, late, bounds>>

\* UPDATE web_jobs SET status = ? WHERE id = ?: whatever the status was.
Apply(c) == row' = [row EXCEPT ![c.row] = c.status]

\* A call that had timed out reaches the portal after all.
LateCall ==
  /\ \E c \in late :
       /\ Apply(c)
       /\ late' = late \ {c}
  /\ UNCHANGED <<job, web, stored, webMap, pollVars, bounds>>

----------------------------------------------------------------------------
(* The poller *)

\* The lists of the poller are in the order of the numbers of rows and jobs.
IsFirst(x, S) == x \in S /\ \A y \in S : x <= y

\* A mutant of Pending: rows that wait in the gateway are fetched again.
MutPending == {w \in Row : row[w] \in {"pending", "queued"}}

\* The rows that wait to be picked up.
Pending == {w \in Row : row[w] = "pending"}

\* The oldest of them, as many as one query returns.
Oldest == {w \in Pending : Cardinality({v \in Pending : v < w}) < FetchLimit}

\* The tick begins and the pending rows are fetched; a fetch that fails is an
\* empty list.
Fetch ==
  /\ pc = "sleep"
  /\ pc' = "pick"
  /\ \/ /\ batch' = Oldest
        /\ UNCHANGED faults
     \/ /\ faults < MaxFaults
        /\ faults' = faults + 1
        /\ batch' = {}
  /\ UNCHANGED <<row, job, web, stored, webMap, todo, call, late, blame, crashes>>

\* A fetched row becomes a job in the table and in web_map, then is marked.
PickUp ==
  /\ pc = "pick"
  /\ \E w \in Row, g \in GwJob :
       /\ IsFirst(w, batch)
       /\ job[g] = "none"
       /\ \A h \in 1 .. g - 1 : job[h] # "none"
       /\ job' = [job EXCEPT ![g] = "queued"]
       /\ web' = [web EXCEPT ![g] = w]
       /\ stored' = stored \cup {g}
       /\ webMap' = webMap \cup {g}
       /\ call' = [row |-> w, status |-> "queued", job |-> g]
       /\ batch' = batch \ {w}
  /\ pc' = "mark"
  /\ UNCHANGED <<row, todo, late, bounds>>

\* A mutant of SubmitJob: the exception ends the poller.
MutSubmitJob ==
  /\ pc = "submit"
  /\ LET g == call.job
     IN \/ /\ \E s \in {"queued", "running", "failed"} : job' = [job EXCEPT ![g] = s]
           /\ pc' = "pick"
           /\ UNCHANGED batch
        \/ /\ job' = [job EXCEPT ![g] = "running"]
           /\ pc' = "dead"
           /\ batch' = {}
  /\ call' = NoCall
  /\ UNCHANGED <<row, web, stored, webMap, todo, late, bounds>>

\* submit() of the job that has just been marked: it waits, starts or fails.
SubmitJob ==
  /\ pc = "submit"
  /\ LET g == call.job
     IN \/ /\ \E s \in {"queued", "running", "failed"} : job' = [job EXCEPT ![g] = s]
           /\ pc' = "pick"
           /\ UNCHANGED batch
        \* the send to the node raises: the tick is given up
        \/ /\ job' = [job EXCEPT ![g] = "running"]
           /\ pc' = "sleep"
           /\ batch' = {}
  /\ call' = NoCall
  /\ UNCHANGED <<row, web, stored, webMap, todo, late, bounds>>

\* Every row of the batch is in: the tracked jobs are gone through.
StartSync ==
  /\ pc = "pick"
  /\ batch = {}
  /\ pc' = "sync"
  /\ todo' = webMap
  /\ UNCHANGED <<row, job, web, stored, webMap, batch, call, late, bounds>>

\* A mutant of SyncNext: a job the store has dropped is taken for a done one.
MutSyncNext ==
  /\ pc = "sync"
  /\ call = NoCall
  /\ \E g \in GwJob :
       /\ IsFirst(g, todo)
       /\ call' = [row |-> web[g], job |-> g,
                    status |-> IF g \notin stored THEN "done" ELSE job[g]]
       /\ todo' = todo \ {g}
  /\ UNCHANGED <<row, job, web, stored, webMap, pc, batch, late, bounds>>

\* The next tracked job is reported: dropped from the store, ended, or going on.
SyncNext ==
  /\ pc = "sync"
  /\ call = NoCall
  /\ \E g \in GwJob :
       /\ IsFirst(g, todo)
       /\ call' = [row |-> web[g], job |-> g,
                    status |-> IF g \notin stored THEN "failed" ELSE job[g]]
       /\ todo' = todo \ {g}
  /\ UNCHANGED <<row, job, web, stored, webMap, pc, batch, late, bounds>>

SyncEnds ==
  /\ pc = "sync"
  /\ call = NoCall
  /\ todo = {}
  /\ pc' = "sleep"
  /\ UNCHANGED <<row, job, web, stored, webMap, batch, todo, call, late, bounds>>

\* A mutant of AfterCall: the entry of every reported job is dropped.
MutAfterCall ==
  IF pc = "mark"
    THEN /\ pc' = "submit"
         /\ UNCHANGED <<call, webMap>>
    ELSE /\ call' = NoCall
         /\ webMap' = webMap \ {call.job}
         /\ UNCHANGED pc

\* Another: a job that has ended is tracked on.
MutAfterCallKeeps ==
  /\ UNCHANGED webMap
  /\ IF pc = "mark"
       THEN pc' = "submit" /\ UNCHANGED call
       ELSE call' = NoCall /\ UNCHANGED pc

\* What follows a call, applied or not: the pick-up goes on to submit(), and a
\* job whose end has been reported is no longer tracked.
AfterCall ==
  IF pc = "mark"
    THEN /\ pc' = "submit"
         /\ UNCHANGED <<call, webMap>>
    ELSE /\ call' = NoCall
         /\ webMap' = IF call.status \in Ended THEN webMap \ {call.job} ELSE webMap
         /\ UNCHANGED pc

Calling == call # NoCall /\ pc \in {"mark", "sync"}

CallReturns ==
  /\ Calling
  /\ Apply(call)
  /\ AfterCall
  /\ UNCHANGED <<job, web, stored, batch, todo, late, bounds>>

\* The call is lost, or times out on this side only.
CallFails ==
  /\ Calling
  /\ faults < MaxFaults
  /\ faults' = faults + 1
  /\ blame' = [blame EXCEPT ![call.row] = @ + 1]
  /\ late' \in {late, late \cup {call}}
  /\ AfterCall
  /\ UNCHANGED <<row, job, web, stored, batch, todo, crashes>>

----------------------------------------------------------------------------
(* The rest of the gateway *)

\* A job that submit() has put in the queue; not one still being picked up.
Submitted(g) == g \in stored /\ ~(call.job = g /\ pc \in {"mark", "submit"})

JobStarts(g) ==
  /\ Submitted(g) /\ job[g] = "queued"
  /\ job' = [job EXCEPT ![g] = "running"]
  /\ UNCHANGED <<row, web, stored, webMap, pollVars, late, bounds>>

JobEnds(g) ==
  /\ Submitted(g) /\ job[g] = "running"
  /\ job' = [job EXCEPT ![g] = "done"]
  /\ UNCHANGED <<row, web, stored, webMap, pollVars, late, bounds>>

\* _finish of other jobs pushes an ended one out of the store.
Forget(g) ==
  /\ Forgetful
  /\ g \in stored /\ job[g] \in Ended
  /\ stored' = stored \ {g}
  /\ UNCHANGED <<row, job, web, webMap, pollVars, late, bounds>>

\* The gateway is restarted.  A call under way may still arrive.
Restart ==
  /\ crashes < MaxCrashes
  /\ crashes' = crashes + 1
  /\ job' = [g \in GwJob |-> IF job[g] \in {"queued", "running"} THEN "lost" ELSE job[g]]
  /\ blame' = [w \in Row |-> IF \E g \in webMap : web[g] = w THEN blame[w] + 1 ELSE blame[w]]
  /\ late' \in {late} \cup (IF Calling THEN {late \cup {call}} ELSE {})
  /\ stored' = {}
  /\ webMap' = {}
  /\ pc' = "sleep"
  /\ batch' = {}
  /\ todo' = {}
  /\ call' = NoCall
  /\ UNCHANGED <<row, web, faults>>

----------------------------------------------------------------------------
(* Specification *)

Poll ==
  \/ Fetch \/ PickUp \/ SubmitJob
  \/ StartSync \/ SyncNext \/ SyncEnds
  \/ CallReturns \/ CallFails

Next ==
  \/ BrowserSubmits \/ LateCall \/ Poll \/ Restart
  \/ \E g \in GwJob : JobStarts(g) \/ JobEnds(g) \/ Forget(g)

Spec == Init /\ [][Next]_vars

\* The poller goes on; a job is started and ends at last.
Fairness ==
  /\ WF_vars(Poll)
  /\ \A g \in GwJob : WF_vars(JobStarts(g) \/ JobEnds(g))

FairSpec == Spec /\ Fairness

----------------------------------------------------------------------------
(* Properties *)

\* Every variable has its type, and a call is about a job in the table.
TypeOK ==
  /\ row \in [Row -> {"absent", "pending", "queued", "running"} \cup Ended]
  /\ job \in [GwJob -> {"none", "queued", "running", "lost"} \cup Ended]
  /\ web \in [GwJob -> Row \cup {None}]
  /\ stored \subseteq GwJob /\ webMap \subseteq GwJob
  /\ pc \in {"sleep", "pick", "mark", "submit", "sync"}
  /\ batch \subseteq Row /\ todo \subseteq webMap
  /\ call = NoCall \/ (call.row = web[call.job] /\ call.job \in webMap)
  /\ \A c \in late : c.row \in Row /\ c.job \in GwJob
  /\ blame \in [Row -> 0 .. MaxFaults + MaxCrashes]
  /\ faults \in 0 .. MaxFaults /\ crashes \in 0 .. MaxCrashes

JobsOf(w) == {g \in GwJob : web[g] = w}

\* A browser job is run once, and once more for each lost mark or restart that
\* hit it: neither the next tick nor a batch that was given up halfway picks up a
\* row that is on its way (gateway.py:780-809).
PickedUpOnce == \A w \in Row : Cardinality(JobsOf(w)) <= 1 + blame[w]

\* The portal never shows an end that no job of the row has had: "done" is the end
\* of a run, "failed" of a job that could not be placed or that the store dropped.
RowIsTrue ==
  \A w \in Row :
    /\ row[w] = "done" => \E g \in JobsOf(w) : job[g] = "done"
    /\ row[w] = "failed" =>
         \E g \in JobsOf(w) : job[g] = "failed" \/ (job[g] = "done" /\ g \notin stored)

\* The row of a job no fault has touched does not leave its end: a status that was
\* read before the job ended is never written over the result.
EndStays ==
  [][\A w \in Row : row[w] \in Ended /\ blame[w] = 0 => row'[w] = row[w]]_vars

\* Every submitted row is picked up at last, however many wait and whatever fails.
EveryRowIsPickedUp == \A w \in Row : row[w] = "pending" ~> row[w] # "pending"

\* The result of a job is in the portal at last, unless a call about its row was
\* lost or the gateway was restarted: the poller does not stop tracking a job
\* before its end has been sent (gateway.py:811-825).
ResultArrives ==
  \A w \in Row :
    (\E g \in JobsOf(w) \cap webMap : job[g] \in Ended) ~> (blame[w] > 0 \/ row[w] \in Ended)
=============================================================================
