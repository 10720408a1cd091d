------------------------------ MODULE Gateway ------------------------------
(***************************************************************************)
(* The dispatcher of src/gateway.py: the registry of connected devices,    *)
(* the job table, the waiting queue, the per-submitter running sets and    *)
(* the bounded result store, as the coroutines of one asyncio loop change  *)
(* them.                                                                   *)
(*                                                                         *)
(* asyncio runs one coroutine at a time and switches only at an await that *)
(* suspends.  `loop` is the task that is between two such awaits: while it *)
(* holds the loop no other step of the gateway may happen.  A step that    *)
(* ends at an await gives the loop back (loop' = None), so a handler is a  *)
(* few steps glued together by `loop`, and other tasks interleave exactly  *)
(* where the code lets them.                                               *)
(*                                                                         *)
(* A task is either the coroutine _node_session of one connection or the   *)
(* poller _web_poll_loop.  The requester's coroutines (submit, cancel)     *)
(* touch the dispatcher's state before their first await only, so each is  *)
(* one step that belongs to no task.                                       *)
(***************************************************************************)
EXTENDS Naturals, Sequences, FiniteSets, SequencesExt

CONSTANTS
  Device,         \* node ids, the keys of Gateway.nodes
  Session,        \* WebSocket connections of nodes; each is used once
  DeviceOf,       \* the node id a connection registers under
  Job,            \* job ids a submitter may use
  Owner,          \* submitters: the keys of Gateway.active_jobs
  OwnerOf,        \* job.requester_key
  Target,         \* job.target_node: a pinned device, or None
  Fits,           \* Fits[j]: the devices that pass _fits for j
  MaxConcurrent,  \* --max-concurrent; 0 is no limit
  DoneCap,        \* Gateway.done_cap
  None,           \* no device, session, job or task
  Poll,           \* the task of _web_poll_loop
  PortalLinked,   \* PL.enabled(): the poller runs, and a close awaits a report
  Lossy,          \* connections may be lost
  Overlap         \* a device may reconnect before its old session has ended

ASSUME DevicesAssumption == None \notin Device \cup Session \cup Job
ASSUME DeviceOfAssumption == DeviceOf \in [Session -> Device]
ASSUME OwnerOfAssumption == OwnerOf \in [Job -> Owner]
ASSUME TargetAssumption == Target \in [Job -> Device \cup {None}]
ASSUME FitsAssumption == Fits \in [Job -> SUBSET Device]
ASSUME CapsAssumption == MaxConcurrent \in Nat /\ DoneCap \in Nat \ {0}
ASSUME PollAssumption == Poll \notin Session /\ Poll # None
ASSUME FlagsAssumption == {PortalLinked, Lossy, Overlap} \subseteq BOOLEAN
ASSUME JobsAssumption == IsFiniteSet(Job)

Task == Session \cup {Poll}

Terminal == {"done", "failed", "cancelled"}

\* "new" is not submitted yet; "forgotten" was dropped from the bounded store.
Status == {"new", "queued", "running", "forgotten"} \cup Terminal

VARIABLES
  up,         \* connections whose peer is still there
  phase,      \* where each _node_session is
  nodes,      \* Gateway.nodes: device -> its listed session, or None
  available,  \* the sessions whose Node.available is True
  busy,       \* Node.busy_job of each session's Node object
  held,       \* the job the agent behind a connection has and has not answered
  status,     \* job.status, with "new" and "forgotten" for ids not in the table
  nodeOf,     \* job.node_id
  tried,      \* job.tried
  queue,      \* Gateway.queue
  active,     \* the union of the sets in Gateway.active_jobs
  doneOrder,  \* Gateway.done_order
  pc,         \* where each task is
  remaining,  \* the local deque `remaining` of a task inside _drain_queue
  dest,       \* the session a task is sending RUN_JOB to
  loop        \* the task that runs between two awaits, or None

netVars == <<up, phase, nodes, available>>
jobVars == <<busy, held, status, nodeOf, tried, active, doneOrder>>
taskVars == <<pc, remaining, dest, loop>>
vars == <<netVars, jobVars, queue, taskVars>>

----------------------------------------------------------------------------
(* Reading the state *)

Listed(s) == nodes[DeviceOf[s]] = s

\* The sessions whose messages the gateway still reads.
Live(s) == phase[s] \in {"registering", "serving"}

CanRun(t) == loop \in {None, t}

\* A session that waits for its next message.
Listening(s) == phase[s] = "serving" /\ pc[s] = "idle" /\ loop = None

\* A mutant of AtCap: one job too many.
MutAtCap(j) ==
  /\ MaxConcurrent > 0
  /\ Cardinality({k \in active : OwnerOf[k] = OwnerOf[j]}) > MaxConcurrent

\* _at_cap: the submitter already has as many jobs running as it may.
AtCap(j) ==
  /\ MaxConcurrent > 0
  /\ Cardinality({k \in active : OwnerOf[k] = OwnerOf[j]}) >= MaxConcurrent

\* A mutant of Candidates: a node that has a job is a candidate too.
MutCandidates(j) ==
  {s \in Session : /\ Listed(s)
                   /\ s \in available
                   /\ DeviceOf[s] \notin tried[j]
                   /\ DeviceOf[s] \in Fits[j]
                   /\ Target[j] \in {None, DeviceOf[s]}}

\* _pick_node and _select_node: the nodes that may take j now.  The score that
\* chooses one of them is abstracted: any candidate may win.
Candidates(j) ==
  {s \in Session : /\ Listed(s)
                   /\ s \in available
                   /\ busy[s] = None
                   /\ DeviceOf[s] \notin tried[j]
                   /\ DeviceOf[s] \in Fits[j]
                   /\ Target[j] \in {None, DeviceOf[s]}}

\* _feasible: the fleet as it is connected now could satisfy the job.
Feasible(j) ==
  \/ Target[j] # None
  \/ \A d \in Device : nodes[d] = None
  \/ \E d \in Fits[j] : nodes[d] # None

----------------------------------------------------------------------------
(* Updates of the job table that several handlers share *)

\* A mutant of Assign: the running set of the submitter is not updated.
MutAssign(j, s) ==
  /\ busy' = [busy EXCEPT ![s] = j]
  /\ held' = IF s \in up THEN [held EXCEPT ![s] = j] ELSE held
  /\ nodeOf' = [nodeOf EXCEPT ![j] = DeviceOf[s]]
  /\ status' = [status EXCEPT ![j] = "running"]
  /\ tried' = [tried EXCEPT ![j] = @ \cup {DeviceOf[s]}]
  /\ active' = active

\* _assign up to its await.  RUN_JOB reaches the agent if it is still there.
Assign(j, s) ==
  /\ busy' = [busy EXCEPT ![s] = j]
  /\ held' = IF s \in up THEN [held EXCEPT ![s] = j] ELSE held
  /\ nodeOf' = [nodeOf EXCEPT ![j] = DeviceOf[s]]
  /\ status' = [status EXCEPT ![j] = "running"]
  /\ tried' = [tried EXCEPT ![j] = @ \cup {DeviceOf[s]}]
  /\ active' = active \cup {j}

\* A mutant of Finish: the oldest entry leaves the list but its job stays.
MutFinish(j, outcome) ==
  LET done == Append(doneOrder, j)
  IN /\ active' = active \ {j}
     /\ doneOrder' = IF Len(done) > DoneCap THEN Tail(done) ELSE done
     /\ status' = [status EXCEPT ![j] = outcome]

\* A terminal status and _finish: the slot is freed and the store is trimmed.
\* The list was within its cap, so the trimming loop runs at most once.
Finish(j, outcome) ==
  LET done == Append(doneOrder, j)
      full == Len(done) > DoneCap
      ended == [status EXCEPT ![j] = outcome]
  IN /\ active' = active \ {j}
     /\ doneOrder' = IF full THEN Tail(done) ELSE done
     /\ status' = IF full /\ ended[Head(done)] \in Terminal
                    THEN [ended EXCEPT ![Head(done)] = "forgotten"]
                    ELSE ended

\* A mutant of Requeue: the status is not reset.
MutRequeue(j, d) ==
  LET n == nodes[d]
  IN /\ busy' = IF n # None /\ busy[n] = j THEN [busy EXCEPT ![n] = None] ELSE busy
     /\ active' = active \ {j}
     /\ tried' = [tried EXCEPT ![j] = @ \cup {d}]
     /\ status' = status
     /\ nodeOf' = [nodeOf EXCEPT ![j] = None]
     /\ queue' = IF Contains(queue, j) THEN queue ELSE Append(queue, j)

\* _requeue up to its drain, for a job that device d gave back.  It frees the
\* node that is listed under d, which need not be the one that gave it back.
Requeue(j, d) ==
  LET n == nodes[d]
  IN /\ busy' = IF n # None /\ busy[n] = j THEN [busy EXCEPT ![n] = None] ELSE busy
     /\ active' = active \ {j}
     /\ tried' = [tried EXCEPT ![j] = @ \cup {d}]
     /\ status' = [status EXCEPT ![j] = "queued"]
     /\ nodeOf' = [nodeOf EXCEPT ![j] = None]
     /\ queue' = IF Contains(queue, j) THEN queue ELSE Append(queue, j)

----------------------------------------------------------------------------
(* Initial state *)

Init ==
  /\ up = {}
  /\ phase = [s \in Session |-> "new"]
  /\ nodes = [d \in Device |-> None]
  /\ available = {}
  /\ busy = [s \in Session |-> None]
  /\ held = [s \in Session |-> None]
  /\ status = [j \in Job |-> "new"]
  /\ nodeOf = [j \in Job |-> None]
  /\ tried = [j \in Job |-> {}]
  /\ queue = <<>>
  /\ active = {}
  /\ doneOrder = <<>>
  /\ pc = [t \in Task |-> "idle"]
  /\ remaining = [t \in Task |-> <<>>]
  /\ dest = [t \in Task |-> None]
  /\ loop = None

----------------------------------------------------------------------------
(* _node_session: registration and the end of a session *)

\* An agent has one connection at a time.  Without Overlap the gateway has also
\* finished with the old one.
MayConnect(s) ==
  \A r \in Session : DeviceOf[r] = DeviceOf[s] =>
    /\ r \notin up
    /\ Overlap \/ phase[r] \in {"new", "over"}

\* A mutant of Register: an entry that is already listed is kept.
MutRegister(s) ==
  /\ phase[s] = "new"
  /\ loop = None
  /\ MayConnect(s)
  /\ up' = up \cup {s}
  /\ phase' = [phase EXCEPT ![s] = "registering"]
  /\ nodes' = [nodes EXCEPT ![DeviceOf[s]] = IF @ = None THEN s ELSE @]
  /\ \E avail \in BOOLEAN :
       available' = IF avail THEN available \cup {s} ELSE available
  /\ pc' = [pc EXCEPT ![s] = "push"]
  /\ UNCHANGED <<jobVars, queue, remaining, dest, loop>>

\* The Node object is listed, then REGISTERED is sent (an await).
Register(s) ==
  /\ phase[s] = "new"
  /\ loop = None
  /\ MayConnect(s)
  /\ up' = up \cup {s}
  /\ phase' = [phase EXCEPT ![s] = "registering"]
  /\ nodes' = [nodes EXCEPT ![DeviceOf[s]] = s]
  /\ \E avail \in BOOLEAN :
       available' = IF avail THEN available \cup {s} ELSE available
  /\ pc' = [pc EXCEPT ![s] = "push"]
  /\ UNCHANGED <<jobVars, queue, remaining, dest, loop>>

\* The handler returns: websockets closes the connection.
HandlerReturns(s) ==
  /\ phase' = [phase EXCEPT ![s] = "over"]
  /\ up' = up \ {s}
  /\ pc' = [pc EXCEPT ![s] = "idle"]
  /\ loop' = None

\* push() has been awaited and _drain_queue follows.
PushReturns(s) ==
  /\ pc[s] = "push"
  /\ loop = None
  /\ pc' = [pc EXCEPT ![s] = "drain"]
  /\ UNCHANGED <<netVars, jobVars, queue, remaining, dest, loop>>

\* REGISTERED could not be sent.  The registration is outside the try, so the
\* handler ends and the Node object stays listed.
RegisterRaises(s) ==
  /\ phase[s] = "registering"
  /\ pc[s] = "push"
  /\ loop = None
  /\ s \notin up
  /\ HandlerReturns(s)
  /\ UNCHANGED <<nodes, available, jobVars, queue, remaining, dest>>

\* The start of the finally: whatever is listed under the id is dropped, and a
\* linked gateway awaits the report of "offline".
Teardown(s) ==
  /\ nodes' = [nodes EXCEPT ![DeviceOf[s]] = None]
  /\ phase' = [phase EXCEPT ![s] = "closing"]
  /\ pc' = [pc EXCEPT ![s] = "report"]
  /\ loop' = IF PortalLinked THEN None ELSE s
  /\ UNCHANGED <<up, available>>

\* recv() raises ConnectionClosed.
SessionEnds(s) ==
  /\ Listening(s)
  /\ s \notin up
  /\ Teardown(s)
  /\ UNCHANGED <<jobVars, queue, remaining, dest>>

\* The rest of the finally: a job that was running is given back.
GiveBack(s) ==
  /\ pc[s] = "report"
  /\ CanRun(s)
  /\ IF busy[s] # None /\ status[busy[s]] # "forgotten"
       THEN /\ Requeue(busy[s], DeviceOf[s])
            /\ pc' = [pc EXCEPT ![s] = "drain"]
            /\ loop' = s
            /\ UNCHANGED <<up, phase, held, doneOrder>>
       ELSE /\ HandlerReturns(s)
            /\ UNCHANGED <<jobVars, queue>>
  /\ UNCHANGED <<nodes, available, remaining, dest>>

----------------------------------------------------------------------------
(* _drain_queue *)

\* One round of the loop: the head of the queue is dropped, kept for later in
\* the local deque, or assigned, which ends in an await.
DrainStep(t) ==
  /\ pc[t] = "drain"
  /\ CanRun(t)
  /\ queue # <<>>
  /\ queue' = Tail(queue)
  /\ LET j == Head(queue)
     IN \/ /\ status[j] # "queued"
           /\ loop' = t
           /\ UNCHANGED <<jobVars, pc, remaining, dest>>
        \/ /\ status[j] = "queued"
           /\ AtCap(j) \/ Candidates(j) = {}
           /\ remaining' = [remaining EXCEPT ![t] = Append(@, j)]
           /\ loop' = t
           /\ UNCHANGED <<jobVars, pc, dest>>
        \/ /\ status[j] = "queued"
           /\ ~AtCap(j)
           /\ \E s \in Candidates(j) :
                /\ Assign(j, s)
                /\ dest' = [dest EXCEPT ![t] = s]
           /\ pc' = [pc EXCEPT ![t] = "send"]
           /\ loop' = None
           /\ UNCHANGED <<doneOrder, remaining>>
  /\ UNCHANGED netVars

\* Where a task goes when its drain has returned.
AfterDrain(t) ==
  IF t # Poll /\ phase[t] = "closing"
    THEN HandlerReturns(t)
    ELSE /\ phase' = IF t # Poll /\ phase[t] = "registering"
                       THEN [phase EXCEPT ![t] = "serving"]
                       ELSE phase
         /\ pc' = [pc EXCEPT ![t] = "idle"]
         /\ loop' = None
         /\ UNCHANGED up

\* A mutant of DrainEnds: the jobs that could not be placed are dropped.
MutDrainEnds(t) ==
  /\ pc[t] = "drain"
  /\ CanRun(t)
  /\ queue = <<>>
  /\ queue' = <<>>
  /\ remaining' = [remaining EXCEPT ![t] = <<>>]
  /\ AfterDrain(t)
  /\ UNCHANGED <<nodes, available, jobVars, dest>>

\* Another: the deque is put back and also kept for the next drain.
MutDrainEndsTwice(t) ==
  /\ pc[t] = "drain"
  /\ CanRun(t)
  /\ queue = <<>>
  /\ queue' = remaining[t]
  /\ UNCHANGED remaining
  /\ AfterDrain(t)
  /\ UNCHANGED <<nodes, available, jobVars, dest>>

\* The loop finds the queue empty: the kept jobs become the queue.  With an
\* empty queue at the start this is the early return, which changes nothing.
DrainEnds(t) ==
  /\ pc[t] = "drain"
  /\ CanRun(t)
  /\ queue = <<>>
  /\ queue' = remaining[t]
  /\ remaining' = [remaining EXCEPT ![t] = <<>>]
  /\ AfterDrain(t)
  /\ UNCHANGED <<nodes, available, jobVars, dest>>

\* The send of RUN_JOB returns: its bytes are buffered, if not delivered.
SendReturns(t) ==
  /\ pc[t] = "send"
  /\ loop = None
  /\ dest[t] \in up \/ Live(dest[t])
  /\ pc' = [pc EXCEPT ![t] = "drain"]
  /\ dest' = [dest EXCEPT ![t] = None]
  /\ UNCHANGED <<netVars, jobVars, queue, remaining, loop>>

\* The send raises ConnectionClosed inside _drain_queue.  The exception leaves
\* the drain, so `remaining` is lost, and ends what the caller was doing.
SendRaises(t) ==
  /\ pc[t] = "send"
  /\ loop = None
  /\ dest[t] \notin up
  /\ remaining' = [remaining EXCEPT ![t] = <<>>]
  /\ dest' = [dest EXCEPT ![t] = None]
  /\ IF t = Poll
       THEN pc' = [pc EXCEPT ![t] = "idle"] /\ UNCHANGED <<netVars, loop>>
       ELSE IF phase[t] = "serving"
              THEN Teardown(t)
              ELSE HandlerReturns(t) /\ UNCHANGED <<nodes, available>>
  /\ UNCHANGED <<jobVars, queue>>

\* _web_poll_tick: every tick drains the queue.
PollTick ==
  /\ PortalLinked
  /\ pc[Poll] = "idle"
  /\ loop = None
  /\ pc' = [pc EXCEPT ![Poll] = "drain"]
  /\ UNCHANGED <<netVars, jobVars, queue, remaining, dest, loop>>

----------------------------------------------------------------------------
(* _on_node_message *)

Availability(s) ==
  /\ Listening(s)
  /\ \/ /\ s \notin available
        /\ available' = available \cup {s}
        /\ pc' = [pc EXCEPT ![s] = "push"]
     \/ /\ s \in available
        /\ available' = available \ {s}
        /\ UNCHANGED pc
  /\ UNCHANGED <<up, phase, nodes, jobVars, queue, remaining, dest, loop>>

JobResult(s) ==
  /\ Listening(s)
  /\ held[s] # None
  /\ LET j == held[s]
     IN /\ held' = [held EXCEPT ![s] = None]
        /\ busy' = IF busy[s] = j THEN [busy EXCEPT ![s] = None] ELSE busy
        /\ IF status[j] # "forgotten"
             THEN Finish(j, "done")
             ELSE UNCHANGED <<status, active, doneOrder>>
  /\ pc' = [pc EXCEPT ![s] = "push"]
  /\ UNCHANGED <<netVars, nodeOf, tried, queue, remaining, dest, loop>>

\* What JOB_EVICTED and JOB_REFUSED share: the job goes back to the queue and
\* the drain follows at once.
Returned(s) ==
  LET j == held[s]
  IN /\ held' = [held EXCEPT ![s] = None]
     /\ IF status[j] # "forgotten"
          THEN /\ Requeue(j, DeviceOf[s])
               /\ pc' = [pc EXCEPT ![s] = "drain"]
               /\ loop' = s
               /\ UNCHANGED doneOrder
          ELSE UNCHANGED <<busy, status, nodeOf, tried, active, doneOrder,
                           queue, pc, loop>>
     /\ UNCHANGED <<up, phase, nodes, remaining, dest>>

JobEvicted(s) ==
  /\ Listening(s)
  /\ held[s] # None
  /\ available' = available \ {s}
  /\ Returned(s)

JobRefused(s) ==
  /\ Listening(s)
  /\ held[s] # None
  /\ UNCHANGED available
  /\ Returned(s)

----------------------------------------------------------------------------
(* Requesters and the network *)

\* _handle_submit and submit, up to the first await that follows.
Submit(j) ==
  /\ status[j] = "new"
  /\ loop = None
  /\ \/ /\ ~Feasible(j)
        /\ Finish(j, "failed")
        /\ UNCHANGED <<busy, held, nodeOf, tried, queue>>
     \/ /\ Feasible(j)
        /\ AtCap(j) \/ Candidates(j) = {}
        /\ status' = [status EXCEPT ![j] = "queued"]
        /\ queue' = Append(queue, j)
        /\ UNCHANGED <<busy, held, nodeOf, tried, active, doneOrder>>
     \/ /\ Feasible(j)
        /\ ~AtCap(j)
        /\ \E s \in Candidates(j) : Assign(j, s)
        /\ UNCHANGED <<doneOrder, queue>>
  /\ UNCHANGED <<netVars, taskVars>>

\* A mutant of CancelQueued: any job that has not ended is cancelled at once.
MutCancelQueued(j) ==
  /\ status[j] \in {"queued", "running"}
  /\ loop = None
  /\ queue' = RemoveFirst(queue, j)
  /\ Finish(j, "cancelled")
  /\ UNCHANGED <<netVars, taskVars, busy, held, nodeOf, tried>>

\* _handle_cancel of a queued job.  For a running one it only relays
\* CANCEL_JOB, and the job's end arrives as a result.
CancelQueued(j) ==
  /\ status[j] = "queued"
  /\ loop = None
  /\ queue' = RemoveFirst(queue, j)
  /\ Finish(j, "cancelled")
  /\ UNCHANGED <<netVars, taskVars, busy, held, nodeOf, tried>>

\* The peer goes away.  What it had sent may still be read.
LoseConnection(s) ==
  /\ Lossy
  /\ loop = None
  /\ s \in up
  /\ up' = up \ {s}
  /\ UNCHANGED <<phase, nodes, available, jobVars, queue, taskVars>>

----------------------------------------------------------------------------
(* Specification *)

\* The steps of a task that need no message and no new connection.
Run(t) ==
  \/ DrainStep(t)
  \/ DrainEnds(t)
  \/ SendReturns(t)
  \/ SendRaises(t)
  \/ t \in Session /\ (PushReturns(t) \/ RegisterRaises(t) \/ SessionEnds(t) \/ GiveBack(t))

Message(s) == Availability(s) \/ JobResult(s) \/ JobEvicted(s) \/ JobRefused(s)

Next ==
  \/ \E t \in Task : Run(t)
  \/ \E s \in Session : Register(s) \/ Message(s) \/ LoseConnection(s)
  \/ \E j \in Job : Submit(j) \/ CancelQueued(j)
  \/ PollTick

Spec == Init /\ [][Next]_vars

\* asyncio serves ready tasks first in, first out, so none of them starves; the
\* poller sleeps two seconds between ticks.
Fairness == (\A t \in Task : SF_vars(Run(t))) /\ SF_vars(PollTick)

FairSpec == Spec /\ Fairness
----------------------------------------------------------------------------
(* Properties *)

\* Every variable has its type, and only a task that sends has a destination.
TypeOK ==
  /\ up \in SUBSET Session
  /\ phase \in [Session -> {"new", "registering", "serving", "closing", "over"}]
  /\ nodes \in [Device -> Session \cup {None}]
  /\ available \in SUBSET Session
  /\ busy \in [Session -> Job \cup {None}]
  /\ held \in [Session -> Job \cup {None}]
  /\ status \in [Job -> Status]
  /\ nodeOf \in [Job -> Device \cup {None}]
  /\ tried \in [Job -> SUBSET Device]
  /\ queue \in Seq(Job)
  /\ active \in SUBSET Job
  /\ doneOrder \in Seq(Job)
  /\ pc \in [Task -> {"idle", "push", "drain", "send", "report"}]
  /\ remaining \in [Task -> Seq(Job)]
  /\ dest \in [Task -> Session \cup {None}]
  /\ \A t \in Task : pc[t] = "send" => dest[t] # None
  /\ loop \in Task \cup {None}

\* A connected device whose messages the gateway reads is listed, so that a job
\* can reach it (gateway.py:3, "Keeps a live view of every connected node").
ServedIsListed == \A s \in up : Live(s) => Listed(s)

\* A job that a device still has to answer for is the job the table says runs
\* there, and no other session will answer for it: no job is computed twice for
\* the gateway, however drains, returns and lost connections interleave.
OneRunner ==
  \A s \in Session : Live(s) /\ held[s] # None =>
    /\ busy[s] = held[s]
    /\ status[held[s]] = "running"
    /\ nodeOf[held[s]] = DeviceOf[s]
    /\ \A r \in Session : Live(r) /\ held[r] = held[s] => r = s

\* The per-submitter sets are exactly the running jobs: no slot leaks when a job
\* ends, is given back or loses its device, and none is freed early.
ActiveIsRunning == active = {j \in Job : status[j] = "running"}

\* No submitter runs more jobs than --max-concurrent, although the cap is read
\* by one task and other tasks start jobs while it waits (README.md:249).
CapRespected ==
  MaxConcurrent > 0 =>
    \A o \in Owner :
      Cardinality({j \in Job : status[j] = "running" /\ OwnerOf[j] = o}) <= MaxConcurrent

\* Where a job waits: its positions in the queue and in the local deques.
Places(j) ==
  {<<None, i>> : i \in {i \in DOMAIN queue : queue[i] = j}} \cup
    UNION {{<<t, i>> : i \in {i \in DOMAIN remaining[t] : remaining[t][i] = j}} : t \in Task}

\* No job waits in two places, so concurrent drains, each with a local deque,
\* never start one job twice; and a running job waits nowhere.
WaitsOnce ==
  \A j \in Job :
    /\ Cardinality(Places(j)) <= 1
    /\ status[j] = "running" => Places(j) = {}

\* A job that nobody will bring forward: it is queued but in no line, or it runs
\* on no node whose session is served or about to give the job back.
Stranded(j) ==
  \/ status[j] = "queued" /\ Places(j) = {}
  \/ /\ status[j] = "running"
     /\ \A s \in Session : busy[s] = j => ~Live(s) /\ pc[s] # "report"

\* No job is stranded (README.md:283, "Otherwise it waits in the queue", and "If a
\* running job's node drops ... the job is re-queued and placed on another device
\* automatically").  Where connections are lost the code does not keep this.
NoJobStranded == \A j \in Job : ~Stranded(j)

\* What RegisterRaises leaves behind: a listed node that no session serves.
Ghost(d) == nodes[d] # None /\ phase[nodes[d]] = "over"

\* A job is stranded by a send that fails outside the try of _node_session, and by
\* nothing else: it was in the deque of the drain that the send belongs to, it was
\* the job of the session that ended by it, or it is given to the node that such
\* a session left in the registry.  Suspended drains, cancellations, jobs that come
\* back and connections lost at any other point lose none (gateway.py:337-361, 605-627).
StrandedByFailedSendOnly ==
  [][\A j \in Job : Stranded(j)' =>
       \/ Stranded(j)
       \/ \E t \in Task : SendRaises(t) /\ Contains(remaining[t], j)
       \/ \E s \in Session : (SendRaises(s) \/ RegisterRaises(s)) /\ busy[s] = j
       \/ \E d \in Device : nodeOf'[j] = d /\ Ghost(d)]_vars

\* The result store holds each ended job once and is within done_cap; what it
\* dropped is gone from the table (gateway.py:133, "keep at most this many").
StoreExact ==
  /\ Len(doneOrder) <= DoneCap
  /\ ToSet(doneOrder) = {j \in Job : status[j] \in Terminal}
  /\ \A i, k \in DOMAIN doneOrder : doneOrder[i] = doneOrder[k] => i = k

\* A job that has ended stays as it ended until the store drops it: no late
\* answer, return or lost connection revives it (gateway.py:86).
TerminalIsStable ==
  [][\A j \in Job : status[j] \in Terminal => status'[j] \in {status[j], "forgotten"}]_vars

\* The jobs of the gateway live the life JobLifecycle describes.
Lifecycle == INSTANCE JobLifecycle WITH state <- status, runner <- nodeOf, given <- tried

\* Every step of the gateway is a step of a job's life or none at all: through
\* interleaved drains, returned jobs and lost connections no job changes state in
\* a way the lifecycle does not have, on a device it has had, or above the cap.
ImplementsLifecycle == Lifecycle!Spec

\* The devices the gateway reads, each by its listed session.
Reached(d) == nodes[d] # None /\ Live(nodes[d])

Link == INSTANCE DeviceLink WITH
  Peer <- Device,
  up <- {d \in Device : Reached(d)},
  available <- {d \in Device : Reached(d) /\ nodes[d] \in available},
  held <- [d \in Device |-> IF Reached(d) THEN {held[nodes[d]]} \ {None} ELSE {}],
  given <- [d \in Device |-> {j \in Job : d \in tried[j]}]

\* The gateway asks no more of a device than DeviceLink, which Agent implements: it
\* gives a device a job only while that lends itself, has none, and has not had the
\* job on this connection or an earlier one.
ImplementsLink == Link!Spec

\* A queued job that some free node could take at once.
Placeable(j) == status[j] = "queued" /\ ~AtCap(j) /\ Candidates(j) # {}

\* With the poller, capacity and a waiting job do not face each other for ever.
NoEndlessWait == []<>(\A j \in Job : ~Placeable(j))

=============================================================================
