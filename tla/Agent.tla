------------------------------- MODULE Agent -------------------------------
(***************************************************************************)
(* The node agent of src/agent.py and what the gateway believes of it.     *)
(*                                                                         *)
(* The agent is a receive loop, an availability monitor that looks every   *)
(* two seconds, a sandbox in a worker thread and an admin panel, around    *)
(* one in-flight job.  The receive loop awaits the handling of each        *)
(* message, so while a job runs it reads nothing.  Both directions of the  *)
(* WebSocket are channels, for availability reports, answers, RUN_JOB,     *)
(* CANCEL_JOB and NODE_CONTROL may all be in flight at once.               *)
(*                                                                         *)
(* A lost connection is one event for both ends: module Gateway has what   *)
(* the gateway does about it.                                              *)
(***************************************************************************)
EXTENDS Naturals, Sequences, FiniteSets

CONSTANTS
  Job,          \* jobs the gateway may hand to this device, each at most once
  None,
  Relayed,      \* control actions dashboards relay through the gateway
  Local,        \* control actions of the node's own panel
  Cancels,      \* requesters may cancel running jobs
  Lossy,        \* the connection may be lost
  Faulty,       \* Sandbox.run may raise an OSError
  Docker,       \* the sandbox is DockerSandbox (--sandbox hardened or docker)
  MaxFlips,     \* bound: how often the scheduler's answer changes
  MaxControls   \* bound: how many control actions are sent

Control == {"pause", "resume", "set_schedule"}

ASSUME JobsAssumption == None \notin Job \cup Control
ASSUME ControlsAssumption == Relayed \subseteq Control /\ Local \subseteq Control
ASSUME FlagsAssumption == {Cancels, Lossy, Faulty, Docker} \subseteq BOOLEAN
ASSUME BoundsAssumption == MaxFlips \in Nat /\ MaxControls \in Nat

VARIABLES
  lendable,     \* what Scheduler.is_available() would answer now
  paused,       \* Agent.paused
  available,    \* Agent.available
  job,          \* Agent.current_job_id
  evicted,      \* Agent.current_evicted
  box,          \* Sandbox.run: "none", "running", "killed" (stopped), "ended" (has returned)
  monitor,      \* _availability_monitor: "off", "sleep", "check" or "dead"
  rx,           \* the receive loop: "off", "recv" or "run", which awaits a job
  link,         \* Agent.ws: "none", "up", or "lost" and not yet noticed
  toGateway,    \* messages to the gateway
  toAgent,      \* messages to the agent
  listed,       \* the gateway has a Node for this connection
  gwAvailable,  \* Node.available
  gwBusy,       \* Node.busy_job
  handed,       \* the jobs that have been handed to this device (job.tried)
  cancelled,    \* the jobs whose cancellation was relayed
  flips, controls

agentVars == <<paused, available, job, evicted, box, monitor, rx, link>>
gwVars == <<listed, gwAvailable, gwBusy, handed, cancelled>>
channels == <<toGateway, toAgent>>
bounds == <<flips, controls>>
vars == <<lendable, agentVars, channels, gwVars, bounds>>

----------------------------------------------------------------------------
(* Messages *)

Register(a) == [type |-> "REGISTER", available |-> a]
Report(a) == [type |-> "AVAILABILITY", available |-> a]
Answer(t, j) == [type |-> t, job |-> j]
RunJob(j) == [type |-> "RUN_JOB", job |-> j]
CancelJob(j) == [type |-> "CANCEL_JOB", job |-> j]
NodeControl(a) == [type |-> "NODE_CONTROL", action |-> a]

Answers == {"JOB_RESULT", "JOB_EVICTED", "JOB_REFUSED"}

MessagesToGateway ==
  [type : {"REGISTER", "AVAILABILITY"}, available : BOOLEAN]
    \cup [type : Answers, job : Job]

MessagesToAgent ==
  [type : {"RUN_JOB", "CANCEL_JOB"}, job : Job]
    \cup [type : {"NODE_CONTROL"}, action : Control]

----------------------------------------------------------------------------
(* Initial state: the agent's constructor has run, nothing is connected *)

Init ==
  /\ lendable \in BOOLEAN
  /\ paused = FALSE
  /\ available = lendable
  /\ job = None
  /\ evicted = FALSE
  /\ box = "none"
  /\ monitor = "off"
  /\ rx = "off"
  /\ link = "none"
  /\ toGateway = <<>>
  /\ toAgent = <<>>
  /\ listed = FALSE
  /\ gwAvailable = FALSE
  /\ gwBusy = None
  /\ handed = {}
  /\ cancelled = {}
  /\ flips = 0
  /\ controls = 0

----------------------------------------------------------------------------
(* The connection *)

\* The gateway's finally: the Node is gone and its job is taken back.  What was
\* in flight to the gateway is lost with the connection.
GatewayForgets ==
  /\ listed' = FALSE
  /\ gwAvailable' = FALSE
  /\ gwBusy' = None
  /\ toGateway' = <<>>

\* run() connects and _serve registers and starts the monitor.
Connect ==
  /\ link = "none"
  /\ link' = "up"
  /\ rx' = "recv"
  /\ monitor' = "sleep"
  /\ toGateway' = <<Register(available)>>
  /\ toAgent' = <<>>
  /\ UNCHANGED <<lendable, paused, available, job, evicted, box, gwVars, bounds>>

\* The peer is gone.  The agent can still read what it has received.
LoseConnection ==
  /\ Lossy
  /\ link = "up"
  /\ link' = "lost"
  /\ \E n \in 0 .. Len(toAgent) : toAgent' = SubSeq(toAgent, 1, n)
  /\ GatewayForgets
  /\ UNCHANGED <<lendable, paused, available, job, evicted, box, monitor, rx,
                 handed, cancelled, bounds>>

\* The exception leaves _serve, its finally cancels the monitor, and run()
\* closes the socket to try again later.
LeaveServe ==
  /\ rx' = "off"
  /\ monitor' = "off"
  /\ link' = "none"
  /\ toAgent' = <<>>

\* The receive loop finds the connection closed.
ServeEnds ==
  /\ rx = "recv"
  /\ link = "lost"
  /\ toAgent = <<>>
  /\ LeaveServe
  /\ UNCHANGED <<lendable, paused, available, job, evicted, box, toGateway, gwVars, bounds>>

----------------------------------------------------------------------------
(* Availability, instant reclaim and control actions *)

\* The owner comes or goes: schedule, idle detection and the on/off toggle.
OwnerActs ==
  /\ flips < MaxFlips
  /\ flips' = flips + 1
  /\ lendable' = ~lendable
  /\ UNCHANGED <<agentVars, channels, gwVars, controls>>

\* A mutant of MonitorTick: the change is noted and not reported.
MutMonitorTick ==
  /\ monitor = "sleep"
  /\ LET now == lendable /\ ~paused
     IN /\ now # available
        /\ available' = now
        /\ UNCHANGED toGateway
        /\ monitor' = IF link = "lost" THEN "dead" ELSE IF now THEN "sleep" ELSE "check"
  /\ UNCHANGED <<lendable, paused, job, evicted, box, rx, link, toAgent, gwVars, bounds>>

\* One look of the monitor that finds a change, up to the send.  On a lost
\* connection the send raises, and the task ends before it can evict.
MonitorTick ==
  /\ monitor = "sleep"
  /\ LET now == lendable /\ ~paused
     IN /\ now # available
        /\ available' = now
        /\ \/ /\ link = "up"
              /\ toGateway' = Append(toGateway, Report(now))
              /\ monitor' = IF now THEN "sleep" ELSE "check"
           \/ /\ link = "lost"
              /\ monitor' = "dead"
              /\ UNCHANGED toGateway
  /\ UNCHANGED <<lendable, paused, job, evicted, box, rx, link, toAgent, gwVars, bounds>>

\* Sandbox.cancel.  A subprocess job is killed wherever run() is.  A container is
\* killed by name, which has no effect before the daemon has made it, and a docker
\* kill that fails is ignored; then the job runs on.
KillBox ==
  \/ box = "running" /\ box' = "killed"
  \/ (Docker \/ box # "running") /\ UNCHANGED box

\* A mutant of MonitorCheck: no job is ever evicted.
MutMonitorCheck ==
  /\ monitor = "check"
  /\ monitor' = "sleep"
  /\ UNCHANGED <<evicted, box>>
  /\ UNCHANGED <<lendable, paused, available, job, rx, link, channels, gwVars, bounds>>

\* After the send: unless it is a pause that made the node unavailable, the
\* running job is evicted (_evict).
MonitorCheck ==
  /\ monitor = "check"
  /\ monitor' = "sleep"
  /\ IF ~paused /\ job # None
       THEN evicted' = TRUE /\ KillBox
       ELSE UNCHANGED <<evicted, box>>
  /\ UNCHANGED <<lendable, paused, available, job, rx, link, channels, gwVars, bounds>>

\* The part of _apply_control that changes the agent.
Set(a) ==
  \/ a = "pause" /\ paused' = TRUE /\ UNCHANGED <<lendable, flips>>
  \/ a = "resume" /\ paused' = FALSE /\ UNCHANGED <<lendable, flips>>
  \/ /\ a = "set_schedule"
     /\ \/ UNCHANGED <<lendable, flips>>
        \/ flips < MaxFlips /\ flips' = flips + 1 /\ lendable' = ~lendable
     /\ UNCHANGED paused

\* _push_availability: recompute and report, changed or not.  It never evicts.
Push ==
  /\ available' = (lendable' /\ ~paused')
  /\ toGateway' = IF link = "up"
                    THEN Append(toGateway, Report(lendable' /\ ~paused'))
                    ELSE toGateway

\* A POST to the node's own panel runs _apply_control on the agent's loop.
PanelControl(a) ==
  /\ a \in Local
  /\ controls < MaxControls
  /\ controls' = controls + 1
  /\ Set(a)
  /\ Push
  /\ UNCHANGED <<job, evicted, box, monitor, rx, link, toAgent, gwVars>>

----------------------------------------------------------------------------
(* _on_message and _run_job *)

Receives(type) == rx = "recv" /\ toAgent # <<>> /\ Head(toAgent).type = type

\* Answer the gateway and go on, or fail to and leave _serve.
SendAnswer(answer) ==
  IF link = "up"
    THEN /\ toGateway' = Append(toGateway, answer)
         /\ rx' = "recv"
         /\ UNCHANGED <<monitor, link>>
    ELSE /\ rx' = "off"
         /\ monitor' = "off"
         /\ link' = "none"
         /\ UNCHANGED toGateway

\* A mutant of Decline: the answer names the job that keeps the node busy.
MutDecline ==
  /\ Receives("RUN_JOB")
  /\ LET j == Head(toAgent).job
     IN \/ /\ job # None \/ ~available
           /\ SendAnswer(Answer("JOB_EVICTED", IF job # None THEN job ELSE j))
        \/ /\ job = None /\ available
           /\ SendAnswer(Answer("JOB_REFUSED", j))
  /\ toAgent' = IF link = "up" THEN Tail(toAgent) ELSE <<>>
  /\ UNCHANGED <<lendable, paused, available, job, evicted, box, gwVars, bounds>>

\* The two guards of _run_job: the node does not take the job.
Decline ==
  /\ Receives("RUN_JOB")
  /\ LET j == Head(toAgent).job
     IN \/ /\ job # None \/ ~available
           /\ SendAnswer(Answer("JOB_EVICTED", j))
        \/ /\ job = None /\ available
           /\ SendAnswer(Answer("JOB_REFUSED", j))
  /\ toAgent' = IF link = "up" THEN Tail(toAgent) ELSE <<>>
  /\ UNCHANGED <<lendable, paused, available, job, evicted, box, gwVars, bounds>>

\* A mutant of Start: the flag of the last eviction is not reset.
MutStart ==
  /\ Receives("RUN_JOB")
  /\ job = None /\ available
  /\ job' = Head(toAgent).job
  /\ UNCHANGED evicted
  /\ box' = "running"
  /\ rx' = "run"
  /\ toAgent' = Tail(toAgent)
  /\ UNCHANGED <<lendable, paused, available, monitor, link, toGateway, gwVars, bounds>>

\* The node takes the job: the sandbox runs in a thread and is awaited.
Start ==
  /\ Receives("RUN_JOB")
  /\ job = None /\ available
  /\ job' = Head(toAgent).job
  /\ evicted' = FALSE
  /\ box' = "running"
  /\ rx' = "run"
  /\ toAgent' = Tail(toAgent)
  /\ UNCHANGED <<lendable, paused, available, monitor, link, toGateway, gwVars, bounds>>

\* CANCEL_JOB: kill the sandbox of the job in flight.
Cancel ==
  /\ Receives("CANCEL_JOB")
  /\ IF Head(toAgent).job = job THEN KillBox ELSE UNCHANGED box
  /\ toAgent' = Tail(toAgent)
  /\ UNCHANGED <<lendable, paused, available, job, evicted, monitor, rx, link,
                 toGateway, gwVars, bounds>>

\* NODE_CONTROL: _apply_control, whose report raises on a lost connection.
Controlled ==
  /\ Receives("NODE_CONTROL")
  /\ Set(Head(toAgent).action)
  /\ Push
  /\ IF link = "up"
       THEN toAgent' = Tail(toAgent) /\ UNCHANGED <<rx, monitor, link>>
       ELSE LeaveServe
  /\ UNCHANGED <<job, evicted, box, gwVars, controls>>

\* The process ends by itself, or by the wall-clock limit of the sandbox.
BoxEnds ==
  /\ box = "running"
  /\ box' = "ended"
  /\ UNCHANGED <<lendable, paused, available, job, evicted, monitor, rx, link,
                 channels, gwVars, bounds>>

\* A sandbox that has been killed returns (CancelReturns of module Sandbox; for a
\* container, the docker kill has ended it and with it its client).
KillEnds ==
  /\ box = "killed"
  /\ box' = "ended"
  /\ UNCHANGED <<lendable, paused, available, job, evicted, monitor, rx, link,
                 channels, gwVars, bounds>>

\* Sandbox.run raises an OSError (no such interpreter, a full disk).  run()
\* takes it for a lost connection, and current_job_id is not cleared.
BoxRaises ==
  /\ Faulty
  /\ box \in {"running", "killed"}
  /\ box' = "none"
  /\ LeaveServe
  /\ GatewayForgets
  /\ UNCHANGED <<lendable, paused, available, job, evicted, handed, cancelled, bounds>>

\* Another: a job that ended although it was to be evicted is not answered.
MutFinishSilent ==
  /\ rx = "run"
  /\ box = "ended"
  /\ job' = None
  /\ box' = "none"
  /\ IF evicted
       THEN rx' = "recv" /\ UNCHANGED <<toGateway, monitor, link>>
       ELSE SendAnswer(Answer("JOB_RESULT", job))
  /\ toAgent' = IF link = "up" THEN toAgent ELSE <<>>
  /\ UNCHANGED <<lendable, paused, available, evicted, gwVars, bounds>>

\* The thread has returned: the state is cleared and the answer sent.
Finish ==
  /\ rx = "run"
  /\ box = "ended"
  /\ job' = None
  /\ box' = "none"
  /\ SendAnswer(Answer(IF evicted THEN "JOB_EVICTED" ELSE "JOB_RESULT", job))
  /\ toAgent' = IF link = "up" THEN toAgent ELSE <<>>
  /\ UNCHANGED <<lendable, paused, available, evicted, gwVars, bounds>>

----------------------------------------------------------------------------
(* The gateway's side of the connection *)

GatewayReads ==
  /\ toGateway # <<>>
  /\ toGateway' = Tail(toGateway)
  /\ LET m == Head(toGateway)
     IN \/ /\ m.type \in {"REGISTER", "AVAILABILITY"}
           /\ listed' = TRUE
           /\ gwAvailable' = m.available
           /\ UNCHANGED gwBusy
        \/ /\ m.type \in Answers
           /\ gwAvailable' = (gwAvailable /\ m.type # "JOB_EVICTED")
           /\ gwBusy' = IF gwBusy = m.job THEN None ELSE gwBusy
           /\ UNCHANGED listed
  /\ UNCHANGED <<lendable, agentVars, toAgent, handed, cancelled, bounds>>

\* A mutant of Assign: a node that already runs a job is given another.
MutAssign(j) ==
  /\ listed /\ gwAvailable
  /\ j \notin handed
  /\ gwBusy' = j
  /\ handed' = handed \cup {j}
  /\ toAgent' = Append(toAgent, RunJob(j))
  /\ UNCHANGED <<lendable, agentVars, toGateway, listed, gwAvailable,
                 cancelled, bounds>>

Assign(j) ==
  /\ listed /\ gwAvailable /\ gwBusy = None
  /\ j \notin handed
  /\ gwBusy' = j
  /\ handed' = handed \cup {j}
  /\ toAgent' = Append(toAgent, RunJob(j))
  /\ UNCHANGED <<lendable, agentVars, toGateway, listed, gwAvailable,
                 cancelled, bounds>>

\* _handle_cancel of a running job; one request per job is enough here.
RelayCancel ==
  /\ Cancels
  /\ gwBusy \notin cancelled \cup {None}
  /\ cancelled' = cancelled \cup {gwBusy}
  /\ toAgent' = Append(toAgent, CancelJob(gwBusy))
  /\ UNCHANGED <<lendable, agentVars, toGateway, listed, gwAvailable,
                 gwBusy, handed, bounds>>

\* _handle_control: the action is relayed.  The gateway also notes it on the Node
\* for its viewers (paused, schedule), which no decision reads.
RelayControl(a) ==
  /\ a \in Relayed
  /\ listed
  /\ controls < MaxControls
  /\ controls' = controls + 1
  /\ toAgent' = Append(toAgent, NodeControl(a))
  /\ UNCHANGED <<lendable, agentVars, toGateway, gwVars, flips>>

----------------------------------------------------------------------------
(* Specification *)

\* The steps of the receive loop other than the sandbox's own.
Serve == ServeEnds \/ Decline \/ Start \/ Cancel \/ Controlled \/ Finish

Next ==
  \/ Connect \/ LoseConnection
  \/ OwnerActs \/ MonitorTick \/ MonitorCheck
  \/ \E a \in Control : PanelControl(a) \/ RelayControl(a)
  \/ Serve
  \/ BoxEnds \/ KillEnds \/ BoxRaises
  \/ GatewayReads \/ RelayCancel
  \/ \E j \in Job : Assign(j)

Spec == Init /\ [][Next]_vars

\* Every task of the two event loops runs on when it can; the agent reconnects;
\* a killed process dies.  A job may compute as long as it is allowed to, so the
\* properties below must not rest on its end.
Fairness ==
  /\ WF_vars(Connect)
  /\ WF_vars(Serve)
  /\ WF_vars(MonitorTick)
  /\ WF_vars(MonitorCheck)
  /\ WF_vars(KillEnds)
  /\ WF_vars(GatewayReads)

FairSpec == Spec /\ Fairness

----------------------------------------------------------------------------
(* Properties *)

\* Every variable has its type; a job is awaited exactly while it has a sandbox.
TypeOK ==
  /\ {lendable, paused, available, evicted} \subseteq BOOLEAN
  /\ {listed, gwAvailable} \subseteq BOOLEAN
  /\ {job, gwBusy} \subseteq Job \cup {None}
  /\ box \in {"none", "running", "killed", "ended"}
  /\ monitor \in {"off", "sleep", "check", "dead"}
  /\ rx \in {"off", "recv", "run"}
  /\ link \in {"none", "up", "lost"}
  /\ toGateway \in Seq(MessagesToGateway)
  /\ toAgent \in Seq(MessagesToAgent)
  /\ handed \subseteq Job /\ cancelled \subseteq Job
  /\ flips \in 0 .. MaxFlips /\ controls \in 0 .. MaxControls
  /\ rx = "run" <=> box # "none"

\* What the gateway will believe once it has read everything sent to it: an offer that
\* no withdrawal follows.
Offers(m) == m.type \in {"REGISTER", "AVAILABILITY"} /\ m.available
Withdraws(m) == m.type = "JOB_EVICTED" \/ (m.type \in {"REGISTER", "AVAILABILITY"} /\ ~m.available)

Stands(n) == \A i \in (n + 1) .. Len(toGateway) : ~Withdraws(toGateway[i])

Told ==
  \/ gwAvailable /\ Stands(0)
  \/ \E n \in 1 .. Len(toGateway) : Offers(toGateway[n]) /\ Stands(n)

\* The gateway is never left believing that a device lends itself when it does
\* not: whatever monitor, panel, relayed controls and reconnections do, every
\* withdrawal has been sent after the last offer (agent.py:199-230).
NeverOversold == link = "up" /\ Told => available

Count(t, ch, j) == Cardinality({i \in DOMAIN ch : ch[i].type \in t /\ ch[i].job = j})

\* A job the gateway holds a device responsible for is in exactly one place: on
\* its way, running, or answered and not read; no job is answered twice or never
\* (agent.py:366-430, gateway.py:643-685).
AnsweredOnce ==
  link = "up" => \A j \in Job :
    Count({"RUN_JOB"}, toAgent, j) + Count(Answers, toGateway, j)
      + (IF rx = "run" /\ job = j THEN 1 ELSE 0)
      = (IF gwBusy = j THEN 1 ELSE 0)

\* A subprocess job that will be given back as evicted is not running any more: a
\* kill is never forgotten, and the flag of an earlier eviction never marks a later
\* job (agent.py:325-334, 390).
EvictedIsStopped == rx = "run" /\ evicted => box # "running"

\* Every job the gateway has handed out comes off the device's hands, by an
\* answer or by the end of the connection, unless it computes: no loss, control
\* action, refusal or fault leaves a job that nobody will ever answer.
EveryJobComesBack ==
  \A j \in Job : gwBusy = j ~> (gwBusy # j \/ (job = j /\ box = "running"))

\* A borrowed subprocess job does not keep running while the owner wants the machine
\* (README.md:42-44, "instant reclaim"), as far as the monitor alone decides: nobody
\* has used a control action and the connection lasts.
UndisturbedReclaim ==
  (rx = "run" /\ ~lendable /\ controls = 0)
    ~> (rx # "run" \/ lendable \/ controls > 0 \/ link # "up")

\* The promise itself: when the owner comes back (schedule, idleness, the toggle) and
\* the node is not paused, the job in flight is evicted (README.md:42-44, agent.py:213).
InstantReclaim ==
  (rx = "run" /\ ~lendable /\ ~paused) ~> (rx # "run" \/ lendable \/ paused)

\* A cancellation that reaches the device while the job runs ends the job before
\* it would end by itself (README.md:271, "cancel a queued or running job").
CancelEndsJob ==
  \A j \in Job :
    (rx = "run" /\ job = j /\ Count({"CANCEL_JOB"}, toAgent, j) > 0)
      ~> (rx # "run" \/ job # j)

\* The jobs that are on their way to the agent, with it, or in an answer not yet read.
Out == {j \in Job : \/ Count({"RUN_JOB"}, toAgent, j) > 0
                    \/ rx = "run" /\ job = j
                    \/ Count(Answers, toGateway, j) > 0}

\* The one device of DeviceLink that this is.
Self == "agent"

Link == INSTANCE DeviceLink WITH
  Peer <- {Self},
  up <- IF listed THEN {Self} ELSE {},
  available <- IF gwAvailable THEN {Self} ELSE {},
  held <- [p \in {Self} |-> IF listed THEN Out ELSE {}],
  given <- [p \in {Self} |-> handed]

\* The agent is the device that Gateway takes it for: through two channels, refusals,
\* evictions and reconnections it has one job at a time, none when it is given one, and
\* answers for that one and once (gateway.py:629-685 believes any answer it reads).
ImplementsLink == Link!Spec
=============================================================================
