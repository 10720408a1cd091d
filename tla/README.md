# AICN: specifications, checks and proofs

TLA+ modules for the volunteer compute network in `src/`: a gateway that matches
jobs to the machines of volunteers, the agent on each machine, the sandbox that runs
a job, the command line client, and the portal with its organizations, servers and
browser jobs.  Every module is a translation of the source; `PROJECT.json` maps each
definition to its lines.  References to `README.md` in module comments and below are
to `src/README.md`.

    tlc -workers 2 -config MC_GatewayReconnect.cfg MC_Gateway.tla
    tlapm GatewayProofs.tla

## 1. Inventory

| Component | State | Operations | What makes it correct |
|---|---|---|---|
| Gateway dispatcher (`gateway.py`) | `nodes`, `Node.available/busy_job`, `jobs`, `queue`, `active_jobs`, `done_order` | REGISTER, AVAILABILITY, JOB_RESULT, JOB_EVICTED, JOB_REFUSED, SUBMIT_JOB, CANCEL, end of a session, `_drain_queue` | a job runs on one node at a time and ends once; nothing queued is lost but where a send fails; caps and store bounds are exact; free nodes are used |
| Delivery (`gateway.py`, `client.py`) | `Job.requester_ws`, `Job.result`, the client's loop | submit, `--get --wait`, `--cancel`, `_notify`, end of a requester session | each waiting program is told the job's end, once, and the same everywhere |
| Node agent (`agent.py`) | `available`, `paused`, `current_job_id`, `current_evicted`, `current_sandbox`, the socket | RUN_JOB, CANCEL_JOB, NODE_CONTROL, the monitor's tick, panel actions, reconnection | the gateway never believes in capacity the owner has withdrawn; a job handed out comes back; the owner gets the machine back |
| Sandbox (`sandbox.py`) | `_proc`/`_container`, `_cancelled`, the watchdog's flag | run, cancel, watchdog, install and wall-clock limits | cancel leaves no process; a kill is never reported as a normal end |
| Browser jobs (`gateway.py`, `portal_link.py`, `portal/`) | `web_jobs` rows, `web_map` | pick up, mark, finish, fetch | a row is run once, gets its result, shows no end that did not happen |
| Portal membership (`portal/app.py`, `portal/db.py`) | `memberships`, `invites` | invite, revoke, accept, set role, remove, leave | an organization keeps an admin; only links admit people |
| Portal servers (`portal/`, `portal_link.py`, `gateway.py`) | `servers`, `server_orgs`, `_node_state`, `Node.org_ids` | create, share, delete, claim, state reports, the poller's refresh | a claim token binds one server; the portal shows what the gateway knows; jobs are routed by the organizations of now |
| Approved keys (`identity.py`, `authctl.py`, gateway) | the key file, each reader's copy of it, the roles a peer names | challenge, enrolment, approve, revoke | nobody gets in unapproved; a revocation sticks; an approval suffices |
| Rate limiter (`reputation.py`) | a deque per submitter | `allow` | no window is overfilled, no call refused without need |
| Schedule (`scheduler.py`, `agent.py`) | the weekly windows | `_within_hours`, `set_schedule` | a device is lent in its windows and only there |
| Policy, reputation, idleness | configuration, counters, the last input | decisions on data | allow-rules mean what they say |
| API tokens, logins | rows of the portal | one statement per request | - |
| `aicn.py`, `hardware.py`, TLS, pages, scripts | none of the protocol | input and output | - |

The components meet in four ways.  Agent and client hold a WebSocket to the gateway,
each message a JSON object of `protocol.py`.  Inside the gateway, sessions are
coroutines on one loop and share its dictionaries: a coroutine loses the loop at an
`await` that suspends and nowhere else.  The agent's loop shares fields with a
worker thread and the panel.  The gateway calls the portal by HTTP or through its
database, off the loop, and ignores failures; the portal runs request handlers in a
pool of threads over one database.

The behaviours that are hard: what other coroutines do at each `await`; connections
that end at any point; a reclaim, a pause, a cancellation and a job's end at the
same moment; calls that are lost or applied late; restarts; two requests of one
organization.  The `hazards` of `PROJECT.json` list them with their lines.

## 2. Modules

| Module | Models | Steps |
|---|---|---|
| `Gateway` | dispatcher | the stretch between two awaits |
| `JobLifecycle` | what the gateway promises about a job, without queue or sessions | one event of a job |
| `DeviceLink` | what gateway and device rely on of each other, without queue or channels | one event of a device |
| `Agent` | one agent, its sandbox's life, and what the gateway believes of it | the stretch between two awaits; channels in both directions |
| `Delivery` | push targets, requester sessions, client programs | each send that is an await |
| `Sandbox` | one job in one sandbox: worker, cancel, watchdog | each access to shared state, under the lock or not |
| `JobRun` | what a sandbox promises about its job, without threads or lock | one event of a job |
| `WebJobs` | poller, rows, portal calls | each call to the portal |
| `Servers` | server rows, claim tokens, state reports, organizations of a node | each call to the portal, or its return |
| `Membership` | members and links of one organization | each database call of a request |
| `Keystore` | the key file, handshakes, `authctl.py` | each read and each write of the file |
| `RateLimit` | the sliding window of one gateway | each call of `allow`, each moment |
| `Schedule` | the weekly windows of one device | each minute, each new schedule |
| `MC_*` | small instances; `MC_Parts` composes `Sandbox`, `RateLimit`, `Schedule` and `Membership`, a behaviour being about one of them | - |
| `*Proofs` | the theorems about the module they are named after; `LimitsProofs` has `RateLimit`, `Schedule` and `Sandbox` | - |

**Gateway.** A *session* is one WebSocket of a node, a *task* whatever may be
suspended: a session's handler or the portal poller.  `loop` names the task that
holds the event loop, if one does between the steps of a stretch.  `phase` and `pc`
say where a session's handler is, `up` whether its connection is alive, `held` the
job the agent behind it has.  `remaining` is the local deque of `_drain_queue`, and
`dest` the node of the send it is suspended in.  `Register`, `AfterDrain`,
`Teardown`, `GiveBack` are `_node_session`; `DrainStep`, `DrainEnds`, `SendReturns`,
`SendRaises` are `_drain_queue` with `_assign`; `JobResult`, `JobEvicted`,
`JobRefused`, `Availability` are `_on_node_message`; `Submit` and `CancelQueued` the
requester's calls.  `SendRaises` leaves a drain through whoever called it, and
`RegisterRaises` a registration before its `try`: the first loses the deque, the
second leaves the `Node` in the registry (`Ghost`).  A send to a client and a `push` to dashboards are not told apart
from the other awaits.  Abstracted: the score that chooses a node (any candidate may
be chosen), requirements (`Fits`), checkpoints, reputation.  A result and an
eviction take effect when the gateway reads them.  Where a session suspends in
submitting a job is in `Delivery`.

`Overlap = FALSE` is an assumption: a device reconnects only after the gateway is
through with its old session.  Nothing in the code enforces it (the agent backs off
before it reconnects, agent.py:158, but a half-open connection may last longer than
that): with overlap the teardown of the old session removes the new `Node`, and its
requeue may revive a job.  The exactness of the running sets and the cap do not need
it.

**JobLifecycle** has a job wait, run, come back and end.  `Gateway` maps its
`status`, `nodeOf` and `tried` onto `state`, `runner` and `given`, and
`ImplementsLifecycle` is the refinement, checked by TLC and proved.

**DeviceLink** is where `Gateway` and `Agent` meet.  A device is up, lends itself,
has jobs and has been given jobs; it registers, reports, is given a job, in vain if
its connection is gone, answers and is lost.  `Gateway` implements it for all its
devices, each seen through the session the registry lists (`Reached`); `Agent`
implements it for the one device it is, where the jobs it has are those on their way
in either channel or in its sandbox (`Out`).  Each of the two models takes the other
side for what this specification says, so the refinements show that neither takes
too much: the gateway gives a device no second job and none it has had, and the
agent answers for the job it has and for no other, although the gateway would
believe any answer.

**Agent.** `rx` is the receive loop ("run": it awaits `_run_job` and reads nothing),
`monitor` the availability task, `box` the sandbox as `Sandbox` has it in detail,
`lendable` the scheduler's answer.  `toGateway` and `toAgent` are the socket.
`listed`, `gwAvailable`, `gwBusy` are the gateway's Node.  A lost connection is one
event for both ends.  `KillBox` is `Sandbox.cancel`: a subprocess job is killed
wherever `run()` is, while with `Docker = TRUE` the kill may have no effect, because
the daemon has not made the container or `docker kill` fails, and the job runs on.
That a killed sandbox returns (`KillEnds`) is `CancelReturns` of `Sandbox` for a
subprocess, and for a container that was killed the end of its client.  Left out:
telemetry, live logs, a rejected registration, and exceptions of `run()` other than
OSError, which end the program.

**Delivery.** `push[j]` is `Job.requester_ws`; `to` and `about` are the locals of a
suspended `_notify`, which is the point: the target may have changed when the send
fails.  A detached client is one whose connection is lost.  Which node runs a job is
not its concern, and `MaxSessions` bounds how many programs are connected at once; a job comes back and ends by steps of a task named by the job.  It
is started by a `Drain`, a coroutine inside `_drain_queue`: `NodeStarts` gives the
job away up to the send of RUN_JOB, `DrainRaises` is that send failing, and
`AssignReturns` the `_notify` of JOB_ACCEPTED that is awaited after it
(gateway.py:353-355), to the target of that moment, which the drain clears if the
send fails later.

**Sandbox.** Both sandboxes in one module, `backend` telling which.  `LockFree`
guards the worker's locked sections; `Cancel` takes the lock and `CancelKills` kills
and releases it; the watchdog and the limit kill without it.  `cancel` may be called
as soon as the sandbox has been made, before `run()` does anything, and again; the
preparation does not look at the flag and may raise, or find docker missing
(`Begin`), and so may the move of a finished install into the cache (`Publish`).
Only the process itself is modelled: its descendants are killed with it where psutil
is installed (sandbox.py:374-380).  A container starts some time after its client, or
never, and a `docker kill` before that, or one that fails, has no effect.  `JobRun`
is what that comes to for the agent: a job is launched, not after it was cancelled or
killed; its process appears, at once or in its own time, and ends; a cancellation is a
request and then a kill, and may come again; one outcome is reported, when no process
is left (or, of a container that may still appear, at its limit), and an end of its
own only of a job that was not killed and either not cancelled or never started.
`ImplementsJobRun` is the refinement.

**WebJobs.** One poller, `call` the portal call it waits for.  A call returns, is
lost, or times out and is applied later (`late`).  `blame` counts the faults and
restarts that hit a row; it is history and guards nothing.

**Membership.** A request is its operation, its target and where it is; what it has
read is in where it goes on.  Whoever asks as an admin is one when asking, and is
not looked at again.  `overtaken` is history: the requests during which another's
write has changed the members.

**Servers.** `row` is a row of `servers` by its claim token and owner, `shares` its
`server_orgs`, `shown` its state column; `node` is an agent's session, with the
organizations its `Node` serves; `cache` is `_node_state`.  `Ask`, `ClaimRead`,
`ClaimWrite` and `ClaimCall` are the calls of a registration, by file (read and
write apart, as in db.py:546) or by HTTP.  A report is a member of `sent`; whether
it is applied before a later one depends on the thread that carries it, so `Apply`
takes any.  `hit` holds the agents a report of which was lost, late or overtaken,
`contested` the rows whose token two claims had read before either wrote; both are
history.  The poller's copy of the registry is `poll.visit`: an agent that left is
visited in the state its old `Node` had.  `Fetch` reads a node's organizations in a
thread (`poll.got`), `Visit` sets them and reports the node's state.

**Keystore.** `session[s].seen` is the copy of the file that the handshake read
before its challenge, `tool[t].copy` the one that `authctl.py` read.  `Decide` takes
the answer and writes the copy back where it enrols a key, `Save` replaces the whole
file.  A read that fails gives the empty file (`HelloMisread`, `LoadMisread`).
`Restart` is an agent that gave up when it was rejected and is started again.  A role
belongs to a connection: `Enrols` asks what HELLO said, `Register` serves whatever
role REGISTER names, and neither is compared with the other or with the entry
(gateway.py:531, 491-499, 563-570); `Roles` says what the peer at a session may name.
`vouched` and `enrolled` are history: the keys an administrator has ever approved, and
those proved by a peer that said it was a node while enrollment was open.

**RateLimit, Schedule.** The log of allowed calls is kept whole and `popped` counts
those that have left the deque, so that the property may look at windows the purge
never saw.  A day has `DayLength` minutes and a week `WeekLength` days.

## 3. Runs

| Run | Instance | Shows |
|---|---|---|
| `gateway_reconnect` | 2 devices, one connects twice; 2 jobs of two owners, one pinned; cap 1, store of 1; losses | registry, runners, running sets, lines and store are consistent; ended jobs stay; a job is stranded by a failed send only; refines `JobLifecycle` and `DeviceLink` |
| `gateway_batch` | 2 devices, 2 jobs of one owner, one fits one device only; cap 1, store of 1; poller; no losses | the cap holds; capacity and a waiting job do not face each other for ever |
| `gateway_drops` | 2 devices that connect once, 2 jobs; losses | **violation**: a job given to the node that a failed registration left behind stays there |
| `agent_full` | 2 jobs, all controls, cancellations, losses, faults, a subprocess sandbox; 2 changes of the scheduler, 2 controls | the two ends agree, every job comes back unless it computes, an evicted job is stopped, an undisturbed reclaim happens; refines `DeviceLink` |
| `agent_docker` | 1 job, the owner returns once, a container sandbox | **violation**: the job runs on beside the owner |
| `agent_uncancelled` | 1 job, cancellations | **violation**: CANCEL_JOB has no effect |
| `delivery` | a submitter that may vanish, a waiter, a canceller, two of them connected at a time; a drain; 1 job that comes back once | outcomes agree and are told once, targets are open, the outcome reaches whoever attaches undisturbed |
| `webjobs` | 2 rows, fetched one per tick, 1 fault, 1 restart | one run per row and fault, true rows, results arrive |
| `servers` | 1 row shared with a second organization, 2 agents, one of them followed after its claim; file and HTTP; losses, restarts | the portal agrees with the gateway, a token is used once but in a race, states arrive, routing follows the portal |
| `keystore` | an agent, a client of another machine, one tool; reads that fail | only keys that are vouched for, or came as a node while enrollment was open, are served; a settled revocation holds; an approved key gets in |
| `keystore_roles` | the agent and the client of one machine, one tool | **violation**: a requester nobody approved is served |
| `parts` | a sandbox of either backend, with and without pip and memory limit; a submitter with 2 calls in 3 moments, 7 moments; a week of 3 days of 4 minutes, 7 schedules; 3 users, 2 requests at a time, 2 links | `Sandbox` refines `JobRun`, cancel stops a subprocess job and run() returns; windows are never overfilled and calls never refused without need; hours are the schedule's; an admin is lost in a race only, links are the only way in |

The bounds are the least at which the cases of the hazards happen. Two devices and two
jobs are enough for a drain to pass over one job and suspend in the send of another; a
device that connects twice is enough for a job to come back to a device it has been
on. In `gateway_reconnect` the two jobs belong to two owners, so that they may run at
once beside the losses; in `gateway_batch` to one, so that the cap is met.
(`gateway_batch` keeps its connections, because `NoEndlessWait` is about nodes that
are there; what losses do to jobs is in `gateway_reconnect` and `gateway_drops`.) A
store of one is full with the first job that ends. Three connections with losses let a
teardown meet a drain of another session. Two changes of the scheduler are a return
and a departure of the owner; two controls are a pause and a resume. A late call needs
one call made since, a second pick-up one restart. The last admin takes two requests;
the third user is there to be promoted meanwhile. One key file, a peer for each key
and one tool are two writers and a third, which suffices for a stale copy to meet an
approval and a revocation. One server is claimed by two agents; at most one report of
a closing session and one that timed out are under way at a time beside the poller's,
which is a report overtaken by the next. In `delivery` two of the three programs are
connected at a time (`MaxSessions`): every hazard there is of two sessions and a drain,
and the safety properties are proved for any number. In `keystore` each peer keeps to
the role of its program, which is proved not to matter (`OnlyApproved` and
`RevocationHolds` hold for any `Roles`). `agent_full` has the subprocess sandbox, for
which `UndisturbedReclaim` and `EvictedIsStopped` hold; `AnsweredOnce`, `NeverOversold`
and the refinement of `DeviceLink` are proved for the container sandbox as well. The
parts of `parts` share nothing, so a behaviour is about one and the others wait at
their beginning: the states are a sum, not a product, and each property is about
its own part. Seven moments hold two windows of three and
one more; the schedules have a window of each form: within a day, over midnight, on
some days and on all, empty, whole days, and two that overlap. The counters that bound
a model rather than the code are the constants `MaxFlips`, `MaxControls`,
`MaxReturns`, `MaxSessions`, `MaxFaults`, `MaxCrashes`, `Rows`, `PickUps`, `Horizon`
and the sets `Session`, `Requests` and `Tokens`.

Deadlock is checked in `gateway_batch`.  In the other runs the system may be finished
(all connections used, all programs returned, the job over, the organization without
anyone who could act).

### What was found

* `gateway_drops`: a connection that is lost while its registration finishes
  (gateway.py:605-610 is outside the `try`) leaves a ghost `Node`; the next job given to
  it stays running for ever.  README.md:283-285 says a job whose node drops is
  re-queued.  A send that fails in a drain likewise loses the jobs of the local deque,
  and tears down the healthy caller's session; `StrandedByFailedSendOnly` says that
  these are the only ways a job is lost.
* `agent_docker`: README.md:42-44 promises instant reclaim.  With the container sandbox
  the one `cancel` of an eviction kills nothing if the daemon has not made the container
  yet (sandbox.py:661-665).
* `agent_uncancelled`: the receive loop does not read while a job runs.
  README.md:271.
* `keystore_roles`: with open enrollment the agent's first contact approves its key, and
  the client on the same machine, which uses the same key file by default, is then
  served as a requester.  gateway.py:1088-1089 and 1138 say that requesters still need
  manual approval.

Three more disagreements with a document or with what a client waits for show when the
constants of a run, or the premise of a property, are changed:

* `_drain_queue` keeps the jobs it passes over in a local deque while it is suspended
  in a send.  A node that becomes free then drains an empty queue; when the deque is put
  back nobody looks again.  README.md:254-256 says the job "runs when a device frees
  up".  With the portal linked the poller drains every two seconds, which is why
  `gateway_batch` passes; with `PortalLinked = FALSE`, `MaxConcurrent = 0` and the jobs
  j1 and j3, `NoEndlessWait` fails.
* `InstantReclaim` fails with a subprocess sandbox too: with `Lossy = TRUE`, as a report
  that cannot be sent ends the monitor before it evicts (agent.py:210), and with
  `Local` actions, as the monitor evicts only when it sees `available` change itself and
  a pause and a resume round the owner's return hide it (agent.py:205).
  `UndisturbedReclaim` is what is left: subprocess jobs, no controls, a connection that
  lasts.
* `_notify` clears `requester_ws` after an await, whoever's it is by then
  (gateway.py:256): a client that a GET has attached meanwhile (gateway.py:888) waits
  for ever.  `AttachedIsServed` fails without its premise on sends under way.

Also met, and left out of what the properties promise:

* JOB_EVICTED may hide a willing node, as the agent reports only changes; `tried` is
  never reset;
* two admins who leave at once leave none: count and write are two transactions
  (app.py:470, 444);
* the key file is read and written whole: an approval or a revocation made during a
  challenge is undone by the session's write; revoking a key does not end its
  session; a file that cannot be read is taken for an empty one and replaced
  (identity.py:102);
* two agents that claim one token by the database file may both be told yes
  (db.py:546);
* reports of one node may cross; as only changes are sent, the portal may then show
  the wrong state until the next change.  A gateway restart leaves the states of
  nodes that never come back;
* a schedule window that goes round midnight and names days lends the hours after
  midnight of the days named (scheduler.py:69-80).

## 4. Fairness

* `Gateway`: strong fairness of each task's steps (`Run`) and of the poller.  The
  asyncio loop runs every ready task; strong rather than weak because another task
  may hold the loop in between, again and again.  Nodes and submitters owe nothing:
  no job has to end.
* `Agent`: the receive loop, the monitor, reconnection and the gateway's reading go
  on.  The job itself need not end (`BoxEnds` is not fair), a killed one does
  (`KillEnds`); that a cancellation kills is not assumed but is `KillBox`.
* `Delivery`: programs read, sessions handle, a suspended send ends.  A queued job
  starts, by whichever drain, and a running one ends at last (strong: a job may come
  back, and a drain may be busy with another send); this is the
  premise of "wait for the result".
* `Sandbox`: worker, canceller and watchdog go on (strong where the worker takes the
  lock, as `cancel` may be called again and again).  Neither the job's own end nor
  its limit is relied on:  `CancelReturns` rests on the kill.
* `WebJobs`: the poller never stops (`_web_poll_loop` catches everything), jobs end.
  Nothing obliges a late call to arrive.
* `Servers`: the poller never stops, not all of its calls fail (strong: a call that
  fails does not disable the next), and the poller's own call is awaited, so it is
  applied unless it is lost.  Nothing obliges another report to arrive.
* `Keystore`: peers try again for ever and not every handshake is cut at the same
  point (strong: a peer that was dropped starts anew).  The administrator owes
  nothing.
* `Membership`, `RateLimit`, `Schedule`: safety only.

## 5. Proofs

All theorems hold for every value of the constants that satisfies the named
assumptions of the module (`ASSUME` in the module, evaluated by its run), and for
any number of sessions, jobs, agents, keys, requests and so on.  Where more is
assumed the table says so.

| Module | Theorem | States |
|---|---|---|
| `GatewayProofs` | `TypeCorrect` | `[]TypeOK` |
| | `RunningSetsAreExact` | `[]ActiveIsRunning` |
| | `CapIsRespected` | `[]CapRespected` |
| | `ServedDeviceIsListed` | `[]ServedIsListed`, if `Overlap = FALSE` |
| | `JobHasOneRunner` | `[]OneRunner`, likewise |
| | `EndedJobStays` | `TerminalIsStable`, likewise |
| | `StoreIsExact` | `[]StoreExact`, likewise |
| | `GatewayImplementsLifecycle` | `ImplementsLifecycle`, likewise: `Gateway` implements `JobLifecycle` |
| | `GatewayImplementsLink` | `ImplementsLink`, likewise: `Gateway` implements `DeviceLink` |
| | `JobWaitsOnce` | `[]WaitsOnce`, likewise |
| | `StrandedByFailedSend` | `StrandedByFailedSendOnly`, likewise, losses included |
| `AgentProofs` | `TypeCorrect` | `[]TypeOK` |
| | `EvictedStops` | `[]EvictedIsStopped`, if `Docker = FALSE` |
| | `JobAnsweredOnce` | `[]AnsweredOnce` |
| | `DeviceNotOversold` | `[]NeverOversold` |
| | `AgentImplementsLink` | `ImplementsLink`: `Agent` implements `DeviceLink` |
| `DeliveryProofs` | `TypeCorrect` | `[]TypeOK` |
| | `TargetsOpen` | `[]TargetsAreOpen` |
| | `OneOutcome` | `[]AnswersAgree` |
| | `EndToldOnce` | `[]ToldOnce` |
| `WebJobsProofs` | `WebTypeCorrect` | `[]TypeOK` |
| | `RowShowsTruth` | `[]RowIsTrue` |
| | `PickedUpOncePerFault` | `[]PickedUpOnce` |
| | `EndIsKept` | `EndStays` |
| `MembershipProofs` | `TypeCorrect` | `[]MembersTypeOK` |
| | `LastAdmin` | `LastAdminLostInARaceOnly` |
| | `InvitesAdmit` | `InvitesOnlyAdmit` |
| `KeystoreProofs` | `TypeCorrect` | `[]TypeOK` |
| | `OnlyApproved` | `[]ServedIsApproved` |
| | `RevocationHolds` | `SettledRevocationHolds` |
| `ServersProofs` | `TypeCorrect` | `[]TypeOK` |
| | `TokenUsedOnce` | `ClaimedOnce` |
| | `PortalShowsReports` | `[]PortalAgrees` |
| `LimitsProofs` | `RateTypeCorrect` | `[]RateTypeOK` |
| | `RateExact` | `[]WindowExact` |
| | `HoursAreExact` | `[]HoursExact` |
| | `SandboxTypeCorrect` | `[]TypeOK` of `Sandbox` |
| | `CancelStops` | `[]CancelledIsStopped` |
| | `KillsAreReported` | `[]KillIsReported` |
| | `NothingIsLeft` | `[]NothingLeft` |
| | `SandboxImplementsJobRun` | `ImplementsJobRun`: `Sandbox` implements `JobRun` |

**GatewayProofs.** Type correctness needs lemmas about the queue:  `deque.remove`
(`RemoveFirst`, `RemoveFirstType`) leaves a sequence, which rests on the first
position of a non-empty set of positions (`FirstPosition`).

`JobsStep` says what any step is to the jobs, sessions overlapping or not: it
accepts, starts, gives back or ends one, or leaves them all.  With it
`ActiveIsRunning` is inductive beside the types alone: whatever sets a job's status
sets its place in the running sets in the same stretch, even for a job that two
sessions answer for.  The cap is proved from that (`ActiveWithinCap`), with
finite-set cardinality:  `Assign` is taken only below it.

The theorems for sessions that do not overlap rest on one more inductive invariant,
`IInv == TypeOK /\ SessionsInv /\ WorkInv`.  That a job has one runner says nothing
about who may give it back.  `SessionsInv` has three parts:  `PhaseMatchesPc` (a
handler that drains, reports or closes is in the phase it must be in),
`RegistryMatches` (the registry holds a session under its own device and not once it
is closing) and `OneSessionPerDevice` (the one place that uses `Overlap = FALSE`).
`WorkInv` relates the records of a running job:  `BusyMatches` (`Node.busy_job`, the
job's status and node, and what the agent has) and `ActiveIsRunning`.  Without the
first, a teardown could free another session's node, and a result could end a job
that runs elsewhere.

Under `IInv`, `OneJobPerStep` sharpens `JobsStep`: what is given back or answered
for runs on the device that says so.  The store's exactness and the refinement of
`JobLifecycle` follow from it, the first with lemmas about queues without repetition
(`AppendOnce`, `TailOnce`, `RemoveOnce`), the second with `RunnerIsGiven` (a job is
on a device it has been given to) as the one fact that a step of `JobLifecycle` asks
for and `IInv` lacks.  The refinement of `DeviceLink` needs it too, for a job that
comes back must not count as given anew, and `OpenHasHandler` (a connection is open
only while its handler runs), which tells the assignment that reaches a device from
the one in vain; there is one lemma for each event of a device (`LinkRegisters`,
`LinkTells`, `LinkAssigns`, `LinkLoses`).  `WaitsOnce` counts positions in the queue
and in every task's deque.  Its invariant, `WaitInv`, says instead that no line
repeats a job, that no two lines share one, and that what stands in a line is
neither new nor running (a job that was cancelled may still stand in the deque of a
drain).  `StrandedByFailedSend` goes through the
steps with what a job hangs on, a line (`InLine`) or a session that answers for it or
gives it back (`Owned`): `NextInLine` and `NextOwned` say that a step which cuts a job
off is one of the failed sends the property names, or gives it to a node that such a
send has left behind.

**AgentProofs.** `TypeInv` adds that the receive loop runs exactly while there is a
connection and that only a job is awaited.  `AnsweredOnce` counts the places a job
may be in: on its way, on the agent, in an answer on its way back.  A message counts
or not by its kind (`CountSent`, `CountReceived` for the ends of a channel); each
step moves a job from one place to the next, and `Placed` says that there are as
many as the gateway believes, one or none.  `Forgotten`, the strengthening, is that
without a connection the gateway has no `Node` and nothing is on its way.  The same
counts give the refinement of `DeviceLink`: the jobs in the channels and in the
sandbox are exactly the gateway's `busy_job` (`CountsMeanBusy`), so an answer that
is read is one for that job (`AnswerIsOfBusy`).  `NeverOversold` speaks of the last
offer in a channel that no withdrawal follows; it is inductive with the types, once
it is known that a message sent last decides what will be believed, if it speaks of
the device at all (`ToldSent`), and that reading changes nothing in it (`ToldRead`).

**DeliveryProofs.** `TypeInv` contains that a program which has not started has sent
and received nothing (`Unopened`).  `TargetsAreOpen` is inductive with it; what it
takes is that a session that is over stays so (`OverStays`) and that its end clears
every target that points to it (`OverClears`).  `AnswersAgree` needs that a client
asks for what it wants, each job once (`Asking`), that nobody has heard of the end
of a job whose submission is still to be handled (`Unheard`), and that everything
reported or in a channel says the outcome that the gateway keeps (`Agree`).  That a
job has one submitter is `SubmittersAssumption`.  `ToldOnce` rests on `OnceInv`: as
long as a client has a request of the job to make it has been told nothing and is
not its target, so the reply to that request is the first; and a result is pushed
while nobody has heard of an end.  It speaks of single messages (`Single`,
`Silent`), and `OnceMeans` turns that into the count.

**WebJobsProofs.** `PollInv` says what the poller knows: a gateway job is tracked
until its end has been sent (`JobsTracked`), the call it waits for tells what was so
when it was made (`PollerAt`), a call is late only where a fault has been counted
(`LateCalls`).  With it `RowIsTrue` is inductive, because an end that a call tells of
stays true (`EndStaysTrue`).  `PickedUpOnce` bounds the jobs of a row by what hit it;
the strengthening, `PickUpsLeft`, counts beside the jobs a row has had the one it
may still get (`Due`): a step that makes a row due again is one that also blames it.
`EndStays` needs `Settled`: of a row that shows its end, and that nothing hit, no
job is tracked any more, so that no call about it is left to be made.

**MembershipProofs.** Types need `Shape`, which says what a request is about in each
operation: a role that was looked at is a known one, a request about a member names
a user.  `LastAdmin` rests on the invariant `OneToSpare`: a request that is about to
take an admin's role, and that no write has overtaken, has another admin beside its
target.  `Count` establishes it, any write that changes a role ends it for every
request in progress, and nothing else touches it; with finite-set cardinality, an
admin remains after the write.  Finiteness of the users is where the assumption
`UsersAssumption` is used.

**KeystoreProofs.** `HonestCopies`: every copy of the file, however old, approves
only keys that are vouched for or were enrolled, but for the key a tool is about to
vouch for; so whoever is let in on a copy is entitled, in whatever role it is then
served (`RequestersAreVouched` is what does not follow, and does not hold).  A settled
revocation holds because each step either reads the file as it is or writes a copy
that has the revocation.

**ServersProofs.** `ReadersMet`: two claims under way that have both read a token as
free have met, and their row is contested; a claim that writes to a row another has
taken has therefore been contested.  `HonestReports`: for an agent that is not in
`hit`, a report under way says what the gateway remembers, there is one at most, and
where there is none the portal shows it; and by HTTP a report reaches every row of
its agent (`RowsInReach`).

**LimitsProofs.** The rate limiter:  `DequeIsNewest` says that the moments kept are
sorted, the popped ones are as old as the window, and at most `Max` are kept; a
refusal is witnessed by the oldest call in the full deque.  The schedule: the code
compares minutes of a day and names of days, `HoursExact` measures from the start of
a window modulo the week.  In between are the facts that a whole number of days
shorter than one is none (`WholeDays`) and that a remainder is the one number in its
range (`RemainderIs`, `RemainderOf`); `SinceSome` and `SinceThis` write the time
since a window's start as days and minutes, and `DayWindow` and `NightWindow` are
the two forms a window has.  The sandbox:  `ProcessesAt` says which processes there
are at each place of the worker and which of them a kill finds, `KillsHaveReasons`
that whoever kills has set a flag before and that the worker reads it after; with
the properties themselves these are inductive.  They also tell each step's event in
`JobRun`: a start comes where no cancellation has been seen (`LaunchIsLaunch`), an
outcome where the flags that were read explain it (`OutcomeIsReported`), and what
only moves the threads is no event (`UnseenByJobRun`).  Where an outcome is the
job's own in spite of a cancellation, `started` shows that it never ran.

Every safety property that a passing run checks is proved.  Only model-checked are
the liveness properties, which like ENABLED are out of the prover's reach:
`NoEndlessWait`, `EveryJobComesBack`, `UndisturbedReclaim`, `AttachedIsServed`,
`EveryRowIsPickedUp`, `ResultArrives`, `CancelReturns`, `ApprovedGetsIn`,
`StateArrives` and `RoutingFollows`.  The assumptions under which theorems of
`Gateway` hold are assumptions on its constants, and the runs that check the same
properties make them too.

## 6. Not modelled

* Owner policy, reputation, scores and `min_reliability`, and the idleness of a
  machine: decisions on data, nondeterministic in the models.  A device under
  `min_reliability` is left out of matching and improves by pinned jobs only.
* Organization membership of nodes that changes while they are connected, in
  `Gateway` (`org_ids` is part of `Fits`, which is fixed); `Servers` has it.
* API tokens, gateway tokens and logins; the descriptive columns a report also
  writes.
* Telemetry, dashboards, live log lines beyond their place in a client's loop,
  artifacts, checkpoints' content.
* Exceptions of a sandbox that are not OSError (an interpreter the sandbox does not
  support, say): they leave `_run_job` and end the agent program.  `Sandbox` has them as
  the outcome "raised"; `Agent` takes up the OSErrors.
* Cryptography: a peer has the key it claims or is dropped at the challenge.
* Cross-version behaviour, TLS, hardware detection, installers.

## 7. Plan

Done: every component of the inventory that keeps state of a protocol has its
module; all safety properties that the runs check are proved; `Gateway` implements
`JobLifecycle`, `Gateway` and `Agent` implement `DeviceLink`, `Sandbox` implements
`JobRun`.

Left, in this order:

1. An abstract specification of a web row, its state and the jobs it has had, that
   `WebJobs` implements.
2. `Gateway` with the organizations of `Servers`: a job whose only eligible node
   stops serving its organization while the job is in line.
3. What of `Gateway` still holds with overlapping sessions beside the running sets
   and the cap.
