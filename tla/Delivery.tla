------------------------------ MODULE Delivery ------------------------------
(***************************************************************************)
(* How the outcome of a job reaches the programs that wait for it: the     *)
(* requester sessions of src/gateway.py, Job.requester_ws, _notify, and    *)
(* the loops of src/client.py (submit, submit_batch, get --wait, cancel).  *)
(*                                                                         *)
(* A job has one push target.  Its submitter is the first; a GET replaces  *)
(* it; a send that fails clears it; the end of the target's session clears *)
(* it.  Each send is an await at which the other coroutines run, so the    *)
(* target a task has read may have been replaced when its send fails.      *)
(*                                                                         *)
(* Which node runs a job and how it is queued is module Gateway's subject: *)
(* here a job comes back and ends by steps of "its node session", a task   *)
(* named by the job, and is started by a drain, whatever coroutine that    *)
(* runs in, which then tells the push target of it.                        *)
(***************************************************************************)
EXTENDS Naturals, Sequences, FiniteSets, SequencesExt

CONSTANTS
  Client,       \* runs of client.py, each with a connection of its own
  Program,      \* Program[c]: "submit", "wait" or "cancel"
  Wants,        \* Wants[c]: the jobs the run is about
  Job,
  Drain,        \* coroutines inside _drain_queue: node sessions and the poller
  None,
  Losing,       \* the clients whose connection may be lost
  MaxReturns,   \* bound: how often a job is given back (job.tried bounds it)
  MaxSessions   \* bound: how many requester sessions there are at once

ASSUME ClientsAssumption == None \notin Client \cup Job /\ Client \cap Job = {}
ASSUME DrainAssumption == Drain \cap (Client \cup Job \cup {None}) = {}
ASSUME ProgramAssumption == Program \in [Client -> {"submit", "wait", "cancel"}]
ASSUME WantsAssumption ==
  /\ Wants \in [Client -> SUBSET Job]
  /\ \A c \in Client : IsFiniteSet(Wants[c]) /\ Wants[c] # {}
\* Job ids are fresh: no two runs submit the same job.
ASSUME SubmittersAssumption ==
  \A b, c \in Client :
    Program[b] = "submit" /\ Program[c] = "submit" /\ Wants[b] \cap Wants[c] # {} => b = c
ASSUME BoundsAssumption == MaxReturns \in Nat /\ MaxSessions \in Nat /\ Losing \subseteq Client

\* A coroutine that sends: a requester session, the node session of a job, a drain.
Task == Client \cup Job \cup Drain

Ended == {"done", "failed", "cancelled"}

ASSUME NoneAssumption == None \notin Ended

VARIABLES
  status,     \* job.status; "none" before it is in Gateway.jobs
  push,       \* job.requester_ws
  up,         \* clients whose connection is there
  in, out,    \* messages from and to each client
  pc,         \* "recv": awaits a message; else the await a task is in
  to,         \* the connection a task in "notify" is sending to
  about,      \* the job a task is handling
  client,     \* "off", "on", "returned" or "lost" (exit code 3)
  answer,     \* answer[c][j]: what the run has reported as the job's outcome
  returns

jobVars == <<status, push, returns>>
taskVars == <<pc, to, about>>
clientVars == <<client, answer>>
vars == <<jobVars, up, in, out, taskVars, clientVars>>

----------------------------------------------------------------------------
(* Messages *)

Request(type, j) == [type |-> type, job |-> j]
Reply(type, j, s) == [type |-> type, job |-> j, status |-> s]

\* What each run sends once it is connected.
Requests(c) ==
  LET type == CASE Program[c] = "submit" -> "SUBMIT_JOB"
                [] Program[c] = "wait" -> "GET_JOB"
                [] Program[c] = "cancel" -> "CANCEL_JOB"
      jobs == SetToSeq(Wants[c])
  IN [i \in DOMAIN jobs |-> Request(type, jobs[i])]

Init ==
  /\ status = [j \in Job |-> "none"]
  /\ push = [j \in Job |-> None]
  /\ up = {}
  /\ in = [c \in Client |-> <<>>]
  /\ out = [c \in Client |-> <<>>]
  /\ pc = [t \in Task |-> IF t \in Client THEN "off" ELSE "recv"]
  /\ to = [t \in Task |-> None]
  /\ about = [t \in Task |-> None]
  /\ client = [c \in Client |-> "off"]
  /\ answer = [c \in Client |-> [j \in Job |-> None]]
  /\ returns = [j \in Job |-> 0]

----------------------------------------------------------------------------
(* The client programs *)

\* Connect, register and send the requests.
Open(c) ==
  /\ client[c] = "off"
  /\ Cardinality({b \in Client : pc[b] \notin {"off", "over"}}) < MaxSessions
  /\ client' = [client EXCEPT ![c] = "on"]
  /\ up' = up \cup {c}
  /\ in' = [in EXCEPT ![c] = Requests(c)]
  /\ pc' = [pc EXCEPT ![c] = "recv"]
  /\ UNCHANGED <<jobVars, out, to, about, answer>>

\* The program returns and its connection closes.
Return(c) ==
  /\ client' = [client EXCEPT ![c] = "returned"]
  /\ up' = up \ {c}
  /\ out' = [out EXCEPT ![c] = <<>>]

GoOn(c) ==
  /\ out' = [out EXCEPT ![c] = Tail(@)]
  /\ UNCHANGED <<client, up>>

\* submit and submit_batch: results and failures are collected until every job
\* has one.  A detached run, which leaves at the first acceptance, differs from
\* one whose connection is lost then in nothing the gateway sees.
SubmitReads(c) ==
  LET m == Head(out[c])
  IN /\ Program[c] = "submit"
     /\ \/ /\ m.type \in {"JOB_RESULT", "JOB_FAILED"}
           /\ answer' = [answer EXCEPT ![c][m.job] = m.status]
           /\ IF \A j \in Wants[c] : answer'[c][j] # None THEN Return(c) ELSE GoOn(c)
        \/ /\ m.type \notin {"JOB_RESULT", "JOB_FAILED"}
           /\ GoOn(c)
           /\ UNCHANGED answer

\* get with --wait: a status with a result is the answer, one of a job that has
\* not ended is waited on, any other ends the program.
WaitReads(c) ==
  LET m == Head(out[c])
  IN /\ Program[c] = "wait"
     /\ \/ /\ m.type = "JOB_RESULT" \/ (m.type = "JOB_STATUS" /\ m.status \in Ended)
           /\ answer' = [answer EXCEPT ![c][m.job] = m.status]
           /\ Return(c)
        \/ /\ m.type = "JOB_STATUS" /\ m.status = "unknown"
           /\ Return(c)
           /\ UNCHANGED answer
        \/ /\ m.type # "JOB_RESULT"
           /\ m.type = "JOB_STATUS" => m.status \in {"queued", "running"}
           /\ GoOn(c)
           /\ UNCHANGED answer

\* cancel: the first message is printed, whatever it is.
CancelReads(c) ==
  /\ Program[c] = "cancel"
  /\ Return(c)
  /\ UNCHANGED answer

ClientReads(c) ==
  /\ client[c] = "on"
  /\ out[c] # <<>>
  /\ SubmitReads(c) \/ WaitReads(c) \/ CancelReads(c)
  /\ UNCHANGED <<jobVars, in, taskVars>>

\* The connection ends under the program: it returns 3.
ClientLost(c) ==
  /\ client[c] = "on"
  /\ out[c] = <<>>
  /\ c \notin up
  /\ client' = [client EXCEPT ![c] = "lost"]
  /\ UNCHANGED <<jobVars, up, in, out, taskVars, answer>>

\* What was in flight either way may be lost with the connection.
LoseConnection(c) ==
  /\ c \in Losing \cap up
  /\ up' = up \ {c}
  /\ \E n \in 0 .. Len(out[c]) : out' = [out EXCEPT ![c] = SubSeq(@, 1, n)]
  /\ \E n \in 0 .. Len(in[c]) : in' = [in EXCEPT ![c] = SubSeq(@, 1, n)]
  /\ UNCHANGED <<jobVars, taskVars, clientVars>>

----------------------------------------------------------------------------
(* Sending *)

Deliver(c, m) == out' = IF c \in up THEN [out EXCEPT ![c] = Append(@, m)] ELSE out

\* The task awaits its next message or, a drain, goes on with the next job.
Rest(t) ==
  /\ pc' = [pc EXCEPT ![t] = "recv"]
  /\ to' = [to EXCEPT ![t] = None]
  /\ about' = [about EXCEPT ![t] = None]

\* _notify up to its await: the message goes to the push target of the moment.
Notify(t, j, m, target) ==
  IF target = None
    THEN Rest(t) /\ UNCHANGED out
    ELSE /\ pc' = [pc EXCEPT ![t] = "notify"]
         /\ to' = [to EXCEPT ![t] = target]
         /\ about' = [about EXCEPT ![t] = j]
         /\ Deliver(target, m)

NotifyReturns(t) ==
  /\ pc[t] = "notify"
  /\ pc[to[t]] # "over"
  /\ Rest(t)
  /\ UNCHANGED <<jobVars, up, in, out, clientVars>>

\* The send fails: the job's push target is dropped, whichever it is by now.
NotifyRaises(t) ==
  /\ pc[t] = "notify"
  /\ to[t] \notin up
  /\ push' = [push EXCEPT ![about[t]] = None]
  /\ Rest(t)
  /\ UNCHANGED <<status, returns, up, in, out, clientVars>>

----------------------------------------------------------------------------
(* _requester_session *)

Handles(c, type) == pc[c] = "recv" /\ in[c] # <<>> /\ Head(in[c]).type = type

\* A reply to the client itself, outside _notify.
ReplyTo(c, m) ==
  /\ pc' = [pc EXCEPT ![c] = "reply"]
  /\ Deliver(c, m)
  /\ in' = [in EXCEPT ![c] = Tail(@)]
  /\ UNCHANGED <<to, about>>

ReplyReturns(c) ==
  /\ pc[c] = "reply"
  /\ Rest(c)
  /\ UNCHANGED <<jobVars, up, in, out, clientVars>>

\* A mutant of SessionOver: the jobs keep their push target.
MutSessionOver(c) ==
  /\ pc' = [pc EXCEPT ![c] = "over"]
  /\ to' = [to EXCEPT ![c] = None]
  /\ about' = [about EXCEPT ![c] = None]
  /\ push' = push
  /\ up' = up \ {c}
  /\ in' = [in EXCEPT ![c] = <<>>]

\* Another: whatever the client submitted or asked for loses its target.
MutSessionOverAll(c) ==
  /\ pc' = [pc EXCEPT ![c] = "over"]
  /\ to' = [to EXCEPT ![c] = None]
  /\ about' = [about EXCEPT ![c] = None]
  /\ push' = [j \in Job |-> IF j \in Wants[c] THEN None ELSE push[j]]
  /\ up' = up \ {c}
  /\ in' = [in EXCEPT ![c] = <<>>]

\* The finally of the session: its jobs lose their push target, and the
\* connection is closed if it still was there.
SessionOver(c) ==
  /\ pc' = [pc EXCEPT ![c] = "over"]
  /\ to' = [to EXCEPT ![c] = None]
  /\ about' = [about EXCEPT ![c] = None]
  /\ push' = [j \in Job |-> IF push[j] = c THEN None ELSE push[j]]
  /\ up' = up \ {c}
  /\ in' = [in EXCEPT ![c] = <<>>]

\* recv(), or a reply, raises ConnectionClosed.
SessionEnds(c) ==
  /\ \/ pc[c] = "recv" /\ in[c] = <<>>
     \/ pc[c] = "reply"
  /\ c \notin up
  /\ SessionOver(c)
  /\ UNCHANGED <<status, returns, out, clientVars>>

\* _handle_submit of a job the rate limiter turns down: it is never registered.
Refuse(c) ==
  /\ Handles(c, "SUBMIT_JOB")
  /\ ReplyTo(c, Reply("JOB_FAILED", Head(in[c]).job, "failed"))
  /\ UNCHANGED <<jobVars, up, clientVars>>

\* _handle_submit and submit: the job fails at once, waits, or is assigned, which
\* awaits the send of RUN_JOB before the submitter hears of it.
Submit(c) ==
  /\ Handles(c, "SUBMIT_JOB")
  /\ in' = [in EXCEPT ![c] = Tail(@)]
  /\ LET j == Head(in[c]).job
     IN /\ push' = [push EXCEPT ![j] = c]
        /\ \/ /\ status' = [status EXCEPT ![j] = "failed"]
              /\ Notify(c, j, Reply("JOB_FAILED", j, "failed"), c)
           \/ /\ status' = [status EXCEPT ![j] = "queued"]
              /\ Notify(c, j, Reply("JOB_ACCEPTED", j, "queued"), c)
           \/ /\ status' = [status EXCEPT ![j] = "running"]
              /\ pc' = [pc EXCEPT ![c] = "assign"]
              /\ about' = [about EXCEPT ![c] = j]
              /\ UNCHANGED <<out, to>>
  /\ UNCHANGED <<returns, up, clientVars>>

\* RUN_JOB is sent, by the submitter's session or a drain; the push target of that
\* moment is told, whatever has become of the job meanwhile.
AssignReturns(t) ==
  /\ pc[t] = "assign"
  /\ LET j == about[t]
     IN Notify(t, j, Reply("JOB_ACCEPTED", j, "running"), push[j])
  /\ UNCHANGED <<jobVars, up, in, clientVars>>

\* The node's connection is lost in the send: the exception ends the session of
\* the submitter, whose own connection is sound.
AssignRaises(c) ==
  /\ pc[c] = "assign"
  /\ SessionOver(c)
  /\ UNCHANGED <<status, returns, out, clientVars>>

\* _handle_get: the status, with the result of a job that has ended.  The client
\* becomes the push target of one that has not.
Get(c) ==
  /\ Handles(c, "GET_JOB")
  /\ LET j == Head(in[c]).job
     IN /\ push' = IF status[j] \in {"queued", "running"} THEN [push EXCEPT ![j] = c] ELSE push
        /\ ReplyTo(c, Reply("JOB_STATUS", j, IF status[j] = "none" THEN "unknown" ELSE status[j]))
  /\ UNCHANGED <<status, returns, up, clientVars>>

\* _handle_cancel: a queued job ends here, and only the canceller is told.  For a
\* running one the send of CANCEL_JOB may raise, which ends the session.
CancelJob(c) ==
  /\ Handles(c, "CANCEL_JOB")
  /\ LET j == Head(in[c]).job
         now == IF status[j] = "queued" THEN "cancelled" ELSE status[j]
     IN /\ status' = [status EXCEPT ![j] = now]
        /\ \/ /\ ReplyTo(c, Reply("JOB_STATUS", j,
                              CASE now = "none" -> "unknown" [] now = "running" -> "cancelling"
                                [] OTHER -> now))
              /\ UNCHANGED <<push, up>>
           \/ /\ now = "running"
              /\ SessionOver(c)
              /\ UNCHANGED out
  /\ UNCHANGED <<returns, clientVars>>

----------------------------------------------------------------------------
(* Drains, and the node session of a job *)

\* _drain_queue gives a waiting job to a node, up to the send of RUN_JOB.
NodeStarts(t, j) ==
  /\ pc[t] = "recv"
  /\ status[j] = "queued"
  /\ status' = [status EXCEPT ![j] = "running"]
  /\ pc' = [pc EXCEPT ![t] = "assign"]
  /\ about' = [about EXCEPT ![t] = j]
  /\ UNCHANGED <<push, returns, up, in, out, to, clientVars>>

\* The send of RUN_JOB raises: the drain is left and nobody is told.
DrainRaises(t) ==
  /\ pc[t] = "assign"
  /\ Rest(t)
  /\ UNCHANGED <<jobVars, up, in, out, clientVars>>

\* A mutant of NodeReturns: a job that has ended is queued again as well.
MutNodeReturns(j) ==
  /\ pc[j] = "recv"
  /\ status[j] \in {"running", "done"}
  /\ returns[j] < MaxReturns
  /\ returns' = [returns EXCEPT ![j] = @ + 1]
  /\ status' = [status EXCEPT ![j] = "queued"]
  /\ UNCHANGED <<push, up, in, out, taskVars, clientVars>>

\* JOB_EVICTED, JOB_REFUSED or a lost node: the job waits again.
NodeReturns(j) ==
  /\ pc[j] = "recv"
  /\ status[j] = "running"
  /\ returns[j] < MaxReturns
  /\ returns' = [returns EXCEPT ![j] = @ + 1]
  /\ status' = [status EXCEPT ![j] = "queued"]
  /\ UNCHANGED <<push, up, in, out, taskVars, clientVars>>

\* JOB_LOG: a line of output is relayed.  Bound: the client has read
\* everything before it.
NodeLogs(j) ==
  /\ pc[j] = "recv"
  /\ status[j] = "running"
  /\ push[j] # None
  /\ out[push[j]] = <<>>
  /\ Notify(j, j, Reply("JOB_LOG", j, "running"), push[j])
  /\ UNCHANGED <<jobVars, up, in, clientVars>>

\* A mutant of NodeResults: the result is pushed before it is stored.
MutNodeResults(j) ==
  /\ pc[j] = "recv"
  /\ status[j] = "running"
  /\ Notify(j, j, Reply("JOB_RESULT", j, "done"), push[j])
  /\ UNCHANGED <<jobVars, up, in, clientVars>>

\* JOB_RESULT: stored first, then pushed.
NodeResults(j) ==
  /\ pc[j] = "recv"
  /\ status[j] = "running"
  /\ status' = [status EXCEPT ![j] = "done"]
  /\ Notify(j, j, Reply("JOB_RESULT", j, "done"), push[j])
  /\ UNCHANGED <<push, returns, up, in, clientVars>>

----------------------------------------------------------------------------
(* Specification *)

\* The steps of a requester session that need no decision of a user.
Session(c) ==
  \/ Refuse(c) \/ Submit(c) \/ AssignReturns(c) \/ AssignRaises(c)
  \/ Get(c) \/ CancelJob(c) \/ ReplyReturns(c) \/ SessionEnds(c)

Notifying(t) == NotifyReturns(t) \/ NotifyRaises(t)

Draining(t) == AssignReturns(t) \/ DrainRaises(t)

Next ==
  \/ \E c \in Client : Open(c) \/ ClientReads(c) \/ ClientLost(c) \/ LoseConnection(c)
  \/ \E c \in Client : Session(c)
  \/ \E t \in Task : Notifying(t)
  \/ \E t \in Drain : Draining(t) \/ \E j \in Job : NodeStarts(t, j)
  \/ \E j \in Job : NodeReturns(j) \/ NodeLogs(j) \/ NodeResults(j)

Spec == Init /\ [][Next]_vars

\* The coroutines run on; clients read what arrives; a queued job is started at
\* last and a running one, within its wall-clock limit, ends.
Fairness ==
  /\ \A c \in Client : WF_vars(ClientReads(c)) /\ WF_vars(ClientLost(c)) /\ WF_vars(Session(c))
  /\ \A t \in Task : WF_vars(Notifying(t))
  /\ \A t \in Drain : WF_vars(Draining(t))
  /\ \A j \in Job : SF_vars(\E t \in Drain : NodeStarts(t, j)) /\ SF_vars(NodeResults(j))

FairSpec == Spec /\ Fairness

----------------------------------------------------------------------------
(* Properties *)

\* Every variable has its type; a task that notifies knows whom and of what.
TypeOK ==
  /\ status \in [Job -> {"none", "queued", "running"} \cup Ended]
  /\ push \in [Job -> Client \cup {None}]
  /\ up \subseteq Client
  /\ in \in [Client -> Seq([type : {"SUBMIT_JOB", "GET_JOB", "CANCEL_JOB"}, job : Job])]
  /\ out \in [Client -> Seq([type : {"JOB_ACCEPTED", "JOB_FAILED", "JOB_STATUS", "JOB_LOG",
                                     "JOB_RESULT"},
                             job : Job,
                             status : {"unknown", "queued", "running", "cancelling"} \cup Ended])]
  /\ pc \in [Task -> {"off", "recv", "assign", "notify", "reply", "over"}]
  /\ to \in [Task -> Client \cup {None}]
  /\ about \in [Task -> Job \cup {None}]
  /\ client \in [Client -> {"off", "on", "returned", "lost"}]
  /\ answer \in [Client -> [Job -> Ended \cup {None}]]
  /\ returns \in [Job -> 0 .. MaxReturns]
  /\ \A t \in Task : pc[t] = "notify" <=> to[t] # None

\* What a message says of a job's end, if it says anything.
Outcome(m) ==
  IF m.type \in {"JOB_RESULT", "JOB_FAILED"} \/ (m.type = "JOB_STATUS" /\ m.status \in Ended)
    THEN {m.status} ELSE {}

\* The outcome a client has reported, or is about to read, is the one the gateway
\* keeps, however sends, cancellations and returns interleave: nobody is told of
\* an end that is not the end (gateway.py:88, "survives disconnect").
AnswersAgree ==
  \A c \in Client : \A j \in Job :
    /\ answer[c][j] # None => status[j] \in {answer[c][j], "none"}
    /\ \A i \in DOMAIN out[c] :
         out[c][i].job = j /\ Outcome(out[c][i]) # {}
           => status[j] \in Outcome(out[c][i]) \cup {"none"}

\* A connection is told of a job's end at most once, whether it submitted the job,
\* asked for it or was attached while a result was being sent.
ToldOnce ==
  \A c \in Client : \A j \in Job :
    Cardinality({i \in DOMAIN out[c] : out[c][i].job = j /\ Outcome(out[c][i]) # {}})
      + (IF answer[c][j] # None THEN 1 ELSE 0) <= 1

\* No job has a push target whose session is over: the finally of a session
\* leaves no job behind, so that no send is tried on a dead connection for ever
\* (gateway.py:732-735).
TargetsAreOpen == \A j \in Job : push[j] # None => pc[push[j]] # "over"

\* A client that is a job's push target while it waits, and what may come between
\* it and the answer: its own end, another client that asks, a cancellation of the
\* queued job, of which the gateway tells the canceller only.
Attached(c, j) == push[j] = c /\ client[c] = "on"
Excused(c, j) ==
  \/ client[c] # "on" \/ c \notin up
  \/ push[j] \notin {c, None}
  \/ status[j] = "cancelled"
  \/ answer[c][j] # None

Waiting == {c \in Client : Program[c] # "cancel"}

Sending(c, j) == {t \in Task : pc[t] = "notify" /\ about[t] = j /\ to[t] # c}

\* An attached client gets the outcome, if no send to an earlier target of the job
\* was under way when it was attached: the result cannot fall between the status
\* it is given and its attachment (gateway.py:888-891).
AttachedIsServed ==
  \A c \in Waiting : \A j \in Job :
    (Attached(c, j) /\ Sending(c, j) = {}) ~> Excused(c, j)

=============================================================================
