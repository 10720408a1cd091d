--------------------------- MODULE DeliveryProofs ---------------------------
(***************************************************************************)
(* Theorems about the delivery of outcomes, for any clients, programs and   *)
(* jobs, any connections that may be lost, and any number of returns.       *)
(***************************************************************************)
EXTENDS Delivery, TLAPS, SequenceTheorems, FiniteSetTheorems

USE DEF Task, Ended

InMail == [type : {"SUBMIT_JOB", "GET_JOB", "CANCEL_JOB"}, job : Job]

\* A result says how the job ended.
OutMail ==
  {m \in [type : {"JOB_ACCEPTED", "JOB_FAILED", "JOB_STATUS", "JOB_LOG", "JOB_RESULT"},
          job : Job,
          status : {"unknown", "queued", "running", "cancelling"} \cup Ended] :
     m.type \in {"JOB_RESULT", "JOB_FAILED"} => m.status \in Ended}

JobsTyped ==
  /\ status \in [Job -> {"none", "queued", "running"} \cup Ended]
  /\ push \in [Job -> Client \cup {None}]
  /\ returns \in [Job -> 0 .. MaxReturns]
InTyped == in \in [Client -> Seq(InMail)]
OutTyped == out \in [Client -> Seq(OutMail)]

\* A task that sends for a job knows which.
TasksTyped ==
  /\ pc \in [Task -> {"off", "recv", "assign", "notify", "reply", "over"}]
  /\ to \in [Task -> Client \cup {None}]
  /\ about \in [Task -> Job \cup {None}]
  /\ \A t \in Task : pc[t] = "notify" <=> to[t] # None
  /\ \A t \in Task : pc[t] \in {"notify", "assign"} => about[t] \in Job
ProgramsTyped ==
  /\ client \in [Client -> {"off", "on", "returned", "lost"}]
  /\ answer \in [Client -> [Job -> Ended \cup {None}]]

\* A program that has not connected has no session and no messages.
Unopened ==
  \A c \in Client : client[c] = "off" => pc[c] = "off" /\ c \notin up /\ in[c] = <<>> /\ out[c] = <<>>

Typed == JobsTyped /\ up \subseteq Client /\ InTyped /\ OutTyped /\ TasksTyped /\ ProgramsTyped
TypeInv == Typed /\ Unopened

----------------------------------------------------------------------------
(* Type correctness *)

LEMMA TypeMeans == TypeInv => TypeOK
<1> SUFFICES ASSUME Typed PROVE TypeOK
  BY DEF TypeInv
<1> DEFINE Mail == [type : {"JOB_ACCEPTED", "JOB_FAILED", "JOB_STATUS", "JOB_LOG", "JOB_RESULT"},
                    job : Job,
                    status : {"unknown", "queued", "running", "cancelling"} \cup Ended]
<1>1. \A c \in Client : out[c] \in Seq(Mail)
  <2> TAKE c \in Client
  <2>1. OutMail \subseteq Mail
    BY DEF OutMail
  <2>2. out[c] \in Seq(OutMail)
    BY DEF Typed, OutTyped
  <2> HIDE DEF Mail
  <2> QED BY <2>1, <2>2, SeqMonotonic
<1>2. out \in [Client -> Seq(Mail)]
  BY <1>1 DEF Typed, OutTyped
<1> QED BY <1>2 DEF Typed, JobsTyped, InTyped, TasksTyped, ProgramsTyped, TypeOK, InMail

\* What a run sends is one request for each of its jobs.
LEMMA RequestsTyped ==
  ASSUME NEW c \in Client
  PROVE  /\ Requests(c) \in Seq(InMail)
         /\ \A i \in DOMAIN Requests(c) :
              /\ Requests(c)[i].job \in Wants[c]
              /\ Requests(c)[i].type = "SUBMIT_JOB" => Program[c] = "submit"
         /\ \A i, k \in DOMAIN Requests(c) : Requests(c)[i].job = Requests(c)[k].job => i = k
<1> DEFINE type == CASE Program[c] = "submit" -> "SUBMIT_JOB"
                     [] Program[c] = "wait" -> "GET_JOB"
                     [] Program[c] = "cancel" -> "CANCEL_JOB"
           jobs == SetToSeq(Wants[c])
           n == Cardinality(Wants[c])
<1>1. IsFiniteSet(Wants[c]) /\ Wants[c] \subseteq Job
  BY WantsAssumption
<1>2. n \in Nat /\ \E f \in [1 .. n -> Wants[c]] : IsInjective(f)
  <2>1. n \in Nat /\ ExistsBijection(1 .. n, Wants[c])
    BY <1>1, FS_CardinalityType
  <2> QED BY <2>1 DEF ExistsBijection, Bijection, Injection
<1>3. jobs \in [1 .. n -> Wants[c]] /\ IsInjective(jobs)
  BY <1>2 DEF SetToSeq
<1>4. Requests(c) = [i \in DOMAIN jobs |-> Request(type, jobs[i])]
  BY DEF Requests
<1>5. /\ type \in {"SUBMIT_JOB", "GET_JOB", "CANCEL_JOB"}
      /\ type = "SUBMIT_JOB" => Program[c] = "submit"
  BY ProgramAssumption
<1> HIDE DEF jobs, type, n
<1>6. Requests(c) \in [1 .. n -> InMail]
  BY <1>1, <1>3, <1>4, <1>5 DEF InMail, Request
<1>7. Requests(c) \in Seq(InMail)
  BY <1>2, <1>6, SeqDef
<1> QED BY <1>3, <1>4, <1>5, <1>7 DEF Request, IsInjective

LEMMA SeqOps ==
  ASSUME NEW S, NEW ch \in Seq(S)
  PROVE  /\ <<>> \in Seq(S)
         /\ \A m \in S : Append(ch, m) \in Seq(S)
         /\ ch # <<>> => Head(ch) \in S /\ Tail(ch) \in Seq(S)
         /\ \A n \in 0 .. Len(ch) : SubSeq(ch, 1, n) \in Seq(S)
<1>1. ch # <<>> => Head(ch) \in S /\ Tail(ch) \in Seq(S)
  BY HeadTailProperties
<1>2. ASSUME NEW n \in 0 .. Len(ch) PROVE SubSeq(ch, 1, n) \in Seq(S)
  <2>1. \A i \in 1 .. n : ch[i] \in S
    BY ElementOfSeq
  <2> QED BY <2>1, SubSeqProperties
<1> QED BY <1>1, <1>2

LEMMA InOps ==
  ASSUME InTyped, NEW c \in Client
  PROVE  /\ in[c] \in Seq(InMail) /\ <<>> \in Seq(InMail)
         /\ in[c] # <<>> => Head(in[c]) \in InMail /\ Tail(in[c]) \in Seq(InMail)
         /\ \A n \in 0 .. Len(in[c]) : SubSeq(in[c], 1, n) \in Seq(InMail)
BY SeqOps DEF InTyped

LEMMA OutOps ==
  ASSUME OutTyped, NEW c \in Client
  PROVE  /\ out[c] \in Seq(OutMail) /\ <<>> \in Seq(OutMail)
         /\ out[c] # <<>> => Head(out[c]) \in OutMail /\ Tail(out[c]) \in Seq(OutMail)
         /\ \A m \in OutMail : Append(out[c], m) \in Seq(OutMail)
         /\ \A n \in 0 .. Len(out[c]) : SubSeq(out[c], 1, n) \in Seq(OutMail)
BY SeqOps DEF OutTyped

\* The replies of the gateway are messages to clients.
LEMMA RepliesTyped ==
  ASSUME NEW j \in Job
  PROVE  /\ \A s \in Ended, t \in {"JOB_RESULT", "JOB_FAILED"} : Reply(t, j, s) \in OutMail
         /\ \A s \in {"unknown", "queued", "running", "cancelling"} \cup Ended :
              \A t \in {"JOB_ACCEPTED", "JOB_STATUS", "JOB_LOG"} : Reply(t, j, s) \in OutMail
BY DEF Reply, OutMail

LEMMA DeliverTyped ==
  ASSUME OutTyped, NEW c \in Client, NEW m \in OutMail, Deliver(c, m)
  PROVE  OutTyped'
<1>1. Append(out[c], m) \in Seq(OutMail)
  BY OutOps
<1> QED BY <1>1 DEF Deliver, OutTyped

LEMMA RestTyped ==
  ASSUME TasksTyped, NEW t \in Task, Rest(t)
  PROVE  TasksTyped'
BY DEF Rest, TasksTyped

LEMMA NotifyTyped ==
  ASSUME OutTyped, TasksTyped, NEW t \in Task, NEW j \in Job, NEW m \in OutMail,
         NEW target \in Client \cup {None}, pc[t] # "notify", Notify(t, j, m, target)
  PROVE  OutTyped' /\ TasksTyped'
<1>1. CASE target = None
  BY <1>1, RestTyped DEF Notify, OutTyped
<1>2. CASE target # None
  <2>1. OutTyped'
    BY <1>2, DeliverTyped DEF Notify
  <2> QED BY <1>2, <2>1 DEF Notify, TasksTyped
<1> QED BY <1>1, <1>2

LEMMA ReplyTyped ==
  ASSUME InTyped, OutTyped, TasksTyped, NEW c \in Client, NEW m \in OutMail,
         pc[c] = "recv", in[c] # <<>>, ReplyTo(c, m)
  PROVE  InTyped' /\ OutTyped' /\ TasksTyped'
<1>1. Tail(in[c]) \in Seq(InMail)
  BY InOps
<1>2. OutTyped'
  BY DeliverTyped DEF ReplyTo
<1>3. InTyped'
  BY <1>1 DEF ReplyTo, InTyped
<1> QED BY <1>2, <1>3 DEF ReplyTo, TasksTyped

LEMMA OverTyped ==
  ASSUME Typed, NEW c \in Client, SessionOver(c)
  PROVE  /\ push' \in [Job -> Client \cup {None}]
         /\ up' \subseteq Client /\ InTyped' /\ TasksTyped'
<1>1. InTyped'
  BY InOps DEF SessionOver, InTyped, Typed
<1>2. TasksTyped'
  BY DEF SessionOver, TasksTyped, Typed
<1>3. push' \in [Job -> Client \cup {None}] /\ up' \subseteq Client
  BY DEF SessionOver, Typed, JobsTyped
<1> QED BY <1>1, <1>2, <1>3

\* A step of a drain.
DrainStep(t) == Draining(t) \/ \E j \in Job : NodeStarts(t, j)

\* Only Open begins a program, and nobody sends to one that has not connected.
LEMMA UnopenedKept == TypeInv /\ [Next]_vars => Unopened'
<1> SUFFICES ASSUME TypeInv, [Next]_vars, NEW c \in Client, client'[c] = "off"
             PROVE  pc'[c] = "off" /\ c \notin up' /\ in'[c] = <<>> /\ out'[c] = <<>>
  BY DEF Unopened
<1> USE DEF TypeInv
<1>0. client[c] = "off" => pc[c] = "off" /\ c \notin up /\ in[c] = <<>> /\ out[c] = <<>>
  BY DEF TypeInv, Unopened
<1>1. ASSUME NEW b \in Client, NEW m, Deliver(b, m), c \notin up PROVE out'[c] = out[c]
  BY <1>1 DEF Deliver, Typed, OutTyped
<1>2. ASSUME NEW t \in Task, NEW j, NEW m, NEW target \in Client \cup {None}, Notify(t, j, m, target),
             t # c, c \notin up
      PROVE  pc'[c] = pc[c] /\ out'[c] = out[c]
  BY <1>1, <1>2 DEF Notify, Rest, Typed, TasksTyped
<1>3. ASSUME NEW b \in Client, SessionOver(b), b # c
      PROVE  pc'[c] = pc[c] /\ in'[c] = in[c] /\ up' \subseteq up
  BY <1>3 DEF SessionOver, Typed, TasksTyped, InTyped
<1>4. ASSUME NEW b \in Client, NEW m, ReplyTo(b, m), b # c, c \notin up
      PROVE  pc'[c] = pc[c] /\ in'[c] = in[c] /\ out'[c] = out[c]
  BY <1>1, <1>4 DEF ReplyTo, Typed, TasksTyped, InTyped
<1>5. CASE UNCHANGED vars
  BY <1>0, <1>5 DEF vars, jobVars, taskVars, clientVars
<1>6. ASSUME NEW b \in Client, Open(b) \/ ClientReads(b) \/ ClientLost(b) \/ LoseConnection(b)
      PROVE  pc'[c] = "off" /\ c \notin up' /\ in'[c] = <<>> /\ out'[c] = <<>>
  <2>1. CASE Open(b)
    BY <1>0, <2>1 DEF Open, jobVars, Typed, ProgramsTyped, InTyped, TasksTyped
  <2>2. CASE ClientReads(b)
    <3>1. Return(b) \/ GoOn(b)
      BY <2>2 DEF ClientReads, SubmitReads, WaitReads, CancelReads
    <3>2. b # c /\ client[c] = "off"
      BY <1>0, <2>2, <3>1 DEF ClientReads, Return, GoOn, Typed, ProgramsTyped
    <3>3. out'[c] = out[c] /\ c \notin up'
      BY <1>0, <3>1, <3>2 DEF Return, GoOn, Typed, OutTyped
    <3> QED BY <1>0, <2>2, <3>2, <3>3 DEF ClientReads, taskVars
  <2>3. CASE ClientLost(b)
    BY <1>0, <2>3 DEF ClientLost, taskVars, Typed, ProgramsTyped
  <2>4. CASE LoseConnection(b)
    <3>1. b # c /\ client[c] = "off"
      BY <1>0, <2>4 DEF LoseConnection, clientVars
    <3>2. out'[c] = out[c] /\ in'[c] = in[c]
      BY <2>4, <3>1 DEF LoseConnection, Typed, OutTyped, InTyped
    <3> QED BY <1>0, <2>4, <3>1, <3>2 DEF LoseConnection, taskVars
  <2> QED BY <1>6, <2>1, <2>2, <2>3, <2>4
<1>7. ASSUME NEW b \in Client, Session(b)
      PROVE  pc'[c] = "off" /\ c \notin up' /\ in'[c] = <<>> /\ out'[c] = <<>>
  <2>1. client' = client /\ pc[b] \in {"recv", "assign", "reply"}
    BY <1>7 DEF Session, Refuse, Submit, AssignReturns, AssignRaises, Get, CancelJob, ReplyReturns,
                SessionEnds, Handles, clientVars
  <2>2. b # c /\ c \notin up /\ pc[c] = "off" /\ in[c] = <<>> /\ out[c] = <<>>
    BY <1>0, <2>1
  <2>3. CASE Refuse(b) \/ Get(b)
    BY <1>4, <2>2, <2>3 DEF Refuse, Get
  <2>4. CASE CancelJob(b)
    BY <1>3, <1>4, <2>2, <2>4 DEF CancelJob
  <2>5. CASE Submit(b)
    <3>1. in'[c] = in[c] /\ up' = up
      BY <2>2, <2>5 DEF Submit, Typed, InTyped
    <3>2. pc'[c] = pc[c] /\ out'[c] = out[c]
      BY <1>2, <2>2, <2>5 DEF Submit, Typed, TasksTyped
    <3> QED BY <2>2, <3>1, <3>2
  <2>6. CASE AssignReturns(b)
    <3>1. push[about[b]] \in Client \cup {None}
      BY <2>6 DEF AssignReturns, Typed, TasksTyped, JobsTyped
    <3> QED BY <1>2, <2>2, <2>6, <3>1 DEF AssignReturns
  <2>7. CASE AssignRaises(b) \/ SessionEnds(b)
    BY <1>3, <2>2, <2>7 DEF AssignRaises, SessionEnds
  <2>8. CASE ReplyReturns(b)
    BY <2>2, <2>8 DEF ReplyReturns, Rest, Typed, TasksTyped
  <2> QED BY <1>7, <2>3, <2>4, <2>5, <2>6, <2>7, <2>8 DEF Session
<1>8. ASSUME NEW t \in Task, Notifying(t)
      PROVE  pc'[c] = "off" /\ c \notin up' /\ in'[c] = <<>> /\ out'[c] = <<>>
  <2>1. t # c /\ UNCHANGED <<up, in, out, client>> /\ Rest(t)
    BY <1>0, <1>8 DEF Notifying, NotifyReturns, NotifyRaises, clientVars
  <2> QED BY <1>0, <2>1 DEF Rest, Typed, TasksTyped
<1>9. ASSUME NEW j \in Job, NodeReturns(j) \/ NodeLogs(j) \/ NodeResults(j)
      PROVE  pc'[c] = "off" /\ c \notin up' /\ in'[c] = <<>> /\ out'[c] = <<>>
  <2>1. j # c /\ push[j] \in Client \cup {None} /\ UNCHANGED <<client, up, in>>
    BY <1>9, ClientsAssumption
       DEF NodeReturns, NodeLogs, NodeResults, clientVars, Typed, JobsTyped
  <2>2. CASE NodeReturns(j)
    BY <1>0, <2>1, <2>2 DEF NodeReturns, taskVars
  <2>3. CASE NodeLogs(j) \/ NodeResults(j)
    BY <1>0, <1>2, <2>1, <2>3 DEF NodeLogs, NodeResults
  <2> QED BY <1>9, <2>2, <2>3
<1>10. ASSUME NEW t \in Drain, DrainStep(t)
       PROVE  pc'[c] = "off" /\ c \notin up' /\ in'[c] = <<>> /\ out'[c] = <<>>
  <2>1. t # c /\ UNCHANGED <<client, up, in>>
    BY <1>10, DrainAssumption DEF DrainStep, Draining, AssignReturns, DrainRaises, NodeStarts, clientVars
  <2>2. CASE AssignReturns(t)
    <3>1. push[about[t]] \in Client \cup {None}
      BY <2>2 DEF AssignReturns, Typed, TasksTyped, JobsTyped
    <3> QED BY <1>0, <1>2, <2>1, <2>2, <3>1 DEF AssignReturns
  <2>3. CASE DrainRaises(t) \/ \E j \in Job : NodeStarts(t, j)
    BY <1>0, <2>1, <2>3 DEF DrainRaises, NodeStarts, Rest, Typed, TasksTyped
  <2> QED BY <1>10, <2>2, <2>3 DEF DrainStep, Draining
<1> QED BY <1>5, <1>6, <1>7, <1>8, <1>9, <1>10 DEF Next, DrainStep

\* The programs.
LEMMA ProgramTyped ==
  ASSUME TypeInv, NEW c \in Client, Open(c) \/ ClientReads(c) \/ ClientLost(c) \/ LoseConnection(c)
  PROVE  Typed'
<1> USE DEF TypeInv
<1>1. CASE Open(c)
  BY <1>1, RequestsTyped
     DEF Unopened, Open, jobVars, Typed, JobsTyped, InTyped, OutTyped, TasksTyped, ProgramsTyped
<1>2. CASE ClientReads(c)
  <2>1. out[c] # <<>> /\ Head(out[c]) \in OutMail
    BY <1>2, OutOps DEF ClientReads, Typed
  <2>2. Return(c) \/ GoOn(c)
    BY <1>2 DEF ClientReads, SubmitReads, WaitReads, CancelReads
  <2>3. OutTyped'
    <3>1. <<>> \in Seq(OutMail) /\ Tail(out[c]) \in Seq(OutMail)
      BY <2>1, OutOps DEF Typed
    <3> QED BY <2>2, <3>1 DEF Return, GoOn, Typed, OutTyped
  <2>5. up' \subseteq Client /\ client' \in [Client -> {"off", "on", "returned", "lost"}]
    BY <2>2 DEF Return, GoOn, Typed, ProgramsTyped
  <2>4. answer' \in [Client -> [Job -> Ended \cup {None}]]
    <3>1. \/ UNCHANGED answer
          \/ /\ answer' = [answer EXCEPT ![c][Head(out[c]).job] = Head(out[c]).status]
             /\ Head(out[c]).status \in Ended
      BY <1>2, <2>1 DEF ClientReads, SubmitReads, WaitReads, CancelReads, OutMail
    <3> QED BY <3>1 DEF Typed, ProgramsTyped
  <2> QED BY <1>2, <2>3, <2>4, <2>5
          DEF ClientReads, jobVars, taskVars, Typed, JobsTyped, InTyped, TasksTyped, ProgramsTyped
<1>3. CASE ClientLost(c)
  BY <1>3 DEF ClientLost, jobVars, taskVars, Typed, JobsTyped, InTyped, OutTyped, TasksTyped,
              ProgramsTyped
<1>4. CASE LoseConnection(c)
  <2>1. OutTyped' /\ InTyped'
    BY <1>4, OutOps, InOps DEF LoseConnection, Typed, OutTyped, InTyped
  <2> QED BY <1>4, <2>1 DEF LoseConnection, jobVars, taskVars, clientVars, Typed, JobsTyped,
                            TasksTyped, ProgramsTyped
<1> QED BY <1>1, <1>2, <1>3, <1>4

\* A submitter's session or a drain has sent RUN_JOB.
LEMMA AssignTyped ==
  ASSUME Typed, NEW t \in Task, AssignReturns(t)
  PROVE  Typed'
<1>1. about[t] \in Job /\ pc[t] = "assign" /\ push[about[t]] \in Client \cup {None}
  BY DEF AssignReturns, Typed, TasksTyped, JobsTyped
<1>2. Reply("JOB_ACCEPTED", about[t], "running") \in OutMail
  BY <1>1, RepliesTyped
<1>3. OutTyped' /\ TasksTyped'
  BY <1>1, <1>2, NotifyTyped DEF AssignReturns, Typed
<1> QED BY <1>3 DEF AssignReturns, jobVars, clientVars, Typed, JobsTyped, InTyped, ProgramsTyped

\* The requester sessions.
LEMMA SessionTyped ==
  ASSUME Typed, NEW c \in Client, Session(c)
  PROVE  Typed'
<1> DEFINE j == Head(in[c]).job
<1>0. ASSUME NEW type, Handles(c, type)
      PROVE  /\ pc[c] = "recv" /\ in[c] # <<>> /\ j \in Job
             /\ Tail(in[c]) \in Seq(InMail)
  BY <1>0, InOps DEF Handles, InMail, Typed
<1>1. CASE Refuse(c)
  <2>1. Reply("JOB_FAILED", j, "failed") \in OutMail
    BY <1>0, <1>1, RepliesTyped DEF Refuse
  <2> QED BY <1>0, <1>1, <2>1, ReplyTyped
          DEF Refuse, jobVars, clientVars, Typed, JobsTyped, ProgramsTyped
<1>2. CASE Submit(c)
  <2>0. Handles(c, "SUBMIT_JOB")
    BY <1>2 DEF Submit
  <2>1. push' \in [Job -> Client \cup {None}] /\ InTyped'
    BY <1>0, <1>2, <2>0 DEF Submit, Typed, JobsTyped, InTyped
  <2>2. /\ status' \in [Job -> {"none", "queued", "running"} \cup Ended]
        /\ UNCHANGED <<returns, up, clientVars>>
    BY <1>0, <1>2 DEF Submit, Typed, JobsTyped
  <2>3. OutTyped' /\ TasksTyped'
    <3>1. Reply("JOB_FAILED", j, "failed") \in OutMail /\ Reply("JOB_ACCEPTED", j, "queued") \in OutMail
      BY <1>0, <2>0, RepliesTyped
    <3>2. CASE \E m \in OutMail : Notify(c, j, m, c)
      BY <1>0, <2>0, <3>2, NotifyTyped DEF Typed
    <3>3. CASE /\ pc' = [pc EXCEPT ![c] = "assign"]
               /\ about' = [about EXCEPT ![c] = j]
               /\ UNCHANGED <<out, to>>
      BY <1>0, <2>0, <3>3 DEF Typed, OutTyped, TasksTyped
    <3> QED BY <1>2, <3>1, <3>2, <3>3 DEF Submit
  <2> QED BY <2>1, <2>2, <2>3 DEF clientVars, Typed, JobsTyped, ProgramsTyped
<1>3. CASE AssignReturns(c)
  BY <1>3, AssignTyped
<1>4. CASE AssignRaises(c) \/ SessionEnds(c)
  BY <1>4, OverTyped DEF AssignRaises, SessionEnds, clientVars, Typed, JobsTyped, OutTyped, ProgramsTyped
<1>5. CASE Get(c)
  <2>1. j \in Job /\ pc[c] = "recv" /\ in[c] # <<>>
    BY <1>0, <1>5 DEF Get
  <2>2. Reply("JOB_STATUS", j, IF status[j] = "none" THEN "unknown" ELSE status[j]) \in OutMail
    BY <2>1, RepliesTyped DEF Typed, JobsTyped
  <2>3. push' \in [Job -> Client \cup {None}]
    BY <1>5 DEF Get, Typed, JobsTyped
  <2> QED BY <1>5, <2>1, <2>2, <2>3, ReplyTyped DEF Get, clientVars, Typed, JobsTyped, ProgramsTyped
<1>6. CASE CancelJob(c)
  <2> DEFINE now == IF status[j] = "queued" THEN "cancelled" ELSE status[j]
             said == CASE now = "none" -> "unknown" [] now = "running" -> "cancelling" [] OTHER -> now
  <2>1. j \in Job /\ pc[c] = "recv" /\ in[c] # <<>>
    BY <1>0, <1>6 DEF CancelJob
  <2>2. now \in {"none", "running"} \cup Ended
    BY <2>1 DEF Typed, JobsTyped
  <2>3. Reply("JOB_STATUS", j, said) \in OutMail
    <3>1. said \in {"unknown", "cancelling"} \cup Ended
      BY <2>2
    <3> QED BY <2>1, <3>1, RepliesTyped
  <2>4. status' \in [Job -> {"none", "queued", "running"} \cup Ended]
    BY <1>6, <2>2 DEF CancelJob, Typed, JobsTyped
  <2>5. CASE ReplyTo(c, Reply("JOB_STATUS", j, said)) /\ UNCHANGED <<push, up>>
    BY <1>6, <2>1, <2>3, <2>4, <2>5, ReplyTyped DEF CancelJob, clientVars, Typed, JobsTyped, ProgramsTyped
  <2>6. CASE SessionOver(c) /\ UNCHANGED out
    BY <1>6, <2>4, <2>6, OverTyped DEF CancelJob, clientVars, Typed, JobsTyped, OutTyped, ProgramsTyped
  <2> QED BY <1>6, <2>5, <2>6 DEF CancelJob
<1>7. CASE ReplyReturns(c)
  BY <1>7, RestTyped DEF ReplyReturns, jobVars, clientVars, Typed, JobsTyped, InTyped, OutTyped,
                         ProgramsTyped
<1> QED BY <1>1, <1>2, <1>3, <1>4, <1>5, <1>6, <1>7 DEF Session

\* The end of a send, the drains and the node sessions.
LEMMA NodeTyped ==
  ASSUME Typed, \/ \E t \in Task : Notifying(t)
                \/ \E t \in Drain : DrainStep(t)
                \/ \E j \in Job : NodeReturns(j) \/ NodeLogs(j) \/ NodeResults(j)
  PROVE  Typed'
<1>1. ASSUME NEW t \in Task, Notifying(t) PROVE Typed'
  <2>1. TasksTyped'
    BY <1>1, RestTyped DEF Notifying, NotifyReturns, NotifyRaises, Typed
  <2>2. push' \in [Job -> Client \cup {None}]
    BY <1>1 DEF Notifying, NotifyReturns, NotifyRaises, jobVars, Typed, JobsTyped
  <2> QED BY <1>1, <2>1, <2>2
          DEF Notifying, NotifyReturns, NotifyRaises, jobVars, clientVars, Typed, JobsTyped,
              InTyped, OutTyped, ProgramsTyped
<1>2. ASSUME NEW j \in Job, NodeReturns(j) PROVE Typed'
  <2>1. returns' \in [Job -> 0 .. MaxReturns]
    BY <1>2, BoundsAssumption DEF NodeReturns, Typed, JobsTyped
  <2> QED BY <1>2, <2>1
          DEF NodeReturns, taskVars, clientVars, Typed, JobsTyped,
              InTyped, OutTyped, TasksTyped, ProgramsTyped
<1>3. ASSUME NEW j \in Job, NodeLogs(j) \/ NodeResults(j) PROVE Typed'
  <2>1. PICK m \in OutMail : Notify(j, j, m, push[j])
    BY <1>3, RepliesTyped DEF NodeLogs, NodeResults
  <2>2. pc[j] = "recv" /\ push[j] \in Client \cup {None}
    BY <1>3 DEF NodeLogs, NodeResults, Typed, JobsTyped
  <2>3. OutTyped' /\ TasksTyped'
    BY <2>1, <2>2, NotifyTyped DEF Typed
  <2> QED BY <1>3, <2>3 DEF NodeLogs, NodeResults, jobVars, clientVars, Typed, JobsTyped,
                            InTyped, ProgramsTyped
<1>4. ASSUME NEW t \in Drain, DrainStep(t) PROVE Typed'
  <2>1. CASE AssignReturns(t)
    BY <2>1, AssignTyped
  <2>2. CASE DrainRaises(t)
    BY <2>2, RestTyped DEF DrainRaises, jobVars, clientVars, Typed, JobsTyped, InTyped, OutTyped,
                           ProgramsTyped
  <2>3. ASSUME NEW j \in Job, NodeStarts(t, j) PROVE Typed'
    BY <2>3 DEF NodeStarts, clientVars, Typed, JobsTyped, InTyped, OutTyped, TasksTyped, ProgramsTyped
  <2> QED BY <1>4, <2>1, <2>2, <2>3 DEF DrainStep, Draining
<1> QED BY <1>1, <1>2, <1>3, <1>4

LEMMA InitTyped == Init => TypeInv
<1> SUFFICES ASSUME Init PROVE TypeInv
  OBVIOUS
<1>1. JobsTyped /\ up \subseteq Client /\ ProgramsTyped
  BY BoundsAssumption DEF Init, JobsTyped, ProgramsTyped
<1>2. InTyped /\ OutTyped
  BY EmptySeq DEF Init, InTyped, OutTyped
<1>3. TasksTyped
  BY DEF Init, TasksTyped
<1>4. Unopened
  BY ClientsAssumption DEF Init, Unopened
<1> QED BY <1>1, <1>2, <1>3, <1>4 DEF TypeInv, Typed

LEMMA StepTyped == TypeInv /\ [Next]_vars => TypeInv'
<1> SUFFICES ASSUME TypeInv, [Next]_vars PROVE Typed'
  BY UnopenedKept DEF TypeInv
<1>1. CASE UNCHANGED vars
  BY <1>1 DEF vars, jobVars, taskVars, clientVars, TypeInv, Typed, JobsTyped, InTyped, OutTyped,
              TasksTyped, ProgramsTyped
<1> QED BY <1>1, ProgramTyped, SessionTyped, NodeTyped DEF Next, DrainStep, TypeInv

LEMMA SpecTyped == Spec => []TypeInv
BY InitTyped, StepTyped, PTL DEF Spec

\* Types, and that a task that notifies knows whom, in every reachable state
\* (gateway.py:880-901).
THEOREM TypeCorrect == Spec => []TypeOK
BY SpecTyped, TypeMeans, PTL

----------------------------------------------------------------------------
(* Push targets *)

\* A session that is over stays over, and gets no job.
LEMMA OverStays ==
  ASSUME Typed, TargetsAreOpen, NEW t \in Task,
         pc' = [pc EXCEPT ![t] = "recv"] \/ pc' = [pc EXCEPT ![t] = "notify"]
           \/ pc' = [pc EXCEPT ![t] = "reply"] \/ pc' = [pc EXCEPT ![t] = "assign"]
           \/ pc' = pc,
         \A j \in Job : push'[j] \in {push[j], None} \/ (push'[j] = t /\ pc'[t] # "over")
  PROVE  TargetsAreOpen'
<1> SUFFICES ASSUME NEW j \in Job, push'[j] # None PROVE pc'[push'[j]] # "over"
  BY DEF TargetsAreOpen
<1>1. CASE push'[j] = push[j]
  <2>1. push[j] \in Client /\ pc[push[j]] # "over"
    BY <1>1 DEF Typed, JobsTyped, TargetsAreOpen
  <2> QED BY <1>1, <2>1 DEF Typed, TasksTyped
<1>2. CASE push'[j] = t /\ pc'[t] # "over"
  BY <1>2
<1> QED BY <1>1, <1>2

\* The session that ends leaves no job behind.
LEMMA OverClears ==
  ASSUME Typed, TargetsAreOpen, NEW c \in Client, SessionOver(c)
  PROVE  TargetsAreOpen'
<1> SUFFICES ASSUME NEW j \in Job, push'[j] # None PROVE pc'[push'[j]] # "over"
  BY DEF TargetsAreOpen
<1>1. push'[j] = push[j] /\ push[j] # c /\ push[j] \in Client
  BY DEF SessionOver, Typed, JobsTyped
<1> QED BY <1>1 DEF SessionOver, TargetsAreOpen, Typed, TasksTyped

LEMMA OpenKept == TypeInv /\ TargetsAreOpen /\ [Next]_vars => TargetsAreOpen'
<1> SUFFICES ASSUME Typed, Unopened, TargetsAreOpen, [Next]_vars PROVE TargetsAreOpen'
  BY DEF TypeInv
<1>1. CASE UNCHANGED <<pc, push>>
  BY <1>1 DEF TargetsAreOpen
<1>2. ASSUME NEW c \in Client, Open(c) \/ ClientReads(c) \/ ClientLost(c) \/ LoseConnection(c)
      PROVE  TargetsAreOpen'
  <2>1. CASE Open(c)
    BY <2>1, OverStays DEF Open, jobVars
  <2>2. CASE ~Open(c)
    BY <1>1, <1>2, <2>2 DEF ClientReads, ClientLost, LoseConnection, jobVars, taskVars
  <2> QED BY <2>1, <2>2
<1>3. ASSUME NEW c \in Client, Session(c) PROVE TargetsAreOpen'
  <2>1. CASE Refuse(c)
    BY <2>1, OverStays DEF Refuse, ReplyTo, jobVars
  <2>2. CASE Submit(c)
    <3>1. /\ push' = [push EXCEPT ![Head(in[c]).job] = c]
          /\ \/ pc' = [pc EXCEPT ![c] = "recv"] \/ pc' = [pc EXCEPT ![c] = "notify"]
             \/ pc' = [pc EXCEPT ![c] = "assign"]
      BY <2>2 DEF Submit, Notify, Rest
    <3>2. pc'[c] # "over" /\ \A j \in Job : push'[j] \in {push[j], c}
      BY <3>1 DEF Typed, TasksTyped, JobsTyped
    <3> QED BY <3>1, <3>2, OverStays
  <2>3. CASE AssignReturns(c)
    BY <2>3, OverStays DEF AssignReturns, Notify, Rest, jobVars
  <2>4. CASE AssignRaises(c) \/ SessionEnds(c)
    BY <2>4, OverClears DEF AssignRaises, SessionEnds
  <2>5. CASE Get(c)
    <3>1. pc' = [pc EXCEPT ![c] = "reply"] /\ \A j \in Job : push'[j] \in {push[j], c}
      BY <2>5 DEF Get, ReplyTo, Typed, JobsTyped
    <3>2. pc'[c] # "over"
      BY <3>1 DEF Typed, TasksTyped
    <3> QED BY <3>1, <3>2, OverStays
  <2>6. CASE CancelJob(c)
    BY <2>6, OverStays, OverClears DEF CancelJob, ReplyTo
  <2>7. CASE ReplyReturns(c)
    BY <2>7, OverStays DEF ReplyReturns, Rest, jobVars
  <2> QED BY <1>3, <2>1, <2>2, <2>3, <2>4, <2>5, <2>6, <2>7 DEF Session
<1>4. ASSUME NEW t \in Task, Notifying(t) PROVE TargetsAreOpen'
  <2>1. pc' = [pc EXCEPT ![t] = "recv"] /\ \A j \in Job : push'[j] \in {push[j], None}
    BY <1>4 DEF Notifying, NotifyReturns, NotifyRaises, Rest, jobVars, Typed, JobsTyped
  <2> QED BY <2>1, OverStays
<1>5. ASSUME NEW j \in Job, NodeReturns(j) \/ NodeLogs(j) \/ NodeResults(j)
      PROVE  TargetsAreOpen'
  <2>1. CASE NodeReturns(j)
    BY <1>1, <2>1 DEF NodeReturns, taskVars
  <2>2. CASE NodeLogs(j) \/ NodeResults(j)
    BY <2>2, OverStays DEF NodeLogs, NodeResults, Notify, Rest, jobVars
  <2> QED BY <1>5, <2>1, <2>2
<1>6. CASE UNCHANGED vars
  BY <1>1, <1>6 DEF vars, jobVars, taskVars
<1>7. ASSUME NEW t \in Drain, DrainStep(t) PROVE TargetsAreOpen'
  BY <1>7, OverStays DEF DrainStep, Draining, AssignReturns, DrainRaises, NodeStarts, Notify, Rest, jobVars
<1> QED BY <1>2, <1>3, <1>4, <1>5, <1>6, <1>7 DEF Next, DrainStep

\* No job has a push target whose session is over, whatever targets replace each other
\* and whatever sends fail in between (gateway.py:732-735).
THEOREM TargetsOpen == Spec => []TargetsAreOpen
<1>1. Init => TargetsAreOpen
  BY DEF Init, TargetsAreOpen
<1> QED BY <1>1, SpecTyped, OpenKept, PTL DEF Spec

----------------------------------------------------------------------------
(* One outcome *)

\* A channel tells of the end s of job j.
Tells(ch, j, s) == \E i \in DOMAIN ch : ch[i].job = j /\ s \in Outcome(ch[i])

\* Client d has reported, or will read, that j ended with s.
Heard(d, j, s) == answer[d][j] = s \/ Tells(out[d], j, s)

Agree == \A d \in Client, j \in Job, s \in Ended : Heard(d, j, s) => status[j] \in {s, "none"}

\* What the client has to say of j is still to be handled.
ToAsk(c, j) ==
  /\ j \in Wants[c]
  /\ client[c] = "off" \/ \E i \in DOMAIN in[c] : in[c][i].job = j

\* The submission of j is still to be handled.
Pending(c, j) == Program[c] = "submit" /\ ToAsk(c, j)

\* Then the gateway does not know j, and nobody has heard of its end.
Unheard ==
  \A c \in Client, j \in Job :
    Pending(c, j) => status[j] = "none" /\ \A d \in Client, s \in Ended : ~Heard(d, j, s)

\* What is on its way from a client is what it wanted, each job once.
Asking ==
  \A c \in Client :
    /\ \A i \in DOMAIN in[c] :
         /\ in[c][i].job \in Wants[c]
         /\ in[c][i].type = "SUBMIT_JOB" => Program[c] = "submit"
    /\ \A i, k \in DOMAIN in[c] : in[c][i].job = in[c][k].job => i = k

LEMMA OutcomeEnds == \A m \in OutMail : Outcome(m) \subseteq Ended
BY DEF Outcome, OutMail

LEMMA AgreeMeans == TypeInv /\ Agree => AnswersAgree
<1> SUFFICES ASSUME Typed, Agree, NEW c \in Client, NEW j \in Job
             PROVE  /\ answer[c][j] # None => status[j] \in {answer[c][j], "none"}
                    /\ \A i \in DOMAIN out[c] :
                         out[c][i].job = j /\ Outcome(out[c][i]) # {}
                           => status[j] \in Outcome(out[c][i]) \cup {"none"}
  BY DEF TypeInv, AnswersAgree
<1>1. answer[c][j] # None => answer[c][j] \in Ended
  BY DEF Typed, ProgramsTyped
<1>2. ASSUME NEW i \in DOMAIN out[c], out[c][i].job = j, Outcome(out[c][i]) # {}
      PROVE  status[j] \in Outcome(out[c][i]) \cup {"none"}
  <2>1. PICK s : s \in Outcome(out[c][i])
    BY <1>2
  <2>2. out[c][i] \in OutMail
    BY <1>2, ElementOfSeq, LenProperties DEF Typed, OutTyped
  <2>3. s \in Ended /\ Heard(c, j, s)
    BY <1>2, <2>1, <2>2, OutcomeEnds DEF Heard, Tells
  <2> QED BY <2>1, <2>3 DEF Agree
<1> QED BY <1>1, <1>2 DEF Agree, Heard

\* Sending adds at most the message sent; reading and losing add nothing.
LEMMA TellsOps ==
  ASSUME NEW S, NEW ch \in Seq(S), NEW j, NEW s
  PROVE  /\ ~Tells(<<>>, j, s)
         /\ \A m \in S : Tells(Append(ch, m), j, s)
                         => Tells(ch, j, s) \/ (m.job = j /\ s \in Outcome(m))
         /\ ch # <<>> => (Tells(Tail(ch), j, s) => Tells(ch, j, s))
         /\ \A n \in 0 .. Len(ch) : Tells(SubSeq(ch, 1, n), j, s) => Tells(ch, j, s)
<1>1. Len(ch) \in Nat /\ DOMAIN ch = 1 .. Len(ch)
  BY LenProperties
<1>2. ~Tells(<<>>, j, s)
  BY DEF Tells
<1>3. ASSUME NEW m \in S, Tells(Append(ch, m), j, s)
      PROVE  Tells(ch, j, s) \/ (m.job = j /\ s \in Outcome(m))
  <2>1. /\ DOMAIN Append(ch, m) = 1 .. Len(ch) + 1
        /\ \A i \in 1 .. Len(ch) : Append(ch, m)[i] = ch[i]
        /\ Append(ch, m)[Len(ch) + 1] = m
    BY <1>1
  <2>2. PICK i \in 1 .. Len(ch) + 1 : Append(ch, m)[i].job = j /\ s \in Outcome(Append(ch, m)[i])
    BY <1>3, <2>1 DEF Tells
  <2>3. CASE i = Len(ch) + 1
    BY <2>1, <2>2, <2>3
  <2>4. CASE i \in 1 .. Len(ch)
    BY <1>1, <2>1, <2>2, <2>4 DEF Tells
  <2> QED BY <1>1, <2>3, <2>4
<1>4. ASSUME ch # <<>>, Tells(Tail(ch), j, s) PROVE Tells(ch, j, s)
  <2>1. /\ Tail(ch) \in Seq(S) /\ Len(Tail(ch)) = Len(ch) - 1
        /\ \A i \in 1 .. Len(Tail(ch)) : Tail(ch)[i] = ch[i + 1]
    BY <1>4, HeadTailProperties
  <2>2. DOMAIN Tail(ch) = 1 .. Len(Tail(ch))
    BY <2>1, LenProperties
  <2>3. PICK i \in 1 .. Len(ch) - 1 : Tail(ch)[i].job = j /\ s \in Outcome(Tail(ch)[i])
    BY <1>4, <2>1, <2>2 DEF Tells
  <2>4. i + 1 \in DOMAIN ch /\ ch[i + 1].job = j /\ s \in Outcome(ch[i + 1])
    BY <1>1, <2>1, <2>3
  <2> QED BY <2>4 DEF Tells
<1>5. ASSUME NEW n \in 0 .. Len(ch), Tells(SubSeq(ch, 1, n), j, s) PROVE Tells(ch, j, s)
  <2>1. \A i \in 1 .. n : ch[i] \in S
    BY ElementOfSeq
  <2>2. /\ SubSeq(ch, 1, n) \in Seq(S) /\ Len(SubSeq(ch, 1, n)) = n
        /\ \A i \in 1 .. n : SubSeq(ch, 1, n)[i] = ch[i]
    BY <1>1, <2>1, SubSeqProperties
  <2>3. DOMAIN SubSeq(ch, 1, n) = 1 .. n
    BY <2>2, LenProperties
  <2>4. PICK i \in 1 .. n : ch[i].job = j /\ s \in Outcome(ch[i])
    BY <1>5, <2>2, <2>3 DEF Tells
  <2> QED BY <1>1, <2>4 DEF Tells
<1> QED BY <1>2, <1>3, <1>4, <1>5

\* What each kind of step lets clients hear.
LEMMA HeardSent ==
  ASSUME Typed, NEW c \in Client, NEW m \in OutMail, Deliver(c, m), answer' = answer
  PROVE  \A d \in Client : \A j, s : Heard(d, j, s)' => Heard(d, j, s) \/ (m.job = j /\ s \in Outcome(m))
<1> SUFFICES ASSUME NEW d \in Client, NEW j, NEW s
             PROVE  Heard(d, j, s)' => Heard(d, j, s) \/ (m.job = j /\ s \in Outcome(m))
  OBVIOUS
<1>1. out[d] \in Seq(OutMail)
  BY DEF Typed, OutTyped
<1>2. out'[d] = out[d] \/ out'[d] = Append(out[d], m)
  BY DEF Deliver, Typed, OutTyped
<1>3. Tells(Append(out[d], m), j, s) => Tells(out[d], j, s) \/ (m.job = j /\ s \in Outcome(m))
  BY <1>1, TellsOps
<1> QED BY <1>2, <1>3 DEF Heard

LEMMA HeardNotified ==
  ASSUME Typed, NEW t, NEW i, NEW m \in OutMail, NEW target \in Client \cup {None},
         Notify(t, i, m, target), answer' = answer
  PROVE  \A d \in Client : \A j, s : Heard(d, j, s)' => Heard(d, j, s) \/ (m.job = j /\ s \in Outcome(m))
<1>1. CASE target = None
  BY <1>1 DEF Notify, Heard
<1>2. CASE target # None
  BY <1>2, HeardSent DEF Notify
<1> QED BY <1>1, <1>2

\* Reading, returning and losing the connection.
LEMMA HeardByPrograms ==
  ASSUME Typed, NEW c \in Client, ClientReads(c) \/ LoseConnection(c)
  PROVE  \A d \in Client, j \in Job, s \in Ended : Heard(d, j, s)' => Heard(d, j, s)
<1> TAKE d \in Client, j \in Job, s \in Ended
<1>0. out[d] \in Seq(OutMail) /\ answer \in [Client -> [Job -> Ended \cup {None}]]
  BY DEF Typed, OutTyped, ProgramsTyped
<1>1. CASE ClientReads(c)
  <2> DEFINE m == Head(out[c])
  <2>0. out[c] # <<>> /\ m \in OutMail
    BY <1>1, OutOps DEF ClientReads, Typed
  <2>1. out'[d] \in {out[d], <<>>} \/ (d = c /\ out'[d] = Tail(out[d]))
    <3>1. Return(c) \/ GoOn(c)
      BY <1>1 DEF ClientReads, SubmitReads, WaitReads, CancelReads
    <3> QED BY <3>1 DEF Return, GoOn, Typed, OutTyped
  <2>2. Tells(out'[d], j, s) => Tells(out[d], j, s)
    BY <1>0, <2>0, <2>1, TellsOps
  <2>3. answer'[d][j] = answer[d][j] \/ (d = c /\ answer'[d][j] = m.status /\ m.job = j
                                        /\ m.status \in Outcome(m))
    <3>1. \/ answer' = answer
          \/ /\ answer' = [answer EXCEPT ![c][m.job] = m.status]
             /\ m.status \in Outcome(m)
      BY <1>1 DEF ClientReads, SubmitReads, WaitReads, CancelReads, Outcome
    <3> QED BY <1>0, <3>1
  <2>4. \A e : e \in Outcome(m) => Tells(out[c], m.job, e)
    <3>1. 1 \in DOMAIN out[c] /\ out[c][1] = m
      BY <2>0, LenProperties, EmptySeq DEF Typed, OutTyped
    <3> QED BY <3>1 DEF Tells
  <2> QED BY <2>2, <2>3, <2>4 DEF Heard
<1>2. CASE LoseConnection(c)
  <2>1. PICK n \in 0 .. Len(out[c]) : out' = [out EXCEPT ![c] = SubSeq(@, 1, n)]
    BY <1>2 DEF LoseConnection
  <2>2. out'[d] = out[d] \/ (d = c /\ out'[d] = SubSeq(out[d], 1, n))
    BY <2>1 DEF Typed, OutTyped
  <2>3. Tells(out'[d], j, s) => Tells(out[d], j, s)
    <3>1. d = c => n \in 0 .. Len(out[d])
      OBVIOUS
    <3>2. \A k \in 0 .. Len(out[d]) : Tells(SubSeq(out[d], 1, k), j, s) => Tells(out[d], j, s)
      BY <1>0, TellsOps
    <3> QED BY <2>2, <3>1, <3>2
  <2>4. answer' = answer
    BY <1>2 DEF LoseConnection, clientVars
  <2> QED BY <2>3, <2>4 DEF Heard
<1> QED BY <1>1, <1>2

\* Reading and losing messages only shifts those that are left.
LEMMA ChannelShrinks ==
  ASSUME NEW S, NEW ch \in Seq(S), NEW rest,
         \/ rest = <<>> \/ (ch # <<>> /\ rest = Tail(ch))
         \/ \E n \in 0 .. Len(ch) : rest = SubSeq(ch, 1, n)
  PROVE  \E k \in {0, 1} : \A i \in DOMAIN rest :
           i \in Nat /\ i + k \in DOMAIN ch /\ rest[i] = ch[i + k]
<1>0. Len(ch) \in Nat /\ DOMAIN ch = 1 .. Len(ch)
  BY LenProperties
<1>1. CASE rest = <<>>
  BY <1>1
<1>2. CASE ch # <<>> /\ rest = Tail(ch)
  <2>1. /\ rest \in Seq(S) /\ Len(rest) = Len(ch) - 1
        /\ \A i \in 1 .. Len(rest) : rest[i] = ch[i + 1]
    BY <1>2, HeadTailProperties
  <2>2. DOMAIN rest = 1 .. Len(ch) - 1
    BY <2>1, LenProperties
  <2>3. ASSUME NEW i \in DOMAIN rest PROVE i \in Nat /\ i + 1 \in DOMAIN ch /\ rest[i] = ch[i + 1]
    <3>1. i \in 1 .. Len(rest) /\ i \in 1 .. Len(ch) - 1
      BY <2>1, <2>2
    <3>2. rest[i] = ch[i + 1]
      BY <2>1, <3>1
    <3> QED BY <1>0, <3>1, <3>2
  <2> QED BY <2>3
<1>3. ASSUME NEW n \in 0 .. Len(ch), rest = SubSeq(ch, 1, n)
      PROVE  \A i \in DOMAIN rest : i \in Nat /\ i + 0 \in DOMAIN ch /\ rest[i] = ch[i + 0]
  <2>1. \A i \in 1 .. n : ch[i] \in S
    BY ElementOfSeq
  <2>2. /\ SubSeq(ch, 1, n) \in Seq(S) /\ Len(SubSeq(ch, 1, n)) = n
        /\ \A i \in 1 .. n : SubSeq(ch, 1, n)[i] = ch[i]
    BY <1>0, <2>1, SubSeqProperties
  <2>3. DOMAIN SubSeq(ch, 1, n) = 1 .. n
    BY <2>2, LenProperties
  <2>4. \A i \in 1 .. n : i \in Nat /\ i + 0 = i /\ i \in DOMAIN ch
    BY <1>0
  <2> QED BY <1>3, <2>2, <2>3, <2>4
<1> QED BY <1>1, <1>2, <1>3

\* How the requests of a client change.
LEMMA InSteps ==
  ASSUME Typed, [Next]_vars, NEW c \in Client
  PROVE  \/ /\ client'[c] = "off" => client[c] = "off"
            /\ \/ in'[c] = in[c] \/ in'[c] = <<>> \/ (in[c] # <<>> /\ in'[c] = Tail(in[c]))
               \/ \E n \in 0 .. Len(in[c]) : in'[c] = SubSeq(in[c], 1, n)
         \/ client[c] = "off" /\ client'[c] # "off" /\ in'[c] = Requests(c)
<1>0. in \in [Client -> Seq(InMail)] /\ client \in [Client -> {"off", "on", "returned", "lost"}]
  BY DEF Typed, InTyped, ProgramsTyped
<1>1. CASE UNCHANGED <<client, in>>
  BY <1>1
<1>2. ASSUME NEW b \in Client, Open(b)
      PROVE  \/ in'[c] = in[c] /\ client'[c] = client[c]
             \/ client[c] = "off" /\ client'[c] # "off" /\ in'[c] = Requests(c)
  BY <1>0, <1>2 DEF Open
<1>3. ASSUME NEW b \in Client, ClientReads(b) \/ ClientLost(b)
      PROVE  in'[c] = in[c] /\ (client'[c] = "off" => client[c] = "off")
  BY <1>0, <1>3 DEF ClientReads, SubmitReads, WaitReads, CancelReads, Return, GoOn, ClientLost
<1>4. ASSUME NEW b \in Client, LoseConnection(b)
      PROVE  client' = client /\ \E n \in 0 .. Len(in[c]) :
                                  in'[c] = in[c] \/ in'[c] = SubSeq(in[c], 1, n)
  <2>1. PICK n \in 0 .. Len(in[b]) : in' = [in EXCEPT ![b] = SubSeq(@, 1, n)]
    BY <1>4 DEF LoseConnection
  <2>2. CASE b = c
    BY <1>0, <1>4, <2>1, <2>2 DEF LoseConnection, clientVars
  <2>3. CASE b # c
    <3>1. in'[c] = in[c] /\ 0 \in 0 .. Len(in[c])
      BY <1>0, <2>1, <2>3, LenProperties
    <3> QED BY <1>4, <3>1 DEF LoseConnection, clientVars
  <2> QED BY <2>2, <2>3
<1>5. ASSUME NEW b \in Client, Session(b)
      PROVE  /\ client' = client
             /\ in'[c] = in[c] \/ in'[c] = <<>> \/ (in[c] # <<>> /\ in'[c] = Tail(in[c]))
  <2>1. client' = client
    BY <1>5 DEF Session, Refuse, Submit, AssignReturns, AssignRaises, Get, CancelJob, ReplyReturns,
                SessionEnds, clientVars
  <2>2. \/ in' = in \/ in' = [in EXCEPT ![b] = <<>>]
        \/ in[b] # <<>> /\ in' = [in EXCEPT ![b] = Tail(@)]
    BY <1>5 DEF Session, Refuse, Submit, AssignReturns, AssignRaises, Get, CancelJob, ReplyReturns,
                SessionEnds, SessionOver, ReplyTo, Handles
  <2> QED BY <1>0, <2>1, <2>2
<1>6. ASSUME \/ \E t \in Task : Notifying(t)
             \/ \E t \in Drain : DrainStep(t)
             \/ \E j \in Job : NodeReturns(j) \/ NodeLogs(j) \/ NodeResults(j)
      PROVE  UNCHANGED <<client, in>>
  BY <1>6 DEF Notifying, NotifyReturns, NotifyRaises, DrainStep, Draining, AssignReturns, DrainRaises,
              NodeStarts, NodeReturns, NodeLogs, NodeResults, clientVars
<1>7. CASE UNCHANGED vars
  BY <1>1, <1>7 DEF vars, clientVars
<1> QED BY <1>1, <1>2, <1>3, <1>4, <1>5, <1>6, <1>7 DEF Next, DrainStep

LEMMA AskingKept == TypeInv /\ Asking /\ [Next]_vars => Asking'
<1> SUFFICES ASSUME Typed, Asking, [Next]_vars, NEW c \in Client
             PROVE  /\ \A i \in DOMAIN in'[c] :
                         /\ in'[c][i].job \in Wants[c]
                         /\ in'[c][i].type = "SUBMIT_JOB" => Program[c] = "submit"
                    /\ \A i, k \in DOMAIN in'[c] : in'[c][i].job = in'[c][k].job => i = k
  BY DEF TypeInv, Asking
<1>1. CASE in'[c] = Requests(c)
  BY <1>1, RequestsTyped
<1>2. CASE in'[c] = in[c]
  BY <1>2 DEF Asking
<1>3. CASE \/ in'[c] = <<>> \/ (in[c] # <<>> /\ in'[c] = Tail(in[c]))
           \/ \E n \in 0 .. Len(in[c]) : in'[c] = SubSeq(in[c], 1, n)
  <2>1. in[c] \in Seq(InMail)
    BY DEF Typed, InTyped
  <2>2. PICK k \in {0, 1} : \A i \in DOMAIN in'[c] :
               i \in Nat /\ i + k \in DOMAIN in[c] /\ in'[c][i] = in[c][i + k]
    BY <1>3, <2>1, ChannelShrinks
  <2> QED BY <2>2 DEF Asking
<1> QED BY <1>1, <1>2, <1>3, InSteps

\* A request is to be handled until it is, and never again.
LEMMA ToAskLess ==
  ASSUME Typed, [Next]_vars, NEW c \in Client, NEW j \in Job, ToAsk(c, j)'
  PROVE  ToAsk(c, j)
<1>1. j \in Wants[c]
  BY DEF ToAsk
<1>2. CASE client[c] = "off"
  BY <1>1, <1>2 DEF ToAsk
<1>3. CASE in'[c] = in[c] /\ client'[c] # "off"
  BY <1>1, <1>3 DEF ToAsk
<1>4. CASE /\ client'[c] # "off"
           /\ \/ in'[c] = <<>> \/ (in[c] # <<>> /\ in'[c] = Tail(in[c]))
              \/ \E n \in 0 .. Len(in[c]) : in'[c] = SubSeq(in[c], 1, n)
  <2>1. in[c] \in Seq(InMail)
    BY DEF Typed, InTyped
  <2>2. PICK k \in {0, 1} : \A i \in DOMAIN in'[c] :
               i \in Nat /\ i + k \in DOMAIN in[c] /\ in'[c][i] = in[c][i + k]
    BY <1>4, <2>1, ChannelShrinks
  <2>3. PICK i \in DOMAIN in'[c] : in'[c][i].job = j
    BY <1>4 DEF ToAsk
  <2>4. i + k \in DOMAIN in[c] /\ in[c][i + k].job = j
    BY <2>2, <2>3
  <2> QED BY <1>1, <2>4 DEF ToAsk
<1> QED BY <1>2, <1>3, <1>4, InSteps

LEMMA PendingLess ==
  ASSUME Typed, [Next]_vars, NEW c \in Client, NEW j \in Job, Pending(c, j)'
  PROVE  Pending(c, j)
BY ToAskLess DEF Pending

\* A request that is being handled was to be handled, and will not come again.
LEMMA AskHandled ==
  ASSUME TypeInv, Asking, NEW c \in Client, NEW type, Handles(c, type),
         in' = [in EXCEPT ![c] = Tail(@)], client' = client,
         NEW j \in Job, j = Head(in[c]).job
  PROVE  ToAsk(c, j) /\ ~ToAsk(c, j)'
<1>1. /\ in[c] \in Seq(InMail) /\ in[c] # <<>> /\ in'[c] = Tail(in[c])
      /\ client[c] # "off" /\ client'[c] # "off"
  BY DEF Handles, TypeInv, Typed, InTyped, Unopened
<1>2. /\ Len(in[c]) \in Nat \ {0} /\ DOMAIN in[c] = 1 .. Len(in[c])
      /\ 1 \in DOMAIN in[c] /\ in[c][1] = Head(in[c])
  BY <1>1, LenProperties, EmptySeq
<1>3. /\ DOMAIN Tail(in[c]) = 1 .. Len(in[c]) - 1
      /\ \A i \in 1 .. Len(in[c]) - 1 : Tail(in[c])[i] = in[c][i + 1]
  BY <1>1, HeadTailProperties, LenProperties
<1>4. j \in Wants[c]
  BY <1>2 DEF Asking
<1>5. ToAsk(c, j)
  BY <1>2, <1>4 DEF ToAsk
<1>6. ASSUME ToAsk(c, j)' PROVE FALSE
  <2>1. PICK i \in DOMAIN Tail(in[c]) : Tail(in[c])[i].job = j
    BY <1>1, <1>6 DEF ToAsk
  <2>2. i + 1 \in DOMAIN in[c] /\ in[c][i + 1].job = in[c][1].job /\ i + 1 # 1
    BY <1>2, <1>3, <2>1
  <2> QED BY <1>2, <2>2 DEF Asking
<1> QED BY <1>5, <1>6

\* A submission that is being handled is pending, and no other of the job is.
LEMMA PendingHandled ==
  ASSUME TypeInv, Asking, [Next]_vars, NEW c \in Client, Handles(c, "SUBMIT_JOB"),
         in' = [in EXCEPT ![c] = Tail(@)], client' = client,
         NEW j \in Job, j = Head(in[c]).job
  PROVE  Pending(c, j) /\ \A d \in Client : ~Pending(d, j)'
<1>1. Program[c] = "submit"
  <2>1. in[c] \in Seq(InMail) /\ in[c] # <<>> /\ Head(in[c]).type = "SUBMIT_JOB"
    BY DEF Handles, TypeInv, Typed, InTyped
  <2>2. 1 \in DOMAIN in[c] /\ in[c][1] = Head(in[c])
    BY <2>1, LenProperties, EmptySeq
  <2> QED BY <2>1, <2>2 DEF Asking
<1>2. ToAsk(c, j) /\ ~ToAsk(c, j)'
  BY AskHandled
<1>3. ASSUME NEW d \in Client, Pending(d, j)' PROVE FALSE
  <2>1. Program[d] = "submit" /\ j \in Wants[d] /\ ToAsk(d, j)'
    BY <1>3 DEF Pending, ToAsk
  <2>2. d = c
    BY <1>1, <1>2, <2>1, SubmittersAssumption DEF ToAsk
  <2> QED BY <1>2, <2>1, <2>2
<1> QED BY <1>1, <1>2, <1>3 DEF Pending

\* The shape of every step: at most one job j changes or is told of, it is told of as
\* it then is, and it changes only while nobody has heard of an end.
LEMMA OneTold ==
  ASSUME Typed, Agree, Unheard, [Next]_vars, NEW j \in Job,
         \A i \in Job : i # j => status'[i] = status[i],
         \A d \in Client, i \in Job, s \in Ended :
           Heard(d, i, s)' => Heard(d, i, s) \/ (i = j /\ status'[j] \in {s, "none"}),
         status'[j] = status[j] \/ \A d \in Client, s \in Ended : ~Heard(d, j, s),
         \/ \A d \in Client : ~Pending(d, j)'
         \/ /\ status'[j] = status[j]
            /\ \A d \in Client, s \in Ended : Heard(d, j, s)' => Heard(d, j, s)
  PROVE  Agree' /\ Unheard'
<1>1. ASSUME NEW d \in Client, NEW i \in Job, NEW s \in Ended, Heard(d, i, s)'
      PROVE  status'[i] \in {s, "none"}
  BY <1>1 DEF Agree
<1>2. ASSUME NEW c \in Client, NEW i \in Job, Pending(c, i)'
      PROVE  status'[i] = "none" /\ \A d \in Client, s \in Ended : ~Heard(d, i, s)'
  <2>1. Pending(c, i)
    BY <1>2, PendingLess
  <2>2. status[i] = "none" /\ \A d \in Client, s \in Ended : ~Heard(d, i, s)
    BY <2>1 DEF Unheard
  <2> QED BY <1>2, <2>2
<1> QED BY <1>1, <1>2 DEF Agree, Unheard

\* A job that waits or runs has no end that anybody could have heard of, and its
\* submission has been handled.
LEMMA StillOpen ==
  ASSUME Typed, Agree, Unheard, [Next]_vars, NEW j \in Job, status[j] \in {"queued", "running"}
  PROVE  /\ \A d \in Client, s \in Ended : ~Heard(d, j, s)
         /\ \A d \in Client : ~Pending(d, j)'
<1>1. \A d \in Client, s \in Ended : ~Heard(d, j, s)
  BY DEF Agree
<1>2. \A d \in Client : ~Pending(d, j)'
  BY PendingLess DEF Unheard
<1> QED BY <1>1, <1>2

LEMMA QuietStep ==
  ASSUME Typed, Agree, Unheard, [Next]_vars, status' = status,
         \A d \in Client, i \in Job, s \in Ended : Heard(d, i, s)' => Heard(d, i, s)
  PROVE  Agree' /\ Unheard'
<1>1. Agree'
  BY DEF Agree
<1>2. Unheard'
  BY PendingLess DEF Unheard
<1> QED BY <1>1, <1>2

\* Which replies tell of an end.
LEMMA Outcomes ==
  /\ \A j, e : Outcome(Reply("JOB_FAILED", j, e)) = {e} /\ Outcome(Reply("JOB_RESULT", j, e)) = {e}
  /\ \A j, e : Outcome(Reply("JOB_ACCEPTED", j, e)) = {} /\ Outcome(Reply("JOB_LOG", j, e)) = {}
  /\ \A j, e : Outcome(Reply("JOB_STATUS", j, e)) = IF e \in Ended THEN {e} ELSE {}
  /\ \A t, j, e : Reply(t, j, e).job = j
BY DEF Outcome, Reply

\* That a job runs says nothing of its end.
LEMMA AssignAgrees ==
  ASSUME TypeInv, Agree, Unheard, [Next]_vars, NEW t \in Task, AssignReturns(t)
  PROVE  Agree' /\ Unheard'
<1> USE DEF TypeInv
<1>1. about[t] \in Job /\ push[about[t]] \in Client \cup {None}
  BY DEF AssignReturns, Typed, TasksTyped, JobsTyped
<1>2. Reply("JOB_ACCEPTED", about[t], "running") \in OutMail
  BY <1>1, RepliesTyped
<1>3. \A d \in Client, k \in Job, s \in Ended : Heard(d, k, s)' => Heard(d, k, s)
  BY <1>1, <1>2, HeardNotified, Outcomes DEF AssignReturns, clientVars
<1> QED BY <1>3, QuietStep DEF AssignReturns, jobVars

LEMMA AgreeSessions ==
  ASSUME TypeInv, Asking, Agree, Unheard, [Next]_vars, NEW c \in Client, Session(c)
  PROVE  Agree' /\ Unheard'
<1> DEFINE j == Head(in[c]).job
<1> USE DEF TypeInv
<1>0. ASSUME NEW type, Handles(c, type) PROVE j \in Job
  BY <1>0, InOps DEF Handles, InMail, Typed
<1>1. CASE Refuse(c)
  <2> DEFINE m == Reply("JOB_FAILED", j, "failed")
  <2>1. j \in Job /\ m \in OutMail
    BY <1>0, <1>1, RepliesTyped DEF Refuse
  <2>2. Pending(c, j)
    BY <1>1, <2>1, PendingHandled DEF Refuse, ReplyTo, clientVars
  <2>3. PICK i \in Job : i = j
    BY <2>1
  <2>4. \A d \in Client : ~Pending(d, i)'
    BY <1>1, <2>3, PendingHandled DEF Refuse, ReplyTo, clientVars
  <2>5. \A d \in Client : \A k, s : Heard(d, k, s)' => Heard(d, k, s) \/ (m.job = k /\ s \in Outcome(m))
    BY <1>1, <2>1, HeardSent DEF Refuse, ReplyTo, clientVars
  <2>6. status' = status /\ status'[i] = "none" /\ m.job = i
    BY <1>1, <2>2, <2>3, Outcomes DEF Refuse, jobVars, Unheard
  <2> HIDE DEF m
  <2> QED BY <2>4, <2>5, <2>6, OneTold
<1>2. CASE Submit(c)
  <2>0. Handles(c, "SUBMIT_JOB") /\ in' = [in EXCEPT ![c] = Tail(@)] /\ UNCHANGED <<client, answer>>
    BY <1>2 DEF Submit, clientVars
  <2>1. PICK i \in Job : i = j
    BY <1>0, <2>0
  <2>2. Pending(c, i) /\ \A d \in Client : ~Pending(d, i)'
    BY <2>0, <2>1, PendingHandled
  <2>3. \A d \in Client, s \in Ended : ~Heard(d, i, s)
    BY <2>2 DEF Unheard
  <2>4. \A k \in Job : k # i => status'[k] = status[k]
    BY <1>2, <2>1 DEF Submit, Typed, JobsTyped
  <2>5. \A d \in Client, k \in Job, s \in Ended :
          Heard(d, k, s)' => Heard(d, k, s) \/ (k = i /\ status'[i] \in {s, "none"})
    <3>1. CASE status' = [status EXCEPT ![i] = "failed"] /\ Notify(c, i, Reply("JOB_FAILED", i, "failed"), c)
      <4>1. Reply("JOB_FAILED", i, "failed") \in OutMail /\ status'[i] = "failed"
        BY <3>1, RepliesTyped DEF Typed, JobsTyped
      <4> QED BY <2>0, <3>1, <4>1, HeardNotified, Outcomes
    <3>2. CASE Notify(c, i, Reply("JOB_ACCEPTED", i, "queued"), c)
      <4>1. Reply("JOB_ACCEPTED", i, "queued") \in OutMail
        BY RepliesTyped
      <4> QED BY <2>0, <3>2, <4>1, HeardNotified, Outcomes
    <3>3. CASE UNCHANGED out
      BY <2>0, <3>3 DEF Heard
    <3> QED BY <1>2, <2>1, <3>1, <3>2, <3>3 DEF Submit
  <2> QED BY <2>2, <2>3, <2>4, <2>5, OneTold
<1>3. CASE AssignReturns(c)
  BY <1>3, AssignAgrees
<1>4. CASE AssignRaises(c) \/ SessionEnds(c) \/ ReplyReturns(c)
  <2>1. UNCHANGED <<status, out, answer>>
    BY <1>4 DEF AssignRaises, SessionEnds, ReplyReturns, jobVars, clientVars
  <2> QED BY <2>1, QuietStep DEF Heard
\* A reply to a question tells of the end, if it does, that the gateway keeps.
<1>5. ASSUME NEW i \in Job, NEW e \in {"unknown", "queued", "running", "cancelling"} \cup Ended,
             ReplyTo(c, Reply("JOB_STATUS", i, e)), answer' = answer,
             \A k \in Job : k # i => status'[k] = status[k],
             status'[i] = status[i] \/ status[i] = "queued",
             e \in Ended => status'[i] = e
      PROVE  Agree' /\ Unheard'
  <2> DEFINE m == Reply("JOB_STATUS", i, e)
  <2>1. m \in OutMail
    BY RepliesTyped
  <2>2. \A d \in Client : \A k, s : Heard(d, k, s)' => Heard(d, k, s) \/ (m.job = k /\ s \in Outcome(m))
    BY <1>5, <2>1, HeardSent DEF ReplyTo
  <2>3. CASE e \in Ended
    <3>1. \A d \in Client : ~Pending(d, i)'
      BY <1>5, <2>3, PendingLess, StillOpen DEF Unheard
    <3> QED BY <1>5, <2>2, <2>3, <3>1, Outcomes, OneTold, StillOpen
  <2>4. CASE e \notin Ended
    <3>1. \A d \in Client, k \in Job, s \in Ended : Heard(d, k, s)' => Heard(d, k, s)
      BY <2>2, <2>4, Outcomes
    <3>2. CASE status'[i] = status[i]
      BY <1>5, <3>1, <3>2, OneTold
    <3>3. CASE status[i] = "queued"
      BY <1>5, <3>1, <3>3, OneTold, StillOpen
    <3> QED BY <1>5, <3>2, <3>3
  <2> QED BY <2>3, <2>4
<1>6. CASE Get(c)
  <2>1. PICK i \in Job : i = j
    BY <1>0, <1>6 DEF Get
  <2>2. /\ status' = status /\ answer' = answer
        /\ ReplyTo(c, Reply("JOB_STATUS", i, IF status[i] = "none" THEN "unknown" ELSE status[i]))
    BY <1>6, <2>1 DEF Get, clientVars
  <2>3. status[i] \in {"none", "queued", "running"} \cup Ended
    BY DEF Typed, JobsTyped
  <2> QED BY <1>5, <2>2, <2>3
<1>7. CASE CancelJob(c)
  <2>1. PICK i \in Job : i = j
    BY <1>0, <1>7 DEF CancelJob
  <2> DEFINE now == IF status[i] = "queued" THEN "cancelled" ELSE status[i]
             said == CASE now = "none" -> "unknown" [] now = "running" -> "cancelling" [] OTHER -> now
  <2>2. /\ status' = [status EXCEPT ![i] = now] /\ answer' = answer
        /\ \/ ReplyTo(c, Reply("JOB_STATUS", i, said))
           \/ now = "running" /\ UNCHANGED out
    BY <1>7, <2>1 DEF CancelJob, clientVars
  <2>3. status[i] \in {"none", "queued", "running"} \cup Ended
    BY DEF Typed, JobsTyped
  <2>4. /\ status'[i] = now /\ \A k \in Job : k # i => status'[k] = status[k]
        /\ now \in {"none", "running"} \cup Ended
        /\ now = status[i] \/ status[i] = "queued"
    BY <2>2, <2>3 DEF Typed, JobsTyped
  <2>5. said \in {"unknown", "cancelling"} \cup Ended /\ (said \in Ended => said = now)
    BY <2>4
  <2>6. CASE ReplyTo(c, Reply("JOB_STATUS", i, said))
    <3> HIDE DEF said, now
    <3> QED BY <1>5, <2>2, <2>4, <2>5, <2>6
  <2>7. CASE now = "running" /\ UNCHANGED out
    <3>1. status' = status
      BY <2>2, <2>7 DEF Typed, JobsTyped
    <3> QED BY <2>2, <2>7, <3>1, QuietStep DEF Heard
  <2> QED BY <2>2, <2>6, <2>7
<1> QED BY <1>1, <1>2, <1>3, <1>4, <1>6, <1>7 DEF Session

LEMMA AgreeNodes ==
  ASSUME TypeInv, Agree, Unheard, [Next]_vars, NEW j \in Job,
         (\E t \in Drain : NodeStarts(t, j)) \/ NodeReturns(j) \/ NodeLogs(j) \/ NodeResults(j)
  PROVE  Agree' /\ Unheard'
<1> USE DEF TypeInv
<1>1. status[j] \in {"queued", "running"} /\ push[j] \in Client \cup {None} /\ answer' = answer
  BY DEF NodeStarts, NodeReturns, NodeLogs, NodeResults, clientVars, Typed, JobsTyped
<1>2. /\ \A d \in Client, s \in Ended : ~Heard(d, j, s)
      /\ \A d \in Client : ~Pending(d, j)'
  BY <1>1, StillOpen
<1>3. \A i \in Job : i # j => status'[i] = status[i]
  BY DEF NodeStarts, NodeReturns, NodeLogs, NodeResults, jobVars, Typed, JobsTyped
<1>4. \A d \in Client, i \in Job, s \in Ended :
        Heard(d, i, s)' => Heard(d, i, s) \/ (i = j /\ status'[j] \in {s, "none"})
  <2>1. CASE (\E t \in Drain : NodeStarts(t, j)) \/ NodeReturns(j)
    BY <1>1, <2>1 DEF NodeStarts, NodeReturns, Heard
  <2>2. CASE NodeLogs(j)
    <3>1. Reply("JOB_LOG", j, "running") \in OutMail
      BY RepliesTyped
    <3> QED BY <1>1, <2>2, <3>1, HeardNotified, Outcomes DEF NodeLogs
  <2>3. CASE NodeResults(j)
    <3>1. Reply("JOB_RESULT", j, "done") \in OutMail /\ status'[j] = "done"
      BY <2>3, RepliesTyped DEF NodeResults, Typed, JobsTyped
    <3> QED BY <1>1, <2>3, <3>1, HeardNotified, Outcomes DEF NodeResults
  <2> QED BY <2>1, <2>2, <2>3
<1> QED BY <1>2, <1>3, <1>4, OneTold

LEMMA AgreeKept == TypeInv /\ Asking /\ Agree /\ Unheard /\ [Next]_vars => Agree' /\ Unheard'
<1> SUFFICES ASSUME TypeInv, Asking, Agree, Unheard, [Next]_vars PROVE Agree' /\ Unheard'
  OBVIOUS
<1> USE DEF TypeInv
<1>1. CASE UNCHANGED <<status, out, answer>>
  BY <1>1, QuietStep DEF Heard
<1>2. ASSUME NEW c \in Client, Open(c) \/ ClientReads(c) \/ ClientLost(c) \/ LoseConnection(c)
      PROVE  Agree' /\ Unheard'
  <2>1. CASE Open(c) \/ ClientLost(c)
    BY <1>1, <2>1 DEF Open, ClientLost, jobVars
  <2>2. CASE ClientReads(c) \/ LoseConnection(c)
    BY <2>2, HeardByPrograms, QuietStep DEF ClientReads, LoseConnection, jobVars
  <2> QED BY <1>2, <2>1, <2>2
<1>3. ASSUME NEW t \in Task, Notifying(t) PROVE Agree' /\ Unheard'
  BY <1>1, <1>3 DEF Notifying, NotifyReturns, NotifyRaises, jobVars, clientVars
<1>4. CASE UNCHANGED vars
  BY <1>1, <1>4 DEF vars, jobVars, clientVars
<1>5. ASSUME NEW t \in Drain, Draining(t) PROVE Agree' /\ Unheard'
  BY <1>1, <1>5, AssignAgrees DEF Draining, DrainRaises, jobVars, clientVars
<1> QED BY <1>2, <1>3, <1>4, <1>5, AgreeSessions, AgreeNodes DEF Next

\* What a client asks and what it has heard of.
Told == Asking /\ Agree /\ Unheard

LEMMA SpecTold == Spec => []Told
<1>1. Init => Asking /\ Agree /\ Unheard
  <2> SUFFICES ASSUME Init PROVE Asking /\ Agree /\ Unheard
    OBVIOUS
  <2>1. Asking
    BY DEF Init, Asking
  <2>2. \A d \in Client, j \in Job, s \in Ended : ~Heard(d, j, s)
    <3> SUFFICES ASSUME NEW d \in Client, NEW j \in Job, NEW s \in Ended PROVE ~Heard(d, j, s)
      OBVIOUS
    <3>1. ~Tells(<<>>, j, s)
      BY DEF Tells
    <3>2. answer[d][j] = None /\ out[d] = <<>>
      BY DEF Init
    <3>3. answer[d][j] # s
      BY <3>2, NoneAssumption
    <3> QED BY <3>1, <3>2, <3>3 DEF Heard
  <2> QED BY <2>1, <2>2 DEF Init, Agree, Unheard
<1>2. Spec => []Asking
  BY <1>1, SpecTyped, AskingKept, PTL DEF Spec
<1>3. Spec => [](Agree /\ Unheard)
  BY <1>1, <1>2, SpecTyped, AgreeKept, PTL DEF Spec
<1> QED BY <1>2, <1>3, PTL DEF Told

\* Whatever a client has reported or will read is the outcome the gateway keeps, for
\* every interleaving of sends, cancellations, returns and losses (gateway.py:88,
\* 686-712, 880-901).
THEOREM OneOutcome == Spec => []AnswersAgree
<1>1. Told => Agree
  BY DEF Told
<1> QED BY <1>1, SpecTold, SpecTyped, AgreeMeans, PTL

----------------------------------------------------------------------------
(* Told once *)

\* A message tells of the end of j.
Speaks(m, j) == m.job = j /\ Outcome(m) # {}

Silent(ch, j) == \A i \in DOMAIN ch : ~Speaks(ch[i], j)
Single(ch, j) == \A i, k \in DOMAIN ch : Speaks(ch[i], j) /\ Speaks(ch[k], j) => i = k

\* Client c has not been told of the end of j, and nothing is on its way.
Deaf(c, j) == Silent(out[c], j) /\ answer[c][j] = None

\* It has been told, or will be, once at most.
Once(c, j) == Single(out[c], j) /\ (answer[c][j] # None => Silent(out[c], j))

\* While a client has still to ask, it has not been told, and nothing is pushed to it.
OnceInv ==
  \A c \in Client, j \in Job : Once(c, j) /\ (ToAsk(c, j) => Deaf(c, j) /\ push[j] # c)

\* What the ends of a channel do.
LEMMA SpeakOps ==
  ASSUME NEW S, NEW ch \in Seq(S), NEW m \in S, NEW j
  PROVE  /\ Silent(ch, j) /\ ~Speaks(m, j) => Silent(Append(ch, m), j)
         /\ Single(ch, j) /\ ~Speaks(m, j) => Single(Append(ch, m), j)
         /\ Silent(ch, j) => Single(Append(ch, m), j)
<1>1. /\ Len(ch) \in Nat /\ DOMAIN ch = 1 .. Len(ch) /\ DOMAIN Append(ch, m) = 1 .. Len(ch) + 1
      /\ \A i \in 1 .. Len(ch) : Append(ch, m)[i] = ch[i]
      /\ Append(ch, m)[Len(ch) + 1] = m
  BY LenProperties, AppendProperties
<1> DEFINE longer == Append(ch, m)
<1>2. \A i \in DOMAIN longer : (i \in DOMAIN ch /\ longer[i] = ch[i]) \/ (i = Len(ch) + 1 /\ longer[i] = m)
  BY <1>1
<1> HIDE DEF longer
<1>3. /\ Silent(ch, j) /\ ~Speaks(m, j) => Silent(longer, j)
      /\ Single(ch, j) /\ ~Speaks(m, j) => Single(longer, j)
      /\ Silent(ch, j) => Single(longer, j)
  BY <1>2 DEF Silent, Single
<1> QED BY <1>3 DEF longer

\* What is left of a channel tells no more than the channel.
LEMMA ShrinkSpeaks ==
  ASSUME NEW S, NEW ch \in Seq(S), NEW rest, NEW j,
         \/ rest = <<>> \/ (ch # <<>> /\ rest = Tail(ch))
         \/ \E n \in 0 .. Len(ch) : rest = SubSeq(ch, 1, n)
  PROVE  /\ Silent(ch, j) => Silent(rest, j)
         /\ Single(ch, j) => Single(rest, j)
<1>1. PICK k \in {0, 1} : \A i \in DOMAIN rest : i \in Nat /\ i + k \in DOMAIN ch /\ rest[i] = ch[i + k]
  BY ChannelShrinks
<1>2. \A i, h \in DOMAIN rest : i + k = h + k => i = h
  BY <1>1
<1>3. Silent(ch, j) => Silent(rest, j)
  BY <1>1 DEF Silent
<1>4. Single(ch, j) => Single(rest, j)
  BY <1>1, <1>2 DEF Single
<1> QED BY <1>3, <1>4

\* When the one message that tells is read, the rest is silent.
LEMMA SpokenFirst ==
  ASSUME NEW S, NEW ch \in Seq(S), ch # <<>>, NEW j, Speaks(Head(ch), j)
  PROVE  ~Silent(ch, j) /\ (Single(ch, j) => Silent(Tail(ch), j))
<1>1. /\ Len(ch) \in Nat \ {0} /\ DOMAIN ch = 1 .. Len(ch) /\ ch[1] = Head(ch)
  BY LenProperties, EmptySeq
<1>2. /\ DOMAIN Tail(ch) = 1 .. Len(ch) - 1
      /\ \A i \in 1 .. Len(ch) - 1 : Tail(ch)[i] = ch[i + 1]
  BY HeadTailProperties, LenProperties
<1>3. 1 \in DOMAIN ch
  BY <1>1
<1>4. ~Silent(ch, j)
  BY <1>1, <1>3 DEF Silent
<1>5. \A i \in DOMAIN Tail(ch) : i + 1 \in DOMAIN ch /\ i + 1 # 1 /\ Tail(ch)[i] = ch[i + 1]
  BY <1>1, <1>2
<1>6. Single(ch, j) => Silent(Tail(ch), j)
  BY <1>1, <1>3, <1>5 DEF Single, Silent
<1> QED BY <1>4, <1>6

\* Who has heard of no end is deaf.
LEMMA UnheardIsDeaf ==
  ASSUME Typed, NEW c \in Client, NEW j \in Job, \A s \in Ended : ~Heard(c, j, s)
  PROVE  Deaf(c, j)
<1>1. answer[c][j] = None
  BY DEF Typed, ProgramsTyped, Heard
<1>2. ASSUME NEW i \in DOMAIN out[c], Speaks(out[c][i], j) PROVE FALSE
  <2>1. out[c][i] \in OutMail
    BY <1>2, ElementOfSeq, LenProperties DEF Typed, OutTyped
  <2>2. PICK s : s \in Outcome(out[c][i])
    BY <1>2 DEF Speaks
  <2> QED BY <1>2, <2>1, <2>2, OutcomeEnds DEF Heard, Tells, Speaks
<1> QED BY <1>1, <1>2 DEF Deaf, Silent

\* A message may make its addressee hear of the job it is about, and changes nothing else.
LEMMA OnceSent ==
  ASSUME Typed, NEW c \in Client, NEW m \in OutMail, Deliver(c, m), answer' = answer,
         NEW d \in Client, NEW j \in Job
  PROVE  /\ d # c \/ ~Speaks(m, j) => (Once(d, j) => Once(d, j)') /\ (Deaf(d, j) => Deaf(d, j)')
         /\ Deaf(d, j) => Once(d, j)'
<1>1. out[d] \in Seq(OutMail)
  BY DEF Typed, OutTyped
<1>2. out'[d] = out[d] \/ (d = c /\ out'[d] = Append(out[d], m))
  BY DEF Deliver, Typed, OutTyped
<1>3. CASE out'[d] = out[d]
  BY <1>3 DEF Once, Deaf, Silent, Single
<1>4. CASE d = c /\ out'[d] = Append(out[d], m)
  BY <1>1, <1>4, SpeakOps DEF Once, Deaf
<1> QED BY <1>2, <1>3, <1>4

LEMMA OnceNotified ==
  ASSUME Typed, NEW t, NEW i, NEW m \in OutMail, NEW target \in Client \cup {None},
         Notify(t, i, m, target), answer' = answer, NEW d \in Client, NEW j \in Job
  PROVE  /\ d # target \/ ~Speaks(m, j) => (Once(d, j) => Once(d, j)') /\ (Deaf(d, j) => Deaf(d, j)')
         /\ Deaf(d, j) => Once(d, j)'
<1>1. CASE target = None
  BY <1>1 DEF Notify, Once, Deaf, Silent, Single
<1>2. CASE target # None
  BY <1>2, OnceSent DEF Notify
<1> QED BY <1>1, <1>2

\* Reading moves what was told from the channel to the answer.
LEMMA OnceRead ==
  ASSUME Typed, NEW c \in Client, ClientReads(c), NEW d \in Client, NEW j \in Job
  PROVE  (Once(d, j) => Once(d, j)') /\ (Deaf(d, j) => Deaf(d, j)')
<1> DEFINE m == Head(out[c])
<1>1. /\ out[d] \in Seq(OutMail) /\ out[c] # <<>>
      /\ answer \in [Client -> [Job -> Ended \cup {None}]]
  BY DEF ClientReads, Typed, OutTyped, ProgramsTyped
<1>2. IF d = c THEN out'[d] \in {<<>>, Tail(out[d])} ELSE out'[d] = out[d]
  <2>1. Return(c) \/ GoOn(c)
    BY DEF ClientReads, SubmitReads, WaitReads, CancelReads
  <2> QED BY <2>1 DEF Return, GoOn, Typed, OutTyped
<1>3. /\ d # c => answer'[d] = answer[d] /\ out'[d] = out[d]
      /\ d = c => \/ answer' = answer
                  \/ answer' = [answer EXCEPT ![d][m.job] = m.status] /\ Outcome(m) # {}
  <2>1. \/ answer' = answer
        \/ answer' = [answer EXCEPT ![c][m.job] = m.status] /\ Outcome(m) # {}
    BY DEF ClientReads, SubmitReads, WaitReads, CancelReads, Outcome
  <2> QED BY <1>1, <1>2, <2>1
<1>4. CASE d # c
  BY <1>3, <1>4 DEF Once, Deaf, Silent, Single
<1>5. ASSUME d = c
      PROVE  /\ Silent(out[d], j) => Silent(out[d], j)'
             /\ Single(out[d], j) => Single(out[d], j)'
             /\ Speaks(m, j) => ~Silent(out[d], j) /\ (Single(out[d], j) => Silent(out[d], j)')
  <2>1. /\ Silent(out[d], j) => Silent(out'[d], j)
        /\ Single(out[d], j) => Single(out'[d], j)
    BY <1>1, <1>2, <1>5, ShrinkSpeaks
  <2>2. Silent(<<>>, j)
    BY DEF Silent
  <2>3. Speaks(m, j) => ~Silent(out[d], j) /\ (Single(out[d], j) => Silent(Tail(out[d]), j))
    BY <1>1, <1>5, SpokenFirst
  <2>4. (Silent(out[d], j)' <=> Silent(out'[d], j)) /\ (Single(out[d], j)' <=> Single(out'[d], j))
    BY DEF Silent, Single
  <2> QED BY <1>2, <1>5, <2>1, <2>2, <2>3, <2>4
<1>6. CASE d = c /\ answer'[d][j] = answer[d][j]
  BY <1>5, <1>6 DEF Once, Deaf
<1>7. CASE d = c /\ answer'[d][j] # answer[d][j]
  <2>1. Speaks(m, j)
    BY <1>1, <1>3, <1>7 DEF Speaks
  <2> QED BY <1>5, <1>7, <2>1 DEF Once, Deaf
<1> QED BY <1>4, <1>6, <1>7

LEMMA OnceLost ==
  ASSUME Typed, NEW c \in Client, LoseConnection(c), NEW d \in Client, NEW j \in Job
  PROVE  (Once(d, j) => Once(d, j)') /\ (Deaf(d, j) => Deaf(d, j)')
<1>1. PICK n \in 0 .. Len(out[c]) : out' = [out EXCEPT ![c] = SubSeq(@, 1, n)]
  BY DEF LoseConnection
<1>2. out[d] \in Seq(OutMail) /\ answer' = answer
  BY DEF LoseConnection, clientVars, Typed, OutTyped
<1>3. CASE out'[d] = out[d]
  BY <1>2, <1>3 DEF Once, Deaf, Silent, Single
<1>4. CASE d = c
  <2>1. out'[d] = SubSeq(out[d], 1, n) /\ n \in 0 .. Len(out[d])
    BY <1>1, <1>4 DEF Typed, OutTyped
  <2>2. /\ Silent(out[d], j) => Silent(out'[d], j)
        /\ Single(out[d], j) => Single(out'[d], j)
    BY <1>2, <2>1, ShrinkSpeaks
  <2>3. (Silent(out[d], j)' <=> Silent(out'[d], j)) /\ (Single(out[d], j)' <=> Single(out'[d], j))
    BY DEF Silent, Single
  <2> QED BY <1>2, <2>2, <2>3 DEF Once, Deaf
<1> QED BY <1>1, <1>3, <1>4 DEF Typed, OutTyped

\* Whoever is told anew was deaf and has nothing more to ask.
LEMMA OnceStep ==
  ASSUME Typed, OnceInv, [Next]_vars,
         \A c \in Client, j \in Job :
           \/ (Once(c, j) => Once(c, j)') /\ (Deaf(c, j) => Deaf(c, j)')
           \/ Once(c, j)' /\ ~ToAsk(c, j)',
         \A c \in Client, j \in Job : push'[j] = c => push[j] = c \/ ~ToAsk(c, j)'
  PROVE  OnceInv'
<1> SUFFICES ASSUME NEW c \in Client, NEW j \in Job
             PROVE  Once(c, j)' /\ (ToAsk(c, j)' => Deaf(c, j)' /\ push'[j] # c)
  BY DEF OnceInv
<1>1. Once(c, j) /\ (ToAsk(c, j) => Deaf(c, j) /\ push[j] # c)
  BY DEF OnceInv
<1>2. ToAsk(c, j)' => ToAsk(c, j)
  BY ToAskLess
<1> QED BY <1>1, <1>2

\* A session ends or nothing is told: no target is new.
LEMMA OnceQuiet ==
  ASSUME Typed, OnceInv, [Next]_vars, UNCHANGED <<out, answer>>,
         \A j \in Job : push'[j] \in {push[j], None}
  PROVE  OnceInv'
<1>1. \A c \in Client, j \in Job : (Once(c, j) => Once(c, j)') /\ (Deaf(c, j) => Deaf(c, j)')
  BY DEF Once, Deaf, Silent, Single
<1>2. \A c \in Client, j \in Job : push'[j] = c => push[j] = c
  BY ClientsAssumption
<1> QED BY <1>1, <1>2, OnceStep

LEMMA AssignOnce ==
  ASSUME TypeInv, OnceInv, [Next]_vars, NEW t \in Task, AssignReturns(t)
  PROVE  OnceInv'
<1> USE DEF TypeInv
<1>1. /\ about[t] \in Job /\ push[about[t]] \in Client \cup {None}
      /\ push' = push /\ answer' = answer
      /\ Notify(t, about[t], Reply("JOB_ACCEPTED", about[t], "running"), push[about[t]])
  BY DEF AssignReturns, Typed, TasksTyped, JobsTyped, jobVars, clientVars
<1>2. Reply("JOB_ACCEPTED", about[t], "running") \in OutMail
  BY <1>1, RepliesTyped
<1>3. \A k \in Job : ~Speaks(Reply("JOB_ACCEPTED", about[t], "running"), k)
  BY Outcomes DEF Speaks
<1>4. \A d \in Client, k \in Job : (Once(d, k) => Once(d, k)') /\ (Deaf(d, k) => Deaf(d, k)')
  BY <1>1, <1>2, <1>3, OnceNotified
<1> QED BY <1>1, <1>4, OnceStep

LEMMA OnceSessions ==
  ASSUME TypeInv, Asking, OnceInv, [Next]_vars, NEW c \in Client, Session(c)
  PROVE  OnceInv'
<1> DEFINE j == Head(in[c]).job
<1> USE DEF TypeInv
<1>0. ASSUME NEW type, Handles(c, type) PROVE j \in Job
  BY <1>0, InOps DEF Handles, InMail, Typed
\* A request is handled with a message to whoever asked, who may become the target.
<1>1. ASSUME NEW i \in Job, NEW m \in OutMail, m.job = i, answer' = answer,
             ToAsk(c, i) /\ ~ToAsk(c, i)',
             \A d \in Client, k \in Job :
               /\ d # c \/ ~Speaks(m, k) => (Once(d, k) => Once(d, k)') /\ (Deaf(d, k) => Deaf(d, k)')
               /\ Deaf(d, k) => Once(d, k)',
             push' = push \/ push' = [push EXCEPT ![i] = c]
      PROVE  OnceInv'
  <2>1. Deaf(c, i)
    BY <1>1 DEF OnceInv
  <2>2. \A d \in Client, k \in Job :
          \/ (Once(d, k) => Once(d, k)') /\ (Deaf(d, k) => Deaf(d, k)')
          \/ Once(d, k)' /\ ~ToAsk(d, k)'
    BY <1>1, <2>1 DEF Speaks
  <2>3. \A d \in Client, k \in Job : push'[k] = d => push[k] = d \/ ~ToAsk(d, k)'
    BY <1>1 DEF Typed, JobsTyped
  <2> QED BY <2>2, <2>3, OnceStep
<1>2. ASSUME NEW type, Handles(c, type), in' = [in EXCEPT ![c] = Tail(@)], client' = client
      PROVE  \E i \in Job : i = j /\ ToAsk(c, i) /\ ~ToAsk(c, i)'
  BY <1>0, <1>2, AskHandled
<1>3. ASSUME NEW i \in Job, NEW m \in OutMail, m.job = i, ReplyTo(c, m), answer' = answer,
             ToAsk(c, i) /\ ~ToAsk(c, i)', push' = push \/ push' = [push EXCEPT ![i] = c]
      PROVE  OnceInv'
  BY <1>1, <1>3, OnceSent DEF ReplyTo
<1>4. CASE Refuse(c)
  <2>1. PICK i \in Job : i = j /\ ToAsk(c, i) /\ ~ToAsk(c, i)'
    BY <1>2, <1>4 DEF Refuse, ReplyTo, clientVars
  <2>2. Reply("JOB_FAILED", i, "failed") \in OutMail
    BY RepliesTyped
  <2> QED BY <1>3, <1>4, <2>1, <2>2, Outcomes DEF Refuse, jobVars, clientVars
<1>5. CASE Submit(c)
  <2>1. PICK i \in Job : i = j /\ ToAsk(c, i) /\ ~ToAsk(c, i)'
    BY <1>2, <1>5 DEF Submit, clientVars
  <2>2. push' = [push EXCEPT ![i] = c] /\ answer' = answer
    BY <1>5, <2>1 DEF Submit, clientVars
  <2>3. ASSUME NEW m \in OutMail, m.job = i, Notify(c, i, m, c) PROVE OnceInv'
    <3>1. \A d \in Client, k \in Job :
            /\ d # c \/ ~Speaks(m, k) => (Once(d, k) => Once(d, k)') /\ (Deaf(d, k) => Deaf(d, k)')
            /\ Deaf(d, k) => Once(d, k)'
      BY <2>2, <2>3, OnceNotified
    <3> QED BY <1>1, <2>1, <2>2, <2>3, <3>1
  <2>4. CASE UNCHANGED out
    <3>1. \A d \in Client, k \in Job : (Once(d, k) => Once(d, k)') /\ (Deaf(d, k) => Deaf(d, k)')
      BY <2>2, <2>4 DEF Once, Deaf, Silent, Single
    <3>2. \A d \in Client, k \in Job : push'[k] = d => push[k] = d \/ ~ToAsk(d, k)'
      BY <2>1, <2>2 DEF Typed, JobsTyped
    <3> QED BY <3>1, <3>2, OnceStep
  <2>5. /\ Reply("JOB_FAILED", i, "failed") \in OutMail /\ Reply("JOB_FAILED", i, "failed").job = i
        /\ Reply("JOB_ACCEPTED", i, "queued") \in OutMail /\ Reply("JOB_ACCEPTED", i, "queued").job = i
    BY RepliesTyped, Outcomes
  <2> QED BY <1>5, <2>1, <2>3, <2>4, <2>5 DEF Submit
<1>6. CASE AssignReturns(c)
  BY <1>6, AssignOnce
<1>7. CASE AssignRaises(c) \/ SessionEnds(c) \/ ReplyReturns(c)
  BY <1>7, OnceQuiet DEF AssignRaises, SessionEnds, ReplyReturns, SessionOver, jobVars, clientVars
<1>8. CASE Get(c)
  <2>1. PICK i \in Job : i = j /\ ToAsk(c, i) /\ ~ToAsk(c, i)'
    BY <1>2, <1>8 DEF Get, ReplyTo, clientVars
  <2> DEFINE e == IF status[i] = "none" THEN "unknown" ELSE status[i]
  <2>2. e \in {"unknown", "queued", "running", "cancelling"} \cup Ended
    BY DEF Typed, JobsTyped
  <2>3. /\ ReplyTo(c, Reply("JOB_STATUS", i, e)) /\ answer' = answer
        /\ push' = push \/ push' = [push EXCEPT ![i] = c]
    BY <1>8, <2>1 DEF Get, clientVars
  <2> HIDE DEF e
  <2>4. Reply("JOB_STATUS", i, e) \in OutMail
    BY <2>2, RepliesTyped
  <2> QED BY <1>3, <2>1, <2>3, <2>4, Outcomes
<1>9. CASE CancelJob(c)
  <2>1. answer' = answer /\ Handles(c, "CANCEL_JOB") /\ client' = client
    BY <1>9 DEF CancelJob, clientVars
  <2>2. PICK i \in Job : i = j
    BY <1>0, <2>1
  <2> DEFINE now == IF status[i] = "queued" THEN "cancelled" ELSE status[i]
             said == CASE now = "none" -> "unknown" [] now = "running" -> "cancelling" [] OTHER -> now
  <2>3. \/ ReplyTo(c, Reply("JOB_STATUS", i, said)) /\ push' = push
        \/ SessionOver(c) /\ UNCHANGED out
    BY <1>9, <2>2 DEF CancelJob
  <2>4. said \in {"unknown", "queued", "running", "cancelling"} \cup Ended
    BY DEF Typed, JobsTyped
  <2> HIDE DEF said
  <2>5. CASE ReplyTo(c, Reply("JOB_STATUS", i, said)) /\ push' = push
    <3>1. ToAsk(c, i) /\ ~ToAsk(c, i)'
      BY <2>1, <2>2, <2>5, AskHandled DEF ReplyTo
    <3>2. Reply("JOB_STATUS", i, said) \in OutMail
      BY <2>4, RepliesTyped
    <3> QED BY <1>3, <2>1, <2>5, <3>1, <3>2, Outcomes
  <2>6. CASE SessionOver(c) /\ UNCHANGED out
    BY <2>1, <2>6, OnceQuiet DEF SessionOver
  <2> QED BY <2>3, <2>5, <2>6
<1> QED BY <1>4, <1>5, <1>6, <1>7, <1>8, <1>9 DEF Session

\* A result is told while nobody has heard of an end, to a target that has asked.
LEMMA OnceNodes ==
  ASSUME TypeInv, Agree, Unheard, OnceInv, [Next]_vars, NEW j \in Job,
         (\E t \in Drain : NodeStarts(t, j)) \/ NodeReturns(j) \/ NodeLogs(j) \/ NodeResults(j)
  PROVE  OnceInv'
<1> USE DEF TypeInv
<1>1. /\ status[j] \in {"queued", "running"} /\ push[j] \in Client \cup {None}
      /\ UNCHANGED <<push, answer>>
  BY DEF NodeStarts, NodeReturns, NodeLogs, NodeResults, jobVars, clientVars, Typed, JobsTyped
<1>2. CASE (\E t \in Drain : NodeStarts(t, j)) \/ NodeReturns(j)
  BY <1>1, <1>2, OnceQuiet DEF NodeStarts, NodeReturns
<1>3. ASSUME NEW m \in OutMail, m.job = j, Notify(j, j, m, push[j])
      PROVE  OnceInv'
  <2>1. \A d \in Client : Deaf(d, j)
    BY <1>1, StillOpen, UnheardIsDeaf
  <2>2. ASSUME NEW d \in Client, NEW k \in Job
        PROVE  \/ (Once(d, k) => Once(d, k)') /\ (Deaf(d, k) => Deaf(d, k)')
               \/ Once(d, k)' /\ ~ToAsk(d, k)'
    <3>1. CASE d # push[j] \/ ~Speaks(m, k)
      BY <1>1, <1>3, <3>1, OnceNotified
    <3>2. CASE d = push[j] /\ Speaks(m, k)
      <4>1. k = j /\ ~ToAsk(d, k)
        BY <1>3, <3>2 DEF Speaks, OnceInv
      <4>2. ~ToAsk(d, k)'
        BY <4>1, ToAskLess
      <4> QED BY <1>1, <1>3, <2>1, <4>1, <4>2, OnceNotified
    <3> QED BY <3>1, <3>2
  <2> QED BY <1>1, <2>2, OnceStep
<1>4. CASE NodeLogs(j) \/ NodeResults(j)
  <2>1. PICK m \in OutMail : m.job = j /\ Notify(j, j, m, push[j])
    BY <1>4, RepliesTyped, Outcomes DEF NodeLogs, NodeResults
  <2> QED BY <1>3, <2>1
<1> QED BY <1>2, <1>4

LEMMA OnceKept ==
  TypeInv /\ Asking /\ Agree /\ Unheard /\ OnceInv /\ [Next]_vars => OnceInv'
<1> SUFFICES ASSUME TypeInv, Asking, Agree, Unheard, OnceInv, [Next]_vars PROVE OnceInv'
  OBVIOUS
<1> USE DEF TypeInv
<1>1. ASSUME NEW c \in Client, Open(c) \/ ClientLost(c) PROVE OnceInv'
  BY <1>1, OnceQuiet DEF Open, ClientLost, jobVars
<1>2. ASSUME NEW c \in Client, ClientReads(c) \/ LoseConnection(c) PROVE OnceInv'
  <2>1. \A d \in Client, j \in Job : (Once(d, j) => Once(d, j)') /\ (Deaf(d, j) => Deaf(d, j)')
    BY <1>2, OnceRead, OnceLost
  <2>2. push' = push
    BY <1>2 DEF ClientReads, LoseConnection, jobVars
  <2> QED BY <2>1, <2>2, OnceStep
<1>3. ASSUME NEW t \in Task, Notifying(t) PROVE OnceInv'
  <2>1. UNCHANGED <<out, answer>>
    BY <1>3 DEF Notifying, NotifyReturns, NotifyRaises, clientVars
  <2>2. \A j \in Job : push'[j] \in {push[j], None}
    BY <1>3 DEF Notifying, NotifyReturns, NotifyRaises, jobVars, Typed, JobsTyped
  <2> QED BY <2>1, <2>2, OnceQuiet
<1>4. CASE UNCHANGED vars
  BY <1>4, OnceQuiet DEF vars, jobVars, clientVars
<1>5. ASSUME NEW t \in Drain, Draining(t) PROVE OnceInv'
  BY <1>5, AssignOnce, OnceQuiet DEF Draining, DrainRaises, jobVars, clientVars
<1> QED BY <1>1, <1>2, <1>3, <1>4, <1>5, OnceSessions, OnceNodes DEF Next

\* Once means what ToldOnce counts.
LEMMA OnceMeans == TypeInv /\ OnceInv => ToldOnce
<1> SUFFICES ASSUME TypeInv, OnceInv, NEW c \in Client, NEW j \in Job
             PROVE  Cardinality({i \in DOMAIN out[c] : out[c][i].job = j /\ Outcome(out[c][i]) # {}})
                      + (IF answer[c][j] # None THEN 1 ELSE 0) <= 1
  BY DEF ToldOnce
<1> DEFINE P == {i \in DOMAIN out[c] : Speaks(out[c][i], j)}
<1>1. \A i, k \in P : i = k
  BY DEF OnceInv, Once, Single
<1>2. answer[c][j] # None => P = {}
  BY DEF OnceInv, Once, Silent
<1>3. CASE P = {}
  BY <1>3, FS_EmptySet DEF Speaks
<1>4. CASE P # {}
  <2>1. PICK i : P = {i}
    BY <1>1, <1>4
  <2>2. Cardinality(P) = 1
    BY <2>1, FS_Singleton
  <2> QED BY <1>2, <1>4, <2>2 DEF Speaks
<1> QED BY <1>3, <1>4

\* No connection is told of a job's end twice: not by the reply to its question and by the
\* push that overtakes it, nor as submitter and as target (gateway.py:686-712, 880-901).
THEOREM EndToldOnce == Spec => []ToldOnce
<1>1. Init => OnceInv
  <2> SUFFICES ASSUME Init, NEW c \in Client, NEW j \in Job
               PROVE  Once(c, j) /\ Deaf(c, j) /\ push[j] # c
    BY DEF OnceInv
  <2>1. out[c] = <<>> /\ answer[c][j] = None /\ push[j] = None
    BY DEF Init
  <2>2. Silent(<<>>, j) /\ Single(<<>>, j)
    BY DEF Silent, Single
  <2> QED BY <2>1, <2>2, ClientsAssumption DEF Once, Deaf
<1>2. Spec => []Told
  BY SpecTold
<1> QED BY <1>1, <1>2, SpecTyped, OnceKept, OnceMeans, PTL DEF Spec, Told

=============================================================================
