--------------------------- MODULE GatewayProofs ---------------------------
(***************************************************************************)
(* Theorems about the dispatcher of src/gateway.py, for any number of      *)
(* devices, connections and jobs.  TypeCorrect is proved first; every      *)
(* other proof uses it.  That the result store is exact, that a job waits  *)
(* in one place and that the dispatcher implements JobLifecycle rest on    *)
(* the same inductive invariant, for devices whose sessions do not         *)
(* overlap.                                                                *)
(***************************************************************************)
EXTENDS Gateway, TLAPS, SequenceTheorems, WellFoundedInduction, FiniteSetTheorems

USE DEF Task, Terminal, Status

\* Taking the head of a queue leaves a queue.
LEMMA HeadTailType ==
  ASSUME NEW S, NEW q \in Seq(S), q # <<>>
  PROVE  Head(q) \in S /\ Tail(q) \in Seq(S)
  BY HeadTailProperties

\* Every non-empty set of positions has a first one.
LEMMA FirstPosition ==
  ASSUME NEW n \in Nat, NEW I \in SUBSET (1..n), I # {}
  PROVE  Min(I) \in I /\ \A i \in I : Min(I) <= i
<1> DEFINE R == {p \in Nat \X Nat : p[1] < p[2]}
<1>1. IsWellFoundedOn(R, Nat)
  <2>1. R = OpToRel(<, Nat)
    BY Zenon DEF OpToRel
  <2> QED BY <2>1, NatLessThanWellFounded
<1>2. I \subseteq Nat
  OBVIOUS
<1>3. PICK x \in I : \A y \in I : ~(<<y, x>> \in R)
  <2> HIDE DEF R
  <2> QED BY <1>1, <1>2, WFMin, Zenon
<1>4. \A y \in I : x <= y
  <2> TAKE y \in I
  <2>1. <<y, x>> \in Nat \X Nat /\ ~(y < x)
    BY <1>2, <1>3
  <2> QED BY <2>1
<1> QED BY <1>4 DEF Min

\* deque.remove leaves a queue, one position shorter if the element was there.
LEMMA RemoveFirstType ==
  ASSUME NEW S, NEW q \in Seq(S), NEW e
  PROVE  RemoveFirst(q, e) \in Seq(S)
<1> DEFINE I == {i \in 1..Len(q) : q[i] = e}
<1>1. CASE I = {}
  BY <1>1 DEF RemoveFirst
<1>2. CASE I # {}
  <2>1. SelectInSeq(q, LAMBDA v : v = e) = Min(I)
    BY <1>2 DEF SelectInSeq
  <2>2. Min(I) \in 1..Len(q)
    <3>1. Len(q) \in Nat /\ I \in SUBSET (1..Len(q))
      OBVIOUS
    <3> HIDE DEF I
    <3> QED BY <1>2, <3>1, FirstPosition
  <2>3. RemoveFirst(q, e) = SubSeq(q, 1, Min(I) - 1) \o SubSeq(q, Min(I) + 1, Len(q))
    BY <1>2, <2>1 DEF RemoveFirst, RemoveAt
  <2> HIDE DEF I
  <2> QED BY <2>2, <2>3, SubSeqProperties, ConcatProperties
<1> QED BY <1>1, <1>2

----------------------------------------------------------------------------
(* Type correctness *)

\* What Finish leaves has its type.
LEMMA FinishType ==
  ASSUME TypeOK, NEW j \in Job, NEW outcome \in Terminal, Finish(j, outcome)
  PROVE  /\ active' \in SUBSET Job
         /\ doneOrder' \in Seq(Job)
         /\ status' \in [Job -> Status]
<1> DEFINE done == Append(doneOrder, j)
           ended == [status EXCEPT ![j] = outcome]
<1>1. active' \in SUBSET Job
  BY DEF TypeOK, Finish
<1>2. done \in Seq(Job) /\ done # <<>> /\ ended \in [Job -> Status]
  <2>1. doneOrder \in Seq(Job) /\ status \in [Job -> Status]
    BY DEF TypeOK
  <2>2. done \in Seq(Job) /\ Len(done) = Len(doneOrder) + 1
    BY <2>1, AppendProperties
  <2>3. done # <<>>
    BY <2>1, <2>2, LenProperties
  <2> QED BY <2>1, <2>2, <2>3
<1>3. Head(done) \in Job /\ Tail(done) \in Seq(Job)
  BY <1>2, HeadTailType
<1> HIDE DEF done, ended
<1>4. /\ doneOrder' \in {done, Tail(done)}
      /\ status' \in {ended, [ended EXCEPT ![Head(done)] = "forgotten"]}
  BY DEF Finish, done, ended
<1> QED BY <1>1, <1>2, <1>3, <1>4

\* What Requeue leaves has its type.
LEMMA RequeueType ==
  ASSUME TypeOK, NEW j \in Job, NEW d \in Device, Requeue(j, d)
  PROVE  /\ busy' \in [Session -> Job \cup {None}]
         /\ active' \in SUBSET Job
         /\ tried' \in [Job -> SUBSET Device]
         /\ status' \in [Job -> Status]
         /\ nodeOf' \in [Job -> Device \cup {None}]
         /\ queue' \in Seq(Job)
  BY DEF TypeOK, Requeue

\* What Assign leaves has its type.
LEMMA AssignType ==
  ASSUME TypeOK, NEW j \in Job, NEW s \in Session, Assign(j, s)
  PROVE  /\ busy' \in [Session -> Job \cup {None}]
         /\ held' \in [Session -> Job \cup {None}]
         /\ active' \in SUBSET Job
         /\ tried' \in [Job -> SUBSET Device]
         /\ status' \in [Job -> Status]
         /\ nodeOf' \in [Job -> Device \cup {None}]
  BY DeviceOfAssumption DEF TypeOK, Assign

\* The initial state is type correct.
LEMMA InitTypeOK == Init => TypeOK
  BY DEF Init, TypeOK

\* A step of a drain keeps the types.
LEMMA DrainTypeOK ==
  ASSUME TypeOK, NEW t \in Task
  PROVE  /\ DrainStep(t) => TypeOK'
         /\ DrainEnds(t) => TypeOK'
         /\ SendReturns(t) => TypeOK'
         /\ SendRaises(t) => TypeOK'
<1>1. ASSUME DrainStep(t) PROVE TypeOK'
  <2> DEFINE j == Head(queue)
  <2>1. j \in Job /\ queue' \in Seq(Job)
    BY <1>1, HeadTailType DEF DrainStep, TypeOK
  <2> HIDE DEF j
  <2>2. CASE UNCHANGED <<jobVars, pc, dest>>
    <3>1. remaining' \in {remaining, [remaining EXCEPT ![t] = Append(@, j)]}
      BY <1>1 DEF DrainStep, j
    <3>2. Append(remaining[t], j) \in Seq(Job)
      BY <2>1, AppendProperties DEF TypeOK
    <3>3. remaining' \in [Task -> Seq(Job)]
      BY <3>1, <3>2 DEF TypeOK
    <3>4. loop' \in Task \cup {None} /\ UNCHANGED netVars
      BY <1>1 DEF DrainStep
    <3> QED BY <2>1, <2>2, <3>3, <3>4 DEF TypeOK, netVars, jobVars
  <2>3. CASE \E s \in Candidates(j) :
               /\ Assign(j, s)
               /\ dest' = [dest EXCEPT ![t] = s]
               /\ pc' = [pc EXCEPT ![t] = "send"]
               /\ loop' = None
               /\ UNCHANGED <<doneOrder, remaining, netVars>>
    <3>1. PICK s \in Session :
               /\ Assign(j, s)
               /\ dest' = [dest EXCEPT ![t] = s]
               /\ pc' = [pc EXCEPT ![t] = "send"]
               /\ loop' = None
               /\ UNCHANGED <<doneOrder, remaining, netVars>>
      BY <2>3 DEF Candidates
    <3>2. /\ dest' \in [Task -> Session \cup {None}]
          /\ pc' \in [Task -> {"idle", "push", "drain", "send", "report"}]
          /\ \A u \in Task : pc'[u] = "send" => dest'[u] # None
      BY <3>1, DevicesAssumption DEF TypeOK
    <3> QED BY <2>1, <3>1, <3>2, AssignType DEF TypeOK, netVars
  <2> QED BY <1>1, <2>2, <2>3 DEF DrainStep, j
<1>2. ASSUME DrainEnds(t) PROVE TypeOK'
  BY <1>2 DEF DrainEnds, AfterDrain, HandlerReturns, TypeOK, jobVars
<1>3. ASSUME SendReturns(t) PROVE TypeOK'
  BY <1>3 DEF SendReturns, TypeOK, netVars, jobVars
<1>4. ASSUME SendRaises(t) PROVE TypeOK'
  <2>1. /\ remaining' \in [Task -> Seq(Job)]
        /\ dest' = [dest EXCEPT ![t] = None]
        /\ UNCHANGED <<jobVars, queue>>
    BY <1>4, EmptySeq DEF SendRaises, TypeOK
  <2>2. dest' \in [Task -> Session \cup {None}]
    BY <2>1 DEF TypeOK
  <2>3. CASE t = Poll
    BY <1>4, <2>1, <2>2, <2>3 DEF SendRaises, TypeOK, netVars, jobVars
  <2>4. CASE t # Poll /\ phase[t] = "serving"
    <3>1. Teardown(t) /\ t \in Session
      BY <1>4, <2>4 DEF SendRaises
    <3>2. /\ nodes' \in [Device -> Session \cup {None}]
          /\ phase' \in [Session -> {"new", "registering", "serving", "closing", "over"}]
          /\ pc' = [pc EXCEPT ![t] = "report"]
          /\ loop' \in Task \cup {None}
          /\ UNCHANGED <<up, available>>
      BY <3>1, DeviceOfAssumption DEF Teardown, TypeOK
    <3>3. /\ pc' \in [Task -> {"idle", "push", "drain", "send", "report"}]
          /\ \A u \in Task : pc'[u] = "send" => dest'[u] # None
      BY <2>1, <3>2 DEF TypeOK
    <3> QED BY <2>1, <2>2, <3>2, <3>3 DEF TypeOK, jobVars
  <2>5. CASE t # Poll /\ phase[t] # "serving"
    <3>1. HandlerReturns(t) /\ t \in Session /\ UNCHANGED <<nodes, available>>
      BY <1>4, <2>5 DEF SendRaises
    <3>2. /\ phase' \in [Session -> {"new", "registering", "serving", "closing", "over"}]
          /\ pc' = [pc EXCEPT ![t] = "idle"]
          /\ loop' \in Task \cup {None}
          /\ up' \in SUBSET Session
      BY <3>1 DEF HandlerReturns, TypeOK
    <3>3. /\ pc' \in [Task -> {"idle", "push", "drain", "send", "report"}]
          /\ \A u \in Task : pc'[u] = "send" => dest'[u] # None
      BY <2>1, <3>2 DEF TypeOK
    <3> QED BY <2>1, <2>2, <3>1, <3>2, <3>3 DEF TypeOK, jobVars
  <2> QED BY <2>3, <2>4, <2>5
<1> QED BY <1>1, <1>2, <1>3, <1>4

\* The steps of a session keep the types.
LEMMA SessionTypeOK ==
  ASSUME TypeOK, NEW s \in Session
  PROVE  /\ Register(s) => TypeOK'
         /\ PushReturns(s) => TypeOK'
         /\ RegisterRaises(s) => TypeOK'
         /\ SessionEnds(s) => TypeOK'
         /\ GiveBack(s) => TypeOK'
         /\ LoseConnection(s) => TypeOK'
<1> USE DeviceOfAssumption
<1>1. ASSUME Register(s) PROVE TypeOK'
  BY <1>1 DEF Register, TypeOK, jobVars
<1>2. ASSUME PushReturns(s) PROVE TypeOK'
  BY <1>2 DEF PushReturns, TypeOK, netVars, jobVars
<1>3. ASSUME RegisterRaises(s) PROVE TypeOK'
  BY <1>3 DEF RegisterRaises, HandlerReturns, TypeOK, jobVars
<1>4. ASSUME SessionEnds(s) PROVE TypeOK'
  BY <1>4 DEF SessionEnds, Teardown, TypeOK, jobVars
<1>5. ASSUME GiveBack(s) PROVE TypeOK'
  <2>1. CASE busy[s] # None /\ status[busy[s]] # "forgotten"
    <3>1. busy[s] \in Job /\ DeviceOf[s] \in Device
      BY <2>1 DEF TypeOK
    <3>2. Requeue(busy[s], DeviceOf[s])
      BY <1>5, <2>1 DEF GiveBack
    <3> QED BY <1>5, <2>1, <3>1, <3>2, RequeueType DEF GiveBack, TypeOK
  <2>2. CASE ~(busy[s] # None /\ status[busy[s]] # "forgotten")
    BY <1>5, <2>2 DEF GiveBack, HandlerReturns, TypeOK, jobVars
  <2> QED BY <2>1, <2>2
<1>6. ASSUME LoseConnection(s) PROVE TypeOK'
  BY <1>6 DEF LoseConnection, TypeOK, jobVars, taskVars
<1> QED BY <1>1, <1>2, <1>3, <1>4, <1>5, <1>6

\* Handling a message keeps the types.
LEMMA MessageTypeOK ==
  ASSUME TypeOK, NEW s \in Session, Message(s)
  PROVE  TypeOK'
<1> USE DeviceOfAssumption
<1>1. CASE Availability(s)
  BY <1>1 DEF Availability, TypeOK, jobVars
<1>2. CASE JobResult(s)
  <2>1. held[s] \in Job
    BY <1>2 DEF JobResult, TypeOK
  <2>2. active' \in SUBSET Job /\ doneOrder' \in Seq(Job) /\ status' \in [Job -> Status]
    BY <1>2, <2>1, FinishType DEF JobResult, TypeOK
  <2> QED BY <1>2, <2>2 DEF JobResult, TypeOK, netVars
<1>3. ASSUME Returned(s), held[s] # None, available' \in SUBSET Session PROVE TypeOK'
  <2>1. held[s] \in Job /\ DeviceOf[s] \in Device
    BY <1>3 DEF TypeOK
  <2>2. CASE status[held[s]] # "forgotten"
    <3>1. Requeue(held[s], DeviceOf[s])
      BY <1>3, <2>2 DEF Returned
    <3> QED BY <1>3, <2>1, <2>2, <3>1, RequeueType DEF Returned, TypeOK
  <2>3. CASE status[held[s]] = "forgotten"
    BY <1>3, <2>3 DEF Returned, TypeOK
  <2> QED BY <2>2, <2>3
<1>4. CASE JobEvicted(s)
  BY <1>3, <1>4 DEF JobEvicted, TypeOK
<1>5. CASE JobRefused(s)
  BY <1>3, <1>5 DEF JobRefused, TypeOK
<1> QED BY <1>1, <1>2, <1>4, <1>5 DEF Message

\* What requesters and the poller do keeps the types.
LEMMA RequestTypeOK ==
  ASSUME TypeOK, NEW j \in Job
  PROVE  /\ Submit(j) => TypeOK'
         /\ CancelQueued(j) => TypeOK'
         /\ PollTick => TypeOK'
<1>1. ASSUME Submit(j) PROVE TypeOK'
  <2>1. CASE Finish(j, "failed") /\ UNCHANGED <<busy, held, nodeOf, tried, queue>>
    BY <1>1, <2>1, FinishType DEF Submit, TypeOK, netVars, taskVars
  <2>2. CASE UNCHANGED <<busy, held, nodeOf, tried, active, doneOrder>>
             /\ status' = [status EXCEPT ![j] = "queued"] /\ queue' = Append(queue, j)
    BY <1>1, <2>2 DEF Submit, TypeOK, netVars, taskVars
  <2>3. CASE (\E s \in Candidates(j) : Assign(j, s)) /\ UNCHANGED <<doneOrder, queue>>
    <3>1. PICK s \in Session : Assign(j, s)
      BY <2>3 DEF Candidates
    <3> QED BY <1>1, <2>3, <3>1, AssignType DEF Submit, TypeOK, netVars, taskVars
  <2> QED BY <1>1, <2>1, <2>2, <2>3 DEF Submit
<1>2. ASSUME CancelQueued(j) PROVE TypeOK'
  <2>1. queue' \in Seq(Job)
    BY <1>2, RemoveFirstType DEF CancelQueued, TypeOK
  <2>2. active' \in SUBSET Job /\ doneOrder' \in Seq(Job) /\ status' \in [Job -> Status]
    BY <1>2, FinishType DEF CancelQueued
  <2> QED BY <1>2, <2>1, <2>2 DEF CancelQueued, TypeOK, netVars, taskVars
<1>3. ASSUME PollTick PROVE TypeOK'
  BY <1>3 DEF PollTick, TypeOK, netVars, jobVars
<1> QED BY <1>1, <1>2, <1>3

\* Every step of the gateway keeps the types.
LEMMA NextTypeOK == TypeOK /\ [Next]_vars => TypeOK'
<1> SUFFICES ASSUME TypeOK, [Next]_vars PROVE TypeOK'
  OBVIOUS
<1>1. ASSUME NEW t \in Task, Run(t) PROVE TypeOK'
  BY <1>1, DrainTypeOK, SessionTypeOK DEF Run
<1>2. ASSUME NEW s \in Session, Register(s) \/ Message(s) \/ LoseConnection(s) PROVE TypeOK'
  BY <1>2, SessionTypeOK, MessageTypeOK
<1>3. ASSUME NEW j \in Job, Submit(j) \/ CancelQueued(j) PROVE TypeOK'
  BY <1>3, RequestTypeOK
<1>4. CASE PollTick
  BY <1>4 DEF PollTick, TypeOK, netVars, jobVars
<1>5. CASE UNCHANGED vars
  BY <1>5 DEF vars, netVars, jobVars, taskVars, TypeOK
<1> QED BY <1>1, <1>2, <1>3, <1>4, <1>5 DEF Next

\* The variables of the dispatcher keep their types in every behaviour.
THEOREM TypeCorrect == Spec => []TypeOK
<1>1. Init => TypeOK
  BY InitTypeOK
<1>2. TypeOK /\ [Next]_vars => TypeOK'
  BY NextTypeOK
<1> QED BY <1>1, <1>2, PTL DEF Spec

----------------------------------------------------------------------------
(* What a step is to the jobs, whether or not a device's sessions overlap *)

\* Finish ends one job and may forget one that had ended; nothing else changes.
LEMMA FinishEffect ==
  ASSUME TypeOK, NEW j \in Job, NEW outcome \in Terminal, Finish(j, outcome)
  PROVE  /\ active' = active \ {j}
         /\ status'[j] \in {outcome, "forgotten"}
         /\ \A k \in Job \ {j} : \/ status'[k] = status[k]
                                 \/ status[k] \in Terminal /\ status'[k] = "forgotten"
<1> DEFINE done == Append(doneOrder, j)
           ended == [status EXCEPT ![j] = outcome]
<1>1. active' = active \ {j}
  BY DEF Finish
<1>2. \/ status' = ended
      \/ ended[Head(done)] \in Terminal /\ status' = [ended EXCEPT ![Head(done)] = "forgotten"]
  BY DEF Finish
<1> QED BY <1>1, <1>2 DEF TypeOK

\* A job is accepted and waits.
Accepts(j) ==
  /\ status[j] = "new"
  /\ status' = [status EXCEPT ![j] = "queued"]
  /\ UNCHANGED <<nodeOf, tried, active, doneOrder>>

\* A waiting or new job is given to a node that may have it.
Starts(j) ==
  /\ status[j] \in {"new", "queued"}
  /\ ~AtCap(j)
  /\ \E s \in Candidates(j) : Assign(j, s)
  /\ UNCHANGED doneOrder

\* A session that ends has job j recorded, or its agent answers that it gives j back.
HasFrom(s, j) == (pc[s] = "report" /\ busy[s] = j) \/ (Listening(s) /\ held[s] = j)

\* A session gives a job back.
Returns(s, j) == HasFrom(s, j) /\ Requeue(j, DeviceOf[s]) /\ UNCHANGED doneOrder

\* A job cannot be placed, is cancelled in the queue, or is done as its agent says.
Ends(j) ==
  /\ \E outcome \in Terminal :
       /\ \/ <<status[j], outcome>> \in {<<"new", "failed">>, <<"queued", "cancelled">>}
          \/ outcome = "done" /\ \E s \in Session : Listening(s) /\ held[s] = j
       /\ Finish(j, outcome)
  /\ UNCHANGED <<nodeOf, tried>>

\* Nothing happens to any job.
JobsRest == UNCHANGED <<status, nodeOf, tried, active, doneOrder>>

\* Every step of the dispatcher is an event of one job or of none.
LEMMA JobsStep ==
  ASSUME TypeOK, [Next]_vars
  PROVE  \/ JobsRest
         \/ \E j \in Job : Accepts(j) \/ Starts(j) \/ Ends(j) \/ \E s \in Session : Returns(s, j)
<1>1. ASSUME NEW t \in Task, DrainStep(t)
      PROVE  JobsRest \/ \E j \in Job : Starts(j)
  <2> DEFINE j == Head(queue)
  <2>1. j \in Job
    BY <1>1, HeadTailType DEF DrainStep, TypeOK
  <2>2. \/ UNCHANGED jobVars
        \/ /\ status[j] = "queued" /\ ~AtCap(j)
           /\ \E s \in Candidates(j) : Assign(j, s)
           /\ UNCHANGED doneOrder
    BY <1>1 DEF DrainStep
  <2> HIDE DEF j
  <2> QED BY <2>1, <2>2 DEF Starts, JobsRest, jobVars
<1>2. ASSUME NEW s \in Session, GiveBack(s)
      PROVE  JobsRest \/ \E j \in Job : Returns(s, j)
  <2>1. CASE busy[s] # None /\ status[busy[s]] # "forgotten"
    <3>1. busy[s] \in Job
      BY <2>1 DEF TypeOK
    <3> QED BY <1>2, <2>1, <3>1 DEF GiveBack, Returns, HasFrom
  <2>2. CASE ~(busy[s] # None /\ status[busy[s]] # "forgotten")
    BY <1>2, <2>2 DEF GiveBack, JobsRest, jobVars
  <2> QED BY <2>1, <2>2
<1>3. ASSUME NEW t \in Task, Run(t), ~DrainStep(t), ~(t \in Session /\ GiveBack(t))
      PROVE  JobsRest
  BY <1>3 DEF Run, DrainEnds, SendReturns, SendRaises, PushReturns, RegisterRaises, SessionEnds,
              JobsRest, jobVars
<1>4. ASSUME NEW s \in Session, Message(s)
      PROVE  JobsRest \/ \E j \in Job : Returns(s, j) \/ Ends(j)
  <2>1. CASE Availability(s)
    BY <2>1 DEF Availability, JobsRest, jobVars
  <2>2. CASE JobResult(s)
    <3>1. held[s] \in Job /\ Listening(s)
      BY <2>2 DEF JobResult, TypeOK
    <3>2. UNCHANGED <<nodeOf, tried>>
      BY <2>2 DEF JobResult
    <3>3. UNCHANGED <<status, active, doneOrder>> \/ Finish(held[s], "done")
      BY <2>2 DEF JobResult
    <3> QED BY <3>1, <3>2, <3>3 DEF Ends, JobsRest, Terminal
  <2>3. CASE JobEvicted(s) \/ JobRefused(s)
    <3>1. Listening(s) /\ held[s] # None /\ Returned(s)
      BY <2>3 DEF JobEvicted, JobRefused
    <3>2. held[s] \in Job
      BY <3>1 DEF TypeOK
    <3>3. JobsRest \/ (Requeue(held[s], DeviceOf[s]) /\ UNCHANGED doneOrder)
      BY <3>1 DEF Returned, JobsRest
    <3> QED BY <3>1, <3>2, <3>3 DEF Returns, HasFrom
  <2> QED BY <1>4, <2>1, <2>2, <2>3 DEF Message
<1>5. ASSUME NEW j \in Job, Submit(j)
      PROVE  Accepts(j) \/ Starts(j) \/ Ends(j)
  BY <1>5 DEF Submit, Accepts, Starts, Ends, Terminal
<1>6. ASSUME NEW j \in Job, CancelQueued(j) PROVE Ends(j)
  BY <1>6 DEF CancelQueued, Ends, Terminal
<1>7. ASSUME NEW s \in Session, Register(s) \/ LoseConnection(s) PROVE JobsRest
  BY <1>7 DEF Register, LoseConnection, JobsRest, jobVars
<1>8. CASE UNCHANGED vars \/ PollTick
  BY <1>8 DEF vars, PollTick, JobsRest, jobVars
<1> QED BY <1>1, <1>2, <1>3, <1>4, <1>5, <1>6, <1>7, <1>8 DEF Next

\* Every step keeps the running sets exact: whatever changes a job's status changes
\* the set with it, even for a job that two sessions answer for.
LEMMA NextActive ==
  ASSUME TypeOK, ActiveIsRunning, [Next]_vars
  PROVE  ActiveIsRunning'
<1>1. CASE JobsRest
  BY <1>1 DEF JobsRest, ActiveIsRunning
<1>2. ASSUME NEW j \in Job, Accepts(j) PROVE ActiveIsRunning'
  BY <1>2 DEF Accepts, ActiveIsRunning, TypeOK
<1>3. ASSUME NEW j \in Job, Starts(j) PROVE ActiveIsRunning'
  BY <1>3 DEF Starts, Assign, ActiveIsRunning, TypeOK
<1>4. ASSUME NEW j \in Job, NEW s \in Session, Returns(s, j) PROVE ActiveIsRunning'
  BY <1>4 DEF Returns, Requeue, ActiveIsRunning, TypeOK
<1>5. ASSUME NEW j \in Job, Ends(j) PROVE ActiveIsRunning'
  <2> PICK outcome \in Terminal : Finish(j, outcome)
    BY <1>5 DEF Ends
  <2> QED BY FinishEffect DEF ActiveIsRunning, Terminal
<1> QED BY <1>1, <1>2, <1>3, <1>4, <1>5, JobsStep

\* The running sets that the caps are read from hold exactly the running jobs, even
\* where two sessions of a device answer for the same job.
THEOREM RunningSetsAreExact == Spec => []ActiveIsRunning
<1>1. Init => ActiveIsRunning
  BY DEF Init, ActiveIsRunning
<1> QED BY <1>1, InitTypeOK, NextTypeOK, NextActive, PTL DEF Spec

----------------------------------------------------------------------------
(* The cap on a submitter's running jobs *)

\* The jobs of one submitter in its running set.
ActiveOf(o) == {k \in active : OwnerOf[k] = o}

\* The cap, said of the running sets that _at_cap reads.
ActiveWithinCap ==
  MaxConcurrent > 0 => \A o \in Owner : Cardinality(ActiveOf(o)) <= MaxConcurrent

\* A step frees slots, or it takes one for a job whose submitter had one left.
LEMMA ActiveStep ==
  ASSUME TypeOK, [Next]_vars
  PROVE  \/ active' \subseteq active
         \/ \E j \in Job : ~AtCap(j) /\ active' = active \cup {j}
<1>1. ASSUME NEW j \in Job, Ends(j) PROVE active' \subseteq active
  BY <1>1 DEF Ends, Finish
<1>2. ASSUME NEW j \in Job, NEW s \in Session, Returns(s, j) PROVE active' \subseteq active
  BY <1>2 DEF Returns, Requeue
<1>3. ASSUME NEW j \in Job, Starts(j) PROVE ~AtCap(j) /\ active' = active \cup {j}
  BY <1>3 DEF Starts, Assign
<1> QED BY <1>1, <1>2, <1>3, JobsStep DEF JobsRest, Accepts

\* Every step keeps the running sets within the cap.
LEMMA NextWithinCap ==
  ASSUME TypeOK, ActiveWithinCap, [Next]_vars
  PROVE  ActiveWithinCap'
<1> SUFFICES ASSUME MaxConcurrent > 0, NEW o \in Owner
             PROVE  Cardinality(ActiveOf(o)') <= MaxConcurrent
  BY DEF ActiveWithinCap
<1>1. IsFiniteSet(active) /\ IsFiniteSet(ActiveOf(o))
  BY JobsAssumption, FS_Subset DEF TypeOK, ActiveOf
<1>2. Cardinality(ActiveOf(o)) \in Nat /\ Cardinality(ActiveOf(o)) <= MaxConcurrent
  BY <1>1, FS_CardinalityType DEF ActiveWithinCap
<1>3. CASE ActiveOf(o)' \subseteq ActiveOf(o)
  <2>1. Cardinality(ActiveOf(o)') \in Nat /\ Cardinality(ActiveOf(o)') <= Cardinality(ActiveOf(o))
    BY <1>1, <1>3, FS_Subset, FS_CardinalityType
  <2> QED BY <1>2, <2>1, CapsAssumption
<1>4. ASSUME NEW j \in Job, ~AtCap(j), active' = active \cup {j}, ~(ActiveOf(o)' \subseteq ActiveOf(o))
      PROVE  Cardinality(ActiveOf(o)') <= MaxConcurrent
  <2>1. OwnerOf[j] = o /\ ActiveOf(o)' = ActiveOf(o) \cup {j} /\ j \notin ActiveOf(o)
    BY <1>4 DEF ActiveOf
  <2>2. Cardinality(ActiveOf(o)') = Cardinality(ActiveOf(o)) + 1
    BY <1>1, <2>1, FS_AddElement
  <2>3. ~(Cardinality(ActiveOf(o)) >= MaxConcurrent)
    BY <1>4, <2>1 DEF AtCap, ActiveOf
  <2> QED BY <1>2, <2>2, <2>3, CapsAssumption
<1> QED BY <1>3, <1>4, ActiveStep DEF ActiveOf

\* No submitter ever runs more jobs than --max-concurrent allows, whatever overlaps.
THEOREM CapIsRespected == Spec => []CapRespected
<1>1. Init => ActiveWithinCap
  <2> SUFFICES ASSUME Init, MaxConcurrent > 0, NEW o \in Owner
               PROVE  Cardinality(ActiveOf(o)) <= MaxConcurrent
    BY DEF ActiveWithinCap
  <2>1. ActiveOf(o) = {}
    BY DEF Init, ActiveOf
  <2> QED BY <2>1, FS_EmptySet, CapsAssumption
<1>2. TypeOK /\ ActiveWithinCap /\ [Next]_vars => ActiveWithinCap'
  BY NextWithinCap
<1>3. ActiveIsRunning /\ ActiveWithinCap => CapRespected
  <2> SUFFICES ASSUME ActiveIsRunning, ActiveWithinCap, MaxConcurrent > 0, NEW o \in Owner
               PROVE  Cardinality({j \in Job : status[j] = "running" /\ OwnerOf[j] = o})
                        <= MaxConcurrent
    BY DEF CapRespected
  <2>1. {j \in Job : status[j] = "running" /\ OwnerOf[j] = o} = ActiveOf(o)
    BY DEF ActiveIsRunning, ActiveOf
  <2> QED BY <2>1 DEF ActiveWithinCap
<1> QED BY <1>1, <1>2, <1>3, TypeCorrect, RunningSetsAreExact, PTL DEF Spec

----------------------------------------------------------------------------
(* Sessions and the registry, when a device's sessions do not overlap *)

\* Where the coroutine of a session may be in each of its phases.
PhaseMatchesPc ==
  \A s \in Session :
    /\ phase[s] \in {"new", "over"} => pc[s] = "idle"
    /\ phase[s] = "registering" => pc[s] \in {"push", "drain", "send"}
    /\ phase[s] = "serving" => pc[s] \in {"idle", "push", "drain", "send"}
    /\ phase[s] = "closing" => pc[s] \in {"report", "drain", "send"}

\* The registry lists a node under its own id, and not once it is closing.
RegistryMatches ==
  \A d \in Device : nodes[d] # None =>
    /\ DeviceOf[nodes[d]] = d
    /\ phase[nodes[d]] \in {"registering", "serving", "over"}

\* The gateway serves one session of a device at a time, and lists it.
OneSessionPerDevice ==
  \A s \in Session :
    /\ Live(s) => Listed(s)
    /\ phase[s] = "closing" => nodes[DeviceOf[s]] = None
    /\ phase[s] \notin {"new", "over"} =>
         \A r \in Session \ {s} :
           DeviceOf[r] = DeviceOf[s] => phase[r] \in {"new", "over"}

\* The part of the inductive invariant about sessions.
SessionsInv == PhaseMatchesPc /\ RegistryMatches /\ OneSessionPerDevice

\* A step that leaves the registry and the phases alone keeps SessionsInv if it
\* moves one task within what its phase allows.
LEMMA PcStepKeepsSessions ==
  ASSUME TypeOK, SessionsInv, UNCHANGED <<nodes, phase>>,
         NEW t \in Task, NEW there, pc' = [pc EXCEPT ![t] = there],
         t \in Session =>
           /\ phase[t] \notin {"new", "over"}
           /\ there = "push" => phase[t] \in {"registering", "serving"}
           /\ there = "idle" => phase[t] = "serving"
           /\ there \in {"push", "idle", "drain", "send"}
  PROVE  SessionsInv'
<1>1. PhaseMatchesPc'
  BY DEF SessionsInv, PhaseMatchesPc, TypeOK
<1>2. RegistryMatches'
  BY DEF SessionsInv, RegistryMatches, TypeOK
<1>3. OneSessionPerDevice'
  BY DEF SessionsInv, OneSessionPerDevice, Live, Listed, TypeOK
<1> QED BY <1>1, <1>2, <1>3 DEF SessionsInv

\* The end of a handler keeps SessionsInv.
LEMMA HandlerReturnsKeepsSessions ==
  ASSUME TypeOK, SessionsInv, NEW s \in Session, HandlerReturns(s), UNCHANGED nodes,
         phase[s] \in {"registering", "closing"}
  PROVE  SessionsInv'
<1> USE DeviceOfAssumption
<1>1. PhaseMatchesPc'
  BY DEF SessionsInv, PhaseMatchesPc, HandlerReturns, TypeOK
<1>2. RegistryMatches'
  BY DEF SessionsInv, RegistryMatches, HandlerReturns, TypeOK
<1>3. OneSessionPerDevice'
  BY DEF SessionsInv, OneSessionPerDevice, HandlerReturns, Live, Listed, TypeOK
<1> QED BY <1>1, <1>2, <1>3 DEF SessionsInv

\* The start of the finally keeps SessionsInv.
LEMMA TeardownKeepsSessions ==
  ASSUME TypeOK, SessionsInv, NEW s \in Session, Teardown(s), phase[s] = "serving"
  PROVE  SessionsInv'
<1> USE DeviceOfAssumption
<1>1. PhaseMatchesPc'
  BY DEF SessionsInv, PhaseMatchesPc, Teardown, TypeOK
<1>2. RegistryMatches'
  <2>1. \A d \in Device : nodes'[d] # None => nodes[d] = nodes'[d] /\ nodes[d] # s
    BY DEF SessionsInv, RegistryMatches, Teardown, TypeOK
  <2> QED BY <2>1 DEF SessionsInv, RegistryMatches, Teardown, TypeOK
<1>3. OneSessionPerDevice'
  BY DEF SessionsInv, OneSessionPerDevice, Teardown, Live, Listed, TypeOK
<1> QED BY <1>1, <1>2, <1>3 DEF SessionsInv

\* A registration keeps SessionsInv, since the device has no other session.
LEMMA RegisterKeepsSessions ==
  ASSUME Overlap = FALSE, TypeOK, SessionsInv, NEW s \in Session, Register(s)
  PROVE  SessionsInv'
<1> USE DeviceOfAssumption, DevicesAssumption
<1>1. PhaseMatchesPc'
  BY DEF SessionsInv, PhaseMatchesPc, Register, TypeOK
<1>2. RegistryMatches'
  BY DEF SessionsInv, RegistryMatches, Register, TypeOK
<1>3. OneSessionPerDevice'
  BY DEF SessionsInv, OneSessionPerDevice, Register, MayConnect, Live, Listed, TypeOK
<1> QED BY <1>1, <1>2, <1>3 DEF SessionsInv

\* Every step keeps SessionsInv.
LEMMA NextSessions ==
  ASSUME Overlap = FALSE, TypeOK, SessionsInv, [Next]_vars
  PROVE  SessionsInv'
<1>1. ASSUME NEW t \in Task, Run(t) PROVE SessionsInv'
  <2>0. t \in Session /\ pc[t] \in {"drain", "send", "push", "report"} =>
          phase[t] \notin {"new", "over"}
    BY DEF SessionsInv, PhaseMatchesPc
  <2>1. CASE DrainStep(t)
    <3>1. UNCHANGED <<nodes, phase>> /\ pc[t] = "drain"
      BY <2>1 DEF DrainStep, netVars
    <3>2. pc' = [pc EXCEPT ![t] = "drain"] \/ pc' = [pc EXCEPT ![t] = "send"]
      BY <2>1, <3>1 DEF DrainStep, TypeOK
    <3> QED BY <2>0, <3>1, <3>2, PcStepKeepsSessions
  <2>2. CASE DrainEnds(t)
    <3>1. pc[t] = "drain" /\ AfterDrain(t) /\ UNCHANGED nodes
      BY <2>2 DEF DrainEnds
    <3>2. CASE t \in Session /\ phase[t] = "closing"
      BY <3>1, <3>2, PollAssumption, HandlerReturnsKeepsSessions DEF AfterDrain
    <3>3. CASE t \in Session /\ phase[t] = "registering"
      <4>1. phase' = [phase EXCEPT ![t] = "serving"] /\ pc' = [pc EXCEPT ![t] = "idle"]
        BY <3>1, <3>3, PollAssumption DEF AfterDrain
      <4>2. PhaseMatchesPc'
        BY <3>3, <4>1 DEF SessionsInv, PhaseMatchesPc, TypeOK
      <4>3. RegistryMatches'
        BY <3>1, <3>3, <4>1 DEF SessionsInv, RegistryMatches, TypeOK
      <4>4. OneSessionPerDevice'
        BY <3>1, <3>3, <4>1 DEF SessionsInv, OneSessionPerDevice, Live, Listed, TypeOK
      <4> QED BY <4>2, <4>3, <4>4 DEF SessionsInv
    <3>4. CASE t = Poll \/ phase[t] = "serving"
      <4>1. UNCHANGED phase /\ pc' = [pc EXCEPT ![t] = "idle"]
        BY <3>1, <3>4 DEF AfterDrain
      <4> QED BY <3>1, <3>4, <4>1, PollAssumption, PcStepKeepsSessions
    <3> QED BY <2>0, <3>1, <3>2, <3>3, <3>4 DEF TypeOK
  <2>3. CASE SendReturns(t)
    BY <2>0, <2>3, PcStepKeepsSessions DEF SendReturns, netVars
  <2>4. CASE SendRaises(t)
    <3>1. CASE t = Poll
      BY <2>4, <3>1, PollAssumption, PcStepKeepsSessions DEF SendRaises, netVars
    <3>2. CASE t \in Session /\ phase[t] = "serving"
      BY <2>4, <3>2, PollAssumption, TeardownKeepsSessions DEF SendRaises
    <3>3. CASE t \in Session /\ phase[t] # "serving"
      <4>1. phase[t] \in {"registering", "closing"}
        BY <2>0, <2>4, <3>3 DEF SendRaises, TypeOK
      <4> QED BY <2>4, <3>3, <4>1, PollAssumption, HandlerReturnsKeepsSessions DEF SendRaises
    <3> QED BY <3>1, <3>2, <3>3
  <2>5. CASE t \in Session /\ PushReturns(t)
    BY <2>0, <2>5, PcStepKeepsSessions DEF PushReturns, netVars
  <2>6. CASE t \in Session /\ RegisterRaises(t)
    BY <2>6, HandlerReturnsKeepsSessions DEF RegisterRaises
  <2>7. CASE t \in Session /\ SessionEnds(t)
    BY <2>7, TeardownKeepsSessions DEF SessionEnds, Listening
  <2>8. CASE t \in Session /\ GiveBack(t)
    <3>1. phase[t] = "closing" /\ UNCHANGED nodes
      BY <2>8 DEF GiveBack, SessionsInv, PhaseMatchesPc, TypeOK
    <3>2. CASE busy[t] # None /\ status[busy[t]] # "forgotten"
      BY <2>8, <3>1, <3>2, PcStepKeepsSessions DEF GiveBack
    <3>3. CASE ~(busy[t] # None /\ status[busy[t]] # "forgotten")
      BY <2>8, <3>1, <3>3, HandlerReturnsKeepsSessions DEF GiveBack
    <3> QED BY <3>2, <3>3
  <2> QED BY <1>1, <2>1, <2>2, <2>3, <2>4, <2>5, <2>6, <2>7, <2>8 DEF Run
<1>2. ASSUME NEW s \in Session, Message(s) PROVE SessionsInv'
  <2>1. Listening(s) /\ UNCHANGED <<nodes, phase>>
    BY <1>2 DEF Message, Availability, JobResult, JobEvicted, JobRefused, Returned, netVars
  <2>2. \E there \in {"push", "drain", "idle"} : pc' = [pc EXCEPT ![s] = there]
    BY <1>2, <2>1 DEF Message, Availability, JobResult, JobEvicted, JobRefused, Returned,
                      Listening, TypeOK
  <2> QED BY <2>1, <2>2, PcStepKeepsSessions DEF Listening
<1>3. ASSUME UNCHANGED <<nodes, phase, pc>> PROVE SessionsInv'
  BY <1>3 DEF SessionsInv, PhaseMatchesPc, RegistryMatches, OneSessionPerDevice, Live, Listed
<1>4. ASSUME NEW s \in Session, Register(s) PROVE SessionsInv'
  BY <1>4, RegisterKeepsSessions
<1>5. CASE PollTick
  BY <1>5, PollAssumption, PcStepKeepsSessions DEF PollTick, netVars
<1>6. CASE \/ UNCHANGED vars
           \/ \E s \in Session : LoseConnection(s)
           \/ \E j \in Job : Submit(j) \/ CancelQueued(j)
  BY <1>3, <1>6 DEF vars, netVars, taskVars, LoseConnection, Submit, CancelQueued
<1> QED BY <1>1, <1>2, <1>4, <1>5, <1>6 DEF Next

----------------------------------------------------------------------------
(* Jobs and the sessions that run them *)

\* The gateway's record of a session's job is still in force: the node is
\* listed, or its session is about to give the job back.
Answers(s) == Listed(s) \/ pc[s] = "report"

\* The job a node is busy with runs there, and an agent has only such a job.
\* A connection that was never opened has none.
BusyMatches ==
  \A s \in Session :
    /\ phase[s] = "new" => busy[s] = None /\ held[s] = None
    /\ Answers(s) /\ busy[s] # None =>
         status[busy[s]] = "running" /\ nodeOf[busy[s]] = DeviceOf[s]
    /\ Live(s) /\ held[s] # None => busy[s] = held[s]

\* The part of the inductive invariant about jobs.
WorkInv == BusyMatches /\ ActiveIsRunning

\* No two sessions are recorded with the same job.
LEMMA OneAnswer ==
  ASSUME TypeOK, SessionsInv, WorkInv,
         NEW r \in Session, NEW s \in Session,
         Answers(r), Answers(s), busy[r] # None, busy[r] = busy[s]
  PROVE  r = s
<1>1. DeviceOf[r] = DeviceOf[s]
  BY DEF WorkInv, BusyMatches
<1>2. \A q \in {r, s} : pc[q] = "report" => phase[q] = "closing"
  BY DEF SessionsInv, PhaseMatchesPc, TypeOK
<1>3. CASE Listed(r) /\ Listed(s)
  BY <1>1, <1>3 DEF Listed
<1>4. CASE pc[r] = "report"
  BY <1>1, <1>2, <1>4, DevicesAssumption DEF SessionsInv, OneSessionPerDevice, Answers, Listed
<1>5. CASE pc[s] = "report"
  BY <1>1, <1>2, <1>5, DevicesAssumption DEF SessionsInv, OneSessionPerDevice, Answers, Listed
<1> QED BY <1>3, <1>4, <1>5 DEF Answers

\* A step that changes no job and keeps the sessions' records keeps WorkInv.
LEMMA IdleStepKeepsWork ==
  ASSUME TypeOK, WorkInv,
         UNCHANGED <<busy, held, status, nodeOf, active>>,
         \A s \in Session : /\ phase'[s] = "new" => phase[s] = "new"
                            /\ Answers(s)' => Answers(s) \/ busy[s] = None
                            /\ Live(s)' => Live(s) \/ held[s] = None
  PROVE  WorkInv'
<1>1. BusyMatches'
  BY DEF WorkInv, BusyMatches
<1>2. ActiveIsRunning'
  BY DEF WorkInv, ActiveIsRunning
<1> QED BY <1>1, <1>2 DEF WorkInv

\* Assigning a waiting job to a free listed node keeps WorkInv.
LEMMA AssignKeepsWork ==
  ASSUME TypeOK, SessionsInv, WorkInv,
         NEW j \in Job, status[j] \in {"new", "queued"},
         NEW s \in Candidates(j), Assign(j, s),
         UNCHANGED netVars,
         \A r \in Session : pc'[r] = "report" => pc[r] = "report"
  PROVE  WorkInv'
<1>1. s \in Session /\ Listed(s) /\ busy[s] = None
  BY DEF Candidates
<1>2. \A r \in Session : Answers(r)' => Answers(r)
  BY DEF Answers, Listed, netVars
<1>3. \A r \in Session : Answers(r) /\ busy[r] # None => busy[r] # j
  BY DEF WorkInv, BusyMatches
<1>4. phase[s] # "new"
  BY <1>1, DeviceOfAssumption, DevicesAssumption DEF SessionsInv, RegistryMatches, Listed
<1>5. BusyMatches'
  <2> SUFFICES ASSUME NEW r \in Session
               PROVE  /\ phase'[r] = "new" => busy'[r] = None /\ held'[r] = None
                      /\ Answers(r)' /\ busy'[r] # None =>
                           status'[busy'[r]] = "running" /\ nodeOf'[busy'[r]] = DeviceOf[r]
                      /\ Live(r)' /\ held'[r] # None => busy'[r] = held'[r]
    BY DEF BusyMatches
  <2>1. CASE r = s
    <3>1. busy'[r] = j /\ held'[r] \in {j, held[r]}
      BY <1>1, <2>1 DEF Assign, TypeOK
    <3>2. status'[j] = "running" /\ nodeOf'[j] = DeviceOf[r]
      BY <2>1 DEF Assign, TypeOK
    <3>3. Live(r)' => held[r] = None
      BY <1>1, <2>1 DEF WorkInv, BusyMatches, Live, netVars
    <3> QED BY <1>4, <2>1, <3>1, <3>2, <3>3 DEF netVars
  <2>2. CASE r # s
    <3>1. busy'[r] = busy[r] /\ held'[r] = held[r]
      BY <1>1, <2>2 DEF Assign, TypeOK
    <3>2. busy[r] # None /\ Answers(r) =>
            status'[busy[r]] = status[busy[r]] /\ nodeOf'[busy[r]] = nodeOf[busy[r]]
      BY <1>3 DEF Assign, TypeOK
    <3> QED BY <1>2, <3>1, <3>2 DEF WorkInv, BusyMatches, Live, netVars
  <2> QED BY <2>1, <2>2
<1>6. ActiveIsRunning'
  BY DEF WorkInv, ActiveIsRunning, Assign, TypeOK
<1> QED BY <1>5, <1>6 DEF WorkInv

\* Giving a job back takes it from the only session recorded with it.
LEMMA RequeueKeepsWork ==
  ASSUME TypeOK, SessionsInv, WorkInv,
         NEW s \in Session, NEW j \in Job, Answers(s), busy[s] = j,
         Requeue(j, DeviceOf[s]), UNCHANGED <<nodes, phase>>,
         \A r \in Session : pc'[r] = "report" => pc[r] = "report" /\ r # s,
         held' \in {held, [held EXCEPT ![s] = None]},
         Live(s) => held'[s] = None
  PROVE  WorkInv'
<1> USE DevicesAssumption
<1>1. j # None /\ phase[s] # "new"
  BY DEF WorkInv, BusyMatches
<1>2. \A r \in Session \ {s} : Answers(r) => busy[r] # j
  BY <1>1, OneAnswer
<1>3. \A r \in Session : Answers(r)' => Answers(r)
  BY DEF Answers, Listed
<1>4. Answers(s)' => busy'[s] = None
  BY <1>1, DeviceOfAssumption DEF Answers, Listed, Requeue, TypeOK
<1>5. \A r \in Session \ {s} : busy'[r] = busy[r] \/ (busy'[r] = None /\ busy[r] = j)
  <2> DEFINE n == nodes[DeviceOf[s]]
  <2>1. \/ busy' = busy
        \/ busy[n] = j /\ busy' = [busy EXCEPT ![n] = None]
    BY DEF Requeue
  <2> HIDE DEF n
  <2> QED BY <2>1 DEF TypeOK
<1>6. \A r \in Session \ {s} : held'[r] = held[r]
  BY DEF TypeOK
<1>7. BusyMatches'
  <2> SUFFICES ASSUME NEW r \in Session
               PROVE  /\ phase'[r] = "new" => busy'[r] = None /\ held'[r] = None
                      /\ Answers(r)' /\ busy'[r] # None =>
                           status'[busy'[r]] = "running" /\ nodeOf'[busy'[r]] = DeviceOf[r]
                      /\ Live(r)' /\ held'[r] # None => busy'[r] = held'[r]
    BY DEF BusyMatches
  <2>1. CASE r = s
    BY <1>1, <1>4, <2>1 DEF Live
  <2>2. CASE r # s
    <3>1. Live(r) => Answers(r)
      BY DEF SessionsInv, OneSessionPerDevice, Answers
    <3>2. Answers(r) /\ busy[r] # None => busy'[r] = busy[r] /\ busy[r] # j
      BY <1>2, <1>5, <2>2
    <3>3. Answers(r) /\ busy[r] # None =>
            status'[busy[r]] = status[busy[r]] /\ nodeOf'[busy[r]] = nodeOf[busy[r]]
      BY <3>2 DEF Requeue, TypeOK
    <3>4. phase[r] = "new" => busy'[r] = None /\ held'[r] = None
      BY <1>5, <1>6, <2>2 DEF WorkInv, BusyMatches
    <3>5. Answers(r)' /\ busy'[r] # None =>
            status'[busy'[r]] = "running" /\ nodeOf'[busy'[r]] = DeviceOf[r]
      BY <1>3, <1>5, <2>2, <3>2, <3>3 DEF WorkInv, BusyMatches
    <3>6. Live(r)' /\ held'[r] # None => busy'[r] = held'[r]
      BY <1>6, <2>2, <3>1, <3>2 DEF WorkInv, BusyMatches, Live
    <3> QED BY <3>4, <3>5, <3>6
  <2> QED BY <2>1, <2>2
<1>8. ActiveIsRunning'
  BY DEF WorkInv, ActiveIsRunning, Requeue, TypeOK
<1> QED BY <1>7, <1>8 DEF WorkInv

\* Ending a job that no other session is recorded with keeps WorkInv.
LEMMA FinishKeepsWork ==
  ASSUME TypeOK, SessionsInv, WorkInv,
         NEW j \in Job, NEW outcome \in Terminal, Finish(j, outcome),
         UNCHANGED <<nodes, phase, nodeOf>>,
         \A s \in Session :
           /\ pc'[s] = "report" => pc[s] = "report"
           /\ \/ busy'[s] = busy[s] /\ held'[s] = held[s]
              \/ busy'[s] = None /\ held'[s] = None
           /\ Answers(s) => busy'[s] # j
  PROVE  WorkInv'
<1> USE DevicesAssumption
<1>1. \A k \in Job : status[k] = "running" /\ k # j => status'[k] = "running"
  BY FinishEffect
<1>2. \A s \in Session : Answers(s)' => Answers(s)
  BY DEF Answers, Listed
<1>3. BusyMatches'
  <2> SUFFICES ASSUME NEW r \in Session
               PROVE  /\ phase'[r] = "new" => busy'[r] = None /\ held'[r] = None
                      /\ Answers(r)' /\ busy'[r] # None =>
                           status'[busy'[r]] = "running" /\ nodeOf'[busy'[r]] = DeviceOf[r]
                      /\ Live(r)' /\ held'[r] # None => busy'[r] = held'[r]
    BY DEF BusyMatches
  <2>1. busy[r] \in Job \cup {None}
    BY DEF TypeOK
  <2> QED BY <1>1, <1>2, <2>1 DEF WorkInv, BusyMatches, Live
<1>4. ActiveIsRunning'
  BY FinishEffect DEF WorkInv, ActiveIsRunning
<1> QED BY <1>3, <1>4 DEF WorkInv

\* The step of a drain keeps WorkInv.
LEMMA DrainKeepsWork ==
  ASSUME TypeOK, SessionsInv, WorkInv, NEW t \in Task, DrainStep(t)
  PROVE  WorkInv'
<1> DEFINE j == Head(queue)
<1>1. j \in Job
  BY HeadTailType DEF DrainStep, TypeOK
<1>2. UNCHANGED netVars
  BY DEF DrainStep
<1>3. CASE UNCHANGED <<jobVars, pc, dest>>
  BY <1>2, <1>3, IdleStepKeepsWork DEF jobVars, netVars, Answers, Listed, Live
<1>4. CASE /\ status[j] = "queued"
           /\ \E s \in Candidates(j) : Assign(j, s)
           /\ pc' = [pc EXCEPT ![t] = "send"]
  <2>1. PICK s \in Candidates(j) : Assign(j, s)
    BY <1>4
  <2>2. \A r \in Session : pc'[r] = "report" => pc[r] = "report"
    BY <1>4 DEF TypeOK
  <2> HIDE DEF j
  <2> QED BY <1>1, <1>2, <1>4, <2>1, <2>2, AssignKeepsWork
<1> QED BY <1>3, <1>4 DEF DrainStep

\* Answering for a job keeps WorkInv.
LEMMA MessageKeepsWork ==
  ASSUME TypeOK, SessionsInv, WorkInv, NEW s \in Session, Message(s)
  PROVE  WorkInv'
<1> USE DevicesAssumption
<1>1. Listening(s) /\ UNCHANGED <<nodes, phase>> /\ Live(s) /\ Answers(s)
  BY DEF Message, Availability, JobResult, JobEvicted, JobRefused, Returned, netVars,
         Listening, Live, SessionsInv, OneSessionPerDevice, Answers
<1>2. \A r \in Session : pc'[r] = "report" => pc[r] = "report" /\ r # s
  BY <1>1 DEF Message, Availability, JobResult, JobEvicted, JobRefused, Returned,
              Listening, TypeOK
<1>3. CASE Availability(s)
  BY <1>1, <1>2, <1>3, IdleStepKeepsWork DEF Availability, jobVars, Answers, Listed, Live
<1>4. ASSUME held[s] # None
      PROVE  /\ busy[s] = held[s] /\ held[s] \in Job
             /\ status[held[s]] = "running"
  BY <1>1, <1>4 DEF WorkInv, BusyMatches, TypeOK
<1>5. CASE JobResult(s)
  <2> DEFINE j == held[s]
  <2>1. j # None /\ j \in Job /\ busy[s] = j /\ status[j] = "running"
    BY <1>4, <1>5 DEF JobResult
  <2>2. /\ Finish(j, "done")
        /\ busy' = [busy EXCEPT ![s] = None]
        /\ held' = [held EXCEPT ![s] = None]
        /\ UNCHANGED nodeOf
    BY <1>5, <2>1 DEF JobResult
  <2>3. \A r \in Session \ {s} : Answers(r) => busy[r] # j
    BY <1>1, <2>1, OneAnswer
  <2>4. \A r \in Session :
          /\ \/ busy'[r] = busy[r] /\ held'[r] = held[r]
             \/ busy'[r] = None /\ held'[r] = None
          /\ Answers(r) => busy'[r] # j
    BY <2>1, <2>2, <2>3 DEF TypeOK
  <2> HIDE DEF j
  <2> QED BY <1>1, <1>2, <2>1, <2>2, <2>4, FinishKeepsWork
<1>6. CASE JobEvicted(s) \/ JobRefused(s)
  <2>1. held[s] # None /\ Returned(s)
    BY <1>6 DEF JobEvicted, JobRefused
  <2>2. /\ Requeue(held[s], DeviceOf[s])
        /\ held' = [held EXCEPT ![s] = None]
    BY <1>4, <2>1 DEF Returned
  <2>3. held'[s] = None
    BY <2>2 DEF TypeOK
  <2> QED BY <1>1, <1>2, <1>4, <2>1, <2>2, <2>3, RequeueKeepsWork
<1> QED BY <1>3, <1>5, <1>6 DEF Message

\* A session's own steps keep WorkInv.
LEMMA SessionKeepsWork ==
  ASSUME Overlap = FALSE, TypeOK, SessionsInv, WorkInv, NEW s \in Session,
         \/ Register(s) \/ PushReturns(s) \/ RegisterRaises(s)
         \/ SessionEnds(s) \/ GiveBack(s) \/ LoseConnection(s)
  PROVE  WorkInv'
<1> USE DeviceOfAssumption, DevicesAssumption
<1>1. CASE Register(s)
  <2>1. busy[s] = None /\ held[s] = None
    BY <1>1 DEF Register, WorkInv, BusyMatches
  <2>2. \A r \in Session : /\ phase'[r] = "new" => phase[r] = "new"
                           /\ Answers(r)' => Answers(r) \/ busy[r] = None
                           /\ Live(r)' => Live(r) \/ held[r] = None
    BY <1>1, <2>1 DEF Register, Answers, Listed, Live, TypeOK
  <2> QED BY <1>1, <2>2, IdleStepKeepsWork DEF Register, jobVars
<1>2. CASE PushReturns(s) \/ LoseConnection(s)
  <2>1. \A r \in Session : pc'[r] = "report" => pc[r] = "report"
    BY <1>2 DEF PushReturns, LoseConnection, taskVars, TypeOK
  <2> QED BY <1>2, <2>1, IdleStepKeepsWork
        DEF PushReturns, LoseConnection, netVars, jobVars, Answers, Listed, Live
<1>3. CASE RegisterRaises(s)
  <2>1. \A r \in Session : /\ phase'[r] = "new" => phase[r] = "new"
                           /\ Answers(r)' => Answers(r)
                           /\ Live(r)' => Live(r)
    BY <1>3 DEF RegisterRaises, HandlerReturns, Answers, Listed, Live, TypeOK
  <2> QED BY <1>3, <2>1, IdleStepKeepsWork DEF RegisterRaises, jobVars
<1>4. CASE SessionEnds(s)
  <2>1. Listed(s)
    BY <1>4 DEF SessionEnds, Listening, SessionsInv, OneSessionPerDevice, Live
  <2>2. \A r \in Session : /\ phase'[r] = "new" => phase[r] = "new"
                           /\ Answers(r)' => Answers(r)
                           /\ Live(r)' => Live(r)
    BY <1>4, <2>1 DEF SessionEnds, Teardown, Answers, Listed, Live, TypeOK
  <2> QED BY <1>4, <2>2, IdleStepKeepsWork DEF SessionEnds, jobVars
<1>5. CASE GiveBack(s)
  <2>1. pc[s] = "report" /\ phase[s] = "closing" /\ Answers(s)
    BY <1>5 DEF GiveBack, SessionsInv, PhaseMatchesPc, Answers, TypeOK
  <2>2. CASE busy[s] # None /\ status[busy[s]] # "forgotten"
    <3>1. /\ Requeue(busy[s], DeviceOf[s])
          /\ pc' = [pc EXCEPT ![s] = "drain"]
          /\ UNCHANGED <<nodes, phase, held>>
      BY <1>5, <2>2 DEF GiveBack
    <3>2. busy[s] \in Job /\ ~Live(s)
      BY <2>1, <2>2 DEF Live, TypeOK
    <3>3. \A r \in Session : pc'[r] = "report" => pc[r] = "report" /\ r # s
      BY <3>1 DEF TypeOK
    <3> QED BY <2>1, <3>1, <3>2, <3>3, RequeueKeepsWork
  <2>3. CASE ~(busy[s] # None /\ status[busy[s]] # "forgotten")
    <3>1. HandlerReturns(s) /\ UNCHANGED jobVars /\ UNCHANGED nodes
      BY <1>5, <2>3 DEF GiveBack
    <3>2. \A r \in Session : /\ phase'[r] = "new" => phase[r] = "new"
                             /\ Answers(r)' => Answers(r)
                             /\ Live(r)' => Live(r)
      BY <3>1 DEF HandlerReturns, Answers, Listed, Live, TypeOK
    <3> QED BY <3>1, <3>2, IdleStepKeepsWork DEF jobVars
  <2> QED BY <2>2, <2>3
<1> QED BY <1>1, <1>2, <1>3, <1>4, <1>5

\* The end of a drain or of a send keeps WorkInv.
LEMMA SendKeepsWork ==
  ASSUME TypeOK, SessionsInv, WorkInv, NEW t \in Task,
         DrainEnds(t) \/ SendReturns(t) \/ SendRaises(t)
  PROVE  WorkInv'
<1> USE DeviceOfAssumption, DevicesAssumption, PollAssumption
<1>1. UNCHANGED jobVars
  BY DEF DrainEnds, SendReturns, SendRaises
<1>2. \A r \in Session : /\ phase'[r] = "new" => phase[r] = "new"
                         /\ Answers(r)' => Answers(r)
                         /\ Live(r)' => Live(r)
  <2>1. CASE DrainEnds(t)
    BY <2>1 DEF DrainEnds, AfterDrain, HandlerReturns, Answers, Listed, Live, TypeOK
  <2>2. CASE SendReturns(t)
    BY <2>2 DEF SendReturns, netVars, Answers, Listed, Live, TypeOK
  <2>3. CASE SendRaises(t) /\ t = Poll
    BY <2>3 DEF SendRaises, netVars, Answers, Listed, Live, TypeOK
  <2>4. CASE SendRaises(t) /\ t # Poll /\ phase[t] = "serving"
    <3>1. Teardown(t) /\ t \in Session /\ Listed(t)
      BY <2>4 DEF SendRaises, SessionsInv, OneSessionPerDevice, Live
    <3> QED BY <2>4, <3>1 DEF Teardown, Answers, Listed, Live, TypeOK
  <2>5. CASE SendRaises(t) /\ t # Poll /\ phase[t] # "serving"
    <3>1. HandlerReturns(t) /\ t \in Session /\ UNCHANGED nodes
      BY <2>5 DEF SendRaises
    <3> QED BY <3>1 DEF HandlerReturns, Answers, Listed, Live, TypeOK
  <2> QED BY <2>1, <2>2, <2>3, <2>4, <2>5
<1> QED BY <1>1, <1>2, IdleStepKeepsWork DEF jobVars

\* Submitting or cancelling a job keeps WorkInv.
LEMMA RequestKeepsWork ==
  ASSUME TypeOK, SessionsInv, WorkInv, NEW j \in Job, Submit(j) \/ CancelQueued(j)
  PROVE  WorkInv'
<1>1. status[j] \in {"new", "queued"}
  BY DEF Submit, CancelQueued
<1>2. \A s \in Session : Answers(s) => busy[s] # j
  BY <1>1, DevicesAssumption DEF WorkInv, BusyMatches
<1>3. UNCHANGED <<nodes, phase, pc>>
  BY DEF Submit, CancelQueued, netVars, taskVars
<1>4. ASSUME NEW outcome \in {"failed", "cancelled"}, Finish(j, outcome),
             UNCHANGED <<busy, held, nodeOf>>
      PROVE  WorkInv'
  BY <1>2, <1>3, <1>4, FinishKeepsWork
<1>5. CASE \E s \in Candidates(j) : Assign(j, s)
  BY <1>1, <1>5, AssignKeepsWork DEF Submit, CancelQueued, netVars, taskVars
<1>6. CASE /\ status' = [status EXCEPT ![j] = "queued"]
           /\ UNCHANGED <<busy, held, nodeOf, active>>
  <2>1. \A k \in Job : status'[k] = "running" <=> status[k] = "running"
    BY <1>1, <1>6 DEF TypeOK
  <2>2. \A k \in Job : status[k] = "running" => nodeOf'[k] = nodeOf[k]
    BY <1>6
  <2>3. BusyMatches'
    BY <1>3, <1>6, <2>1, <2>2 DEF WorkInv, BusyMatches, Answers, Listed, Live, TypeOK
  <2>4. ActiveIsRunning'
    BY <1>6, <2>1 DEF WorkInv, ActiveIsRunning
  <2> QED BY <2>3, <2>4 DEF WorkInv
<1> QED BY <1>4, <1>5, <1>6 DEF Submit, CancelQueued

\* The inductive invariant: every part needs the ones before it.
IInv == TypeOK /\ SessionsInv /\ WorkInv

\* The initial state satisfies the inductive invariant.
LEMMA InitIInv == Init => IInv
<1> SUFFICES ASSUME Init PROVE IInv
  OBVIOUS
<1>1. SessionsInv
  BY DeviceOfAssumption, DevicesAssumption
     DEF Init, SessionsInv, PhaseMatchesPc, RegistryMatches, OneSessionPerDevice, Live
<1>2. WorkInv
  BY DEF Init, WorkInv, BusyMatches, ActiveIsRunning, Live
<1> QED BY <1>1, <1>2, InitTypeOK DEF IInv

\* Every step keeps the inductive invariant.
LEMMA NextIInv ==
  ASSUME Overlap = FALSE, IInv, [Next]_vars
  PROVE  IInv'
<1>1. TypeOK /\ SessionsInv /\ WorkInv
  BY DEF IInv
<1>2. TypeOK' /\ SessionsInv'
  BY <1>1, NextTypeOK, NextSessions
<1>3. WorkInv'
  <2>1. ASSUME NEW t \in Task, Run(t) PROVE WorkInv'
    BY <1>1, <2>1, DrainKeepsWork, SendKeepsWork, SessionKeepsWork DEF Run
  <2>2. ASSUME NEW s \in Session, Register(s) \/ Message(s) \/ LoseConnection(s) PROVE WorkInv'
    BY <1>1, <2>2, SessionKeepsWork, MessageKeepsWork
  <2>3. ASSUME NEW j \in Job, Submit(j) \/ CancelQueued(j) PROVE WorkInv'
    BY <1>1, <2>3, RequestKeepsWork
  <2>4. CASE PollTick
    <3>1. \A r \in Session : Answers(r)' => Answers(r)
      BY <1>1, <2>4, PollAssumption DEF PollTick, netVars, Answers, Listed, TypeOK
    <3> QED BY <1>1, <2>4, <3>1, IdleStepKeepsWork DEF PollTick, netVars, jobVars, Live
  <2>5. CASE UNCHANGED vars
    BY <1>1, <2>5, IdleStepKeepsWork
       DEF vars, netVars, jobVars, taskVars, Answers, Listed, Live
  <2> QED BY <2>1, <2>2, <2>3, <2>4, <2>5 DEF Next
<1> QED BY <1>2, <1>3 DEF IInv

\* The inductive invariant gives the properties the runs check.
LEMMA IInvImplies == IInv => ServedIsListed /\ OneRunner /\ ActiveIsRunning
<1> SUFFICES ASSUME IInv PROVE ServedIsListed /\ OneRunner /\ ActiveIsRunning
  OBVIOUS
<1>1. \A s \in Session : Live(s) => Listed(s) /\ Answers(s)
  BY DEF IInv, SessionsInv, OneSessionPerDevice, Answers
<1>2. ServedIsListed
  BY <1>1 DEF IInv, TypeOK, ServedIsListed
<1>3. ASSUME NEW s \in Session, Live(s), held[s] # None
      PROVE  /\ busy[s] = held[s]
             /\ status[held[s]] = "running"
             /\ nodeOf[held[s]] = DeviceOf[s]
  BY <1>1, <1>3 DEF IInv, WorkInv, BusyMatches
<1>4. OneRunner
  <2> SUFFICES ASSUME NEW s \in Session, Live(s), held[s] # None,
                      NEW r \in Session, Live(r), held[r] = held[s]
               PROVE  r = s
    BY <1>3 DEF OneRunner
  <2>1. busy[r] = busy[s] /\ busy[r] # None
    BY <1>3
  <2> QED BY <1>1, <2>1, OneAnswer DEF IInv
<1> QED BY <1>2, <1>4 DEF IInv, WorkInv

\* When a device's sessions do not overlap, a served device is listed in every
\* behaviour, so the dispatcher can reach it.
THEOREM ServedDeviceIsListed ==
  ASSUME Overlap = FALSE
  PROVE  Spec => []ServedIsListed
<1>1. IInv /\ [Next]_vars => IInv'
  BY NextIInv
<1> QED BY <1>1, InitIInv, IInvImplies, PTL DEF Spec

\* When a device's sessions do not overlap, no two sessions ever answer for one
\* job, and the job an agent has is the one the table says runs there.
THEOREM JobHasOneRunner ==
  ASSUME Overlap = FALSE
  PROVE  Spec => []OneRunner
<1>1. IInv /\ [Next]_vars => IInv'
  BY NextIInv
<1> QED BY <1>1, InitIInv, IInvImplies, PTL DEF Spec

----------------------------------------------------------------------------
(* A job that has ended *)

\* The step of the action property TerminalIsStable.
EndedStays ==
  \A j \in Job : status[j] \in Terminal => status'[j] \in {status[j], "forgotten"}

\* A step that changes the status of a job that had not ended keeps the others.
LEMMA StatusStep ==
  ASSUME TypeOK, NEW j \in Job, status[j] \notin Terminal, NEW new,
         status' = [status EXCEPT ![j] = new]
  PROVE  EndedStays
  BY DEF EndedStays, TypeOK

\* No step revives a job that has ended.
LEMMA NextEndedStays ==
  ASSUME IInv, [Next]_vars
  PROVE  EndedStays
<1> USE DevicesAssumption
<1>1. TypeOK /\ SessionsInv /\ WorkInv
  BY DEF IInv
<1>2. ASSUME UNCHANGED status PROVE EndedStays
  BY <1>2 DEF EndedStays
<1>3. ASSUME NEW j \in Job, NEW outcome \in Terminal, Finish(j, outcome),
             status[j] \notin Terminal
      PROVE  EndedStays
  BY <1>1, <1>3, FinishEffect DEF EndedStays
<1>4. ASSUME NEW s \in Session, Answers(s), busy[s] # None
      PROVE  busy[s] \in Job /\ status[busy[s]] = "running"
  BY <1>1, <1>4 DEF WorkInv, BusyMatches, TypeOK
<1>5. ASSUME NEW s \in Session, Listening(s), held[s] # None
      PROVE  held[s] = busy[s] /\ Answers(s)
  BY <1>1, <1>5 DEF WorkInv, BusyMatches, SessionsInv, OneSessionPerDevice, Listening, Live, Answers
<1>6. ASSUME NEW j \in Job, NEW s, Assign(j, s), status[j] \in {"new", "queued"}
      PROVE  EndedStays
  BY <1>1, <1>6, StatusStep DEF Assign
<1>7. ASSUME NEW t \in Task, Run(t) PROVE EndedStays
  <2>1. CASE DrainStep(t)
    <3> DEFINE j == Head(queue)
    <3>1. j \in Job
      BY <1>1, <2>1, HeadTailType DEF DrainStep, TypeOK
    <3>2. \/ UNCHANGED status
          \/ status[j] = "queued" /\ \E s : Assign(j, s)
      BY <2>1 DEF DrainStep, jobVars
    <3> HIDE DEF j
    <3> QED BY <1>2, <1>6, <3>1, <3>2
  <2>2. CASE t \in Session /\ GiveBack(t)
    <3>1. CASE busy[t] # None /\ status[busy[t]] # "forgotten"
      <4>1. Requeue(busy[t], DeviceOf[t]) /\ busy[t] \in Job /\ status[busy[t]] = "running"
        BY <1>4, <2>2, <3>1 DEF GiveBack, Answers
      <4> QED BY <1>1, <4>1, StatusStep DEF Requeue
    <3>2. CASE ~(busy[t] # None /\ status[busy[t]] # "forgotten")
      BY <1>2, <2>2, <3>2 DEF GiveBack, jobVars
    <3> QED BY <3>1, <3>2
  <2>3. CASE ~DrainStep(t) /\ ~(t \in Session /\ GiveBack(t))
    BY <1>2, <1>7, <2>3
       DEF Run, DrainEnds, SendReturns, SendRaises, PushReturns, RegisterRaises, SessionEnds, jobVars
  <2> QED BY <2>1, <2>2, <2>3
<1>8. ASSUME NEW s \in Session, Message(s) PROVE EndedStays
  <2>1. CASE Availability(s)
    BY <1>2, <2>1 DEF Availability, jobVars
  <2>2. ASSUME Listening(s), held[s] # None
        PROVE  held[s] \in Job /\ status[held[s]] = "running"
    BY <1>4, <1>5, <2>2
  <2>3. CASE JobResult(s)
    <3>1. Finish(held[s], "done")
      BY <2>2, <2>3 DEF JobResult
    <3> QED BY <1>3, <2>2, <2>3, <3>1 DEF JobResult
  <2>4. CASE JobEvicted(s) \/ JobRefused(s)
    <3>1. Listening(s) /\ held[s] # None /\ Returned(s)
      BY <2>4 DEF JobEvicted, JobRefused
    <3>2. Requeue(held[s], DeviceOf[s])
      BY <2>2, <3>1 DEF Returned
    <3> QED BY <1>1, <2>2, <3>1, <3>2, StatusStep DEF Requeue
  <2> QED BY <1>8, <2>1, <2>3, <2>4 DEF Message
<1>9. ASSUME NEW j \in Job, Submit(j) PROVE EndedStays
  <2>1. status[j] = "new"
    BY <1>9 DEF Submit
  <2>2. \/ Finish(j, "failed")
        \/ status' = [status EXCEPT ![j] = "queued"]
        \/ \E s : Assign(j, s)
    BY <1>9 DEF Submit
  <2> QED BY <1>1, <1>3, <1>6, <2>1, <2>2, StatusStep
<1>10. ASSUME NEW j \in Job, CancelQueued(j) PROVE EndedStays
  BY <1>3, <1>10 DEF CancelQueued
<1>11. ASSUME NEW s \in Session, Register(s) \/ LoseConnection(s) PROVE EndedStays
  BY <1>2, <1>11 DEF Register, LoseConnection, jobVars
<1>12. CASE UNCHANGED vars \/ PollTick
  BY <1>2, <1>12 DEF vars, PollTick, jobVars
<1> QED BY <1>7, <1>8, <1>9, <1>10, <1>11, <1>12 DEF Next

\* When a device's sessions do not overlap, a job that has ended is never
\* revived: it stays as it ended until the store drops it.
THEOREM EndedJobStays ==
  ASSUME Overlap = FALSE
  PROVE  Spec => TerminalIsStable
<1>1. IInv /\ [Next]_vars => IInv'
  BY NextIInv
<1>2. IInv /\ [Next]_vars => EndedStays
  BY NextEndedStays
<1>3. Spec => [][EndedStays]_vars
  BY <1>1, <1>2, InitIInv, PTL DEF Spec
<1>4. TerminalIsStable <=> [][EndedStays]_vars
  BY DEF TerminalIsStable, EndedStays
<1> QED BY <1>3, <1>4

----------------------------------------------------------------------------
(* Queues without repetition *)

\* No element is in a queue twice.
NoRepeat(q) == \A i, k \in DOMAIN q : q[i] = q[k] => i = k

\* Appending a new element adds it and repeats nothing.
LEMMA AppendOnce ==
  ASSUME NEW S, NEW q \in Seq(S), NEW e \in S
  PROVE  /\ ToSet(Append(q, e)) = ToSet(q) \cup {e}
         /\ NoRepeat(q) /\ e \notin ToSet(q) => NoRepeat(Append(q, e))
<1> DEFINE r == Append(q, e)
<1>1. /\ Len(q) \in Nat /\ DOMAIN q = 1..Len(q) /\ DOMAIN r = 1..(Len(q) + 1)
      /\ r[Len(q) + 1] = e /\ \A i \in 1..Len(q) : r[i] = q[i]
  OBVIOUS
<1> HIDE DEF r
<1>2. ToSet(r) = ToSet(q) \cup {e}
  <2>1. \A i \in DOMAIN q : i \in DOMAIN r /\ r[i] = q[i]
    BY <1>1
  <2>2. \A i \in DOMAIN r : i \in DOMAIN q \/ i = Len(q) + 1
    BY <1>1
  <2>3. Len(q) + 1 \in DOMAIN r
    BY <1>1
  <2> QED BY <1>1, <2>1, <2>2, <2>3 DEF ToSet
<1>3. ASSUME NoRepeat(q), e \notin ToSet(q), NEW i \in DOMAIN r, NEW k \in DOMAIN r, r[i] = r[k]
      PROVE  i = k
  BY <1>1, <1>3 DEF NoRepeat, ToSet
<1> QED BY <1>2, <1>3 DEF NoRepeat, r

\* Dropping the head takes it away.
LEMMA TailOnce ==
  ASSUME NEW S, NEW q \in Seq(S), q # <<>>, NoRepeat(q)
  PROVE  /\ NoRepeat(Tail(q))
         /\ Head(q) \in ToSet(q)
         /\ ToSet(Tail(q)) = ToSet(q) \ {Head(q)}
<1> DEFINE r == Tail(q)
           h == Head(q)
<1>1. /\ Len(q) \in Nat \ {0} /\ DOMAIN q = 1..Len(q) /\ DOMAIN r = 1..(Len(q) - 1)
      /\ h = q[1] /\ \A i \in DOMAIN r : r[i] = q[i + 1]
  BY HeadTailProperties, EmptySeq, LenProperties
<1> HIDE DEF r, h
<1>2. NoRepeat(r)
  BY <1>1 DEF NoRepeat
<1>3. h \in ToSet(q)
  BY <1>1 DEF ToSet
<1>4. ToSet(r) = ToSet(q) \ {h}
  <2>1. \A i \in DOMAIN r : i + 1 \in DOMAIN q /\ i + 1 # 1
    BY <1>1
  <2>2. \A i \in DOMAIN q \ {1} : i - 1 \in DOMAIN r /\ r[i - 1] = q[i]
    BY <1>1
  <2>3. 1 \in DOMAIN q
    BY <1>1
  <2>4. \A i \in DOMAIN r : r[i] \in ToSet(q) \ {h}
    BY <1>1, <2>1, <2>3 DEF ToSet, NoRepeat
  <2>5. \A i \in DOMAIN q : q[i] # h => q[i] \in ToSet(r)
    BY <1>1, <2>2 DEF ToSet
  <2> QED BY <2>4, <2>5 DEF ToSet
<1> QED BY <1>2, <1>3, <1>4 DEF r, h

\* A queue without repetition is as long as it has elements.
LEMMA CountOnce ==
  ASSUME NEW S, NEW q \in Seq(S), NoRepeat(q)
  PROVE  Cardinality(ToSet(q)) = Len(q)
<1>1. Len(q) \in Nat /\ DOMAIN q = 1..Len(q) /\ q \in [1..Len(q) -> S]
  BY LenProperties
<1>2. IsFiniteSet(1..Len(q)) /\ Cardinality(1..Len(q)) = Len(q)
  BY <1>1, FS_Interval
<1>3. q \in Bijection(1..Len(q), ToSet(q))
  BY <1>1 DEF Bijection, Injection, Surjection, IsInjective, NoRepeat, ToSet
<1> QED BY <1>2, <1>3, FS_Bijection DEF ExistsBijection

----------------------------------------------------------------------------
(* What a step does to the jobs *)

\* A running job is given back by the device it runs on.
GivesBack(j) ==
  /\ status[j] = "running"
  /\ Requeue(j, nodeOf[j])
  /\ UNCHANGED doneOrder

\* A job that had not ended does.
Finishes(j) ==
  /\ \E outcome \in Terminal :
       /\ <<status[j], outcome>> \in
            {<<"new", "failed">>, <<"queued", "cancelled">>, <<"running", "done">>}
       /\ Finish(j, outcome)
  /\ UNCHANGED <<nodeOf, tried>>

\* Where sessions do not overlap, what is given back or answered for is running, on
\* the device that says so.
LEMMA OneJobPerStep ==
  ASSUME IInv, [Next]_vars
  PROVE  JobsRest \/ \E j \in Job : Accepts(j) \/ Starts(j) \/ GivesBack(j) \/ Finishes(j)
<1>1. TypeOK /\ SessionsInv /\ WorkInv
  BY DEF IInv
<1>2. ASSUME NEW s \in Session, Answers(s), busy[s] # None
      PROVE  status[busy[s]] = "running" /\ nodeOf[busy[s]] = DeviceOf[s]
  BY <1>1, <1>2 DEF WorkInv, BusyMatches
<1>3. ASSUME NEW s \in Session, Listening(s), held[s] # None
      PROVE  status[held[s]] = "running" /\ nodeOf[held[s]] = DeviceOf[s]
  <2>1. held[s] = busy[s] /\ Answers(s)
    BY <1>1, <1>3 DEF WorkInv, BusyMatches, SessionsInv, OneSessionPerDevice, Listening, Live, Answers
  <2> QED BY <1>2, <1>3, <2>1
<1>4. ASSUME NEW j \in Job, NEW s \in Session, Returns(s, j)
      PROVE  GivesBack(j)
  <2>1. status[j] = "running" /\ nodeOf[j] = DeviceOf[s]
    BY <1>2, <1>3, <1>4, DevicesAssumption DEF Returns, HasFrom, Answers
  <2> QED BY <1>4, <2>1 DEF Returns, GivesBack
<1>5. ASSUME NEW j \in Job, Ends(j)
      PROVE  Finishes(j)
  BY <1>3, <1>5, DevicesAssumption DEF Ends, Finishes
<1> QED BY <1>1, <1>4, <1>5, JobsStep

----------------------------------------------------------------------------
(* The result store *)

\* The end of a job keeps the store exact; a full store forgets one job that
\* ended before.
LEMMA FinishKeepsStore ==
  ASSUME TypeOK, StoreExact, NEW j \in Job, status[j] \notin Terminal,
         NEW outcome \in Terminal, Finish(j, outcome)
  PROVE  /\ StoreExact'
         /\ \/ /\ Len(doneOrder) < DoneCap
               /\ status' = [status EXCEPT ![j] = outcome]
            \/ /\ Len(doneOrder) = DoneCap
               /\ \E old \in Job :
                    /\ status[old] \in Terminal
                    /\ status' = [status EXCEPT ![j] = outcome, ![old] = "forgotten"]
<1> DEFINE done == Append(doneOrder, j)
           first == Head(done)
           ended == [status EXCEPT ![j] = outcome]
<1>1. /\ doneOrder \in Seq(Job) /\ done \in Seq(Job) /\ done # <<>>
      /\ Len(doneOrder) \in Nat /\ Len(done) = Len(doneOrder) + 1
  <2>1. doneOrder \in Seq(Job)
    BY DEF TypeOK
  <2>2. done \in Seq(Job) /\ Len(done) = Len(doneOrder) + 1 /\ Len(doneOrder) \in Nat
    BY <2>1, AppendProperties, LenProperties
  <2>3. done # <<>>
    BY <2>1, <2>2, EmptySeq
  <2> QED BY <2>1, <2>2, <2>3
<1>2. NoRepeat(doneOrder) /\ Len(doneOrder) <= DoneCap
      /\ ToSet(doneOrder) = {k \in Job : status[k] \in Terminal}
  BY DEF StoreExact, NoRepeat
<1>3. ToSet(done) = ToSet(doneOrder) \cup {j} /\ NoRepeat(done)
  BY <1>1, <1>2, AppendOnce
<1>4. \A k \in Job : ended[k] = IF k = j THEN outcome ELSE status[k]
  BY DEF TypeOK
<1>5. ToSet(done) = {k \in Job : ended[k] \in Terminal}
  BY <1>2, <1>3, <1>4
<1>6. /\ NoRepeat(Tail(done)) /\ first \in ToSet(done)
      /\ ToSet(Tail(done)) = ToSet(done) \ {first}
  BY <1>1, <1>3, TailOnce
<1>7. /\ Tail(done) \in Seq(Job) /\ Len(Tail(done)) = Len(doneOrder)
  BY <1>1, HeadTailProperties
<1>8. DoneCap \in Nat /\ DoneCap > 0
  BY CapsAssumption
<1>9. CASE Len(done) > DoneCap
  <2>1. Len(doneOrder) = DoneCap
    BY <1>1, <1>2, <1>8, <1>9
  <2>2. ended[first] \in Terminal /\ first \in Job
    BY <1>5, <1>6
  <2>3. doneOrder' = Tail(done) /\ status' = [ended EXCEPT ![first] = "forgotten"]
    BY <1>9, <2>2 DEF Finish
  <2>4. first # j
    <3>1. first = doneOrder[1] /\ 1 \in DOMAIN doneOrder
      BY <1>1, <1>8, <2>1
    <3> QED BY <1>2, <3>1 DEF ToSet
  <2>5. status[first] \in Terminal
    BY <1>4, <2>2, <2>4
  <2>6. \A k \in Job : status'[k] \in Terminal <=> ended[k] \in Terminal /\ k # first
    <3>1. ended \in [Job -> Status]
      BY DEF TypeOK
    <3> HIDE DEF ended, first
    <3> QED BY <2>3, <3>1
  <2>7. ToSet(doneOrder') = {k \in Job : status'[k] \in Terminal}
    BY <1>5, <1>6, <2>3, <2>6
  <2>8. Len(doneOrder') <= DoneCap /\ NoRepeat(doneOrder')
    BY <1>6, <1>7, <2>1, <2>3, <1>8
  <2>9. StoreExact'
    BY <2>7, <2>8 DEF StoreExact, NoRepeat
  <2> QED BY <2>1, <2>2, <2>3, <2>5, <2>9
<1>10. CASE ~(Len(done) > DoneCap)
  <2>1. Len(doneOrder) < DoneCap
    BY <1>1, <1>8, <1>10
  <2>2. doneOrder' = done /\ status' = ended
    BY <1>10 DEF Finish
  <2>3. Len(doneOrder') <= DoneCap
    BY <1>1, <1>8, <1>10, <2>2
  <2> HIDE DEF done, ended
  <2>4. StoreExact'
    BY <1>3, <1>5, <2>2, <2>3 DEF StoreExact, NoRepeat
  <2> QED BY <2>1, <2>2, <2>4 DEF ended
<1> QED BY <1>9, <1>10

\* Every step keeps the store exact.
LEMMA NextStore ==
  ASSUME IInv, StoreExact, [Next]_vars
  PROVE  StoreExact'
<1>1. TypeOK
  BY DEF IInv
<1>2. CASE JobsRest
  BY <1>2 DEF JobsRest, StoreExact
<1>3. ASSUME NEW j \in Job, NEW new \in Status \ Terminal, status[j] \notin Terminal,
             status' = [status EXCEPT ![j] = new], UNCHANGED doneOrder
      PROVE  StoreExact'
  <2>1. \A k \in Job : status'[k] \in Terminal <=> status[k] \in Terminal
    BY <1>1, <1>3 DEF TypeOK
  <2> QED BY <1>3, <2>1 DEF StoreExact
<1>4. ASSUME NEW j \in Job, Accepts(j) PROVE StoreExact'
  BY <1>3, <1>4 DEF Accepts
<1>5. ASSUME NEW j \in Job, Starts(j) PROVE StoreExact'
  BY <1>3, <1>5 DEF Starts, Assign
<1>6. ASSUME NEW j \in Job, GivesBack(j) PROVE StoreExact'
  BY <1>3, <1>6 DEF GivesBack, Requeue
<1>7. ASSUME NEW j \in Job, Finishes(j) PROVE StoreExact'
  <2>1. PICK outcome \in Terminal : Finish(j, outcome) /\ status[j] \notin Terminal
    BY <1>7 DEF Finishes
  <2> QED BY <1>1, <2>1, FinishKeepsStore
<1> QED BY <1>2, <1>4, <1>5, <1>6, <1>7, OneJobPerStep

\* The initial store is empty and no job has ended.
LEMMA InitStore == Init => StoreExact
<1> SUFFICES ASSUME Init PROVE StoreExact
  OBVIOUS
<1>1. doneOrder = <<>> /\ \A j \in Job : status[j] = "new"
  BY DEF Init
<1> QED BY <1>1, CapsAssumption DEF StoreExact, ToSet

\* When a device's sessions do not overlap, the result store holds each ended
\* job once and is within its cap (gateway.py:271-280).
THEOREM StoreIsExact ==
  ASSUME Overlap = FALSE
  PROVE  Spec => []StoreExact
<1>1. IInv /\ [Next]_vars => IInv'
  BY NextIInv
<1>2. IInv /\ StoreExact /\ [Next]_vars => StoreExact'
  BY NextStore
<1> QED BY <1>1, <1>2, InitIInv, InitStore, PTL DEF Spec

----------------------------------------------------------------------------
(* The dispatcher implements the lifecycle of a job *)

\* A job runs on a device that has been given it.
RunnerIsGiven == \A j \in Job : status[j] = "running" => nodeOf[j] \in tried[j] \ {None}

\* Every step keeps it.
LEMMA NextGiven ==
  ASSUME IInv, RunnerIsGiven, [Next]_vars
  PROVE  RunnerIsGiven'
<1> USE DevicesAssumption
<1>1. TypeOK
  BY DEF IInv
<1>2. CASE JobsRest
  BY <1>2 DEF JobsRest, RunnerIsGiven
<1>3. ASSUME NEW j \in Job, Accepts(j) PROVE RunnerIsGiven'
  BY <1>1, <1>3 DEF Accepts, RunnerIsGiven, TypeOK
<1>4. ASSUME NEW j \in Job, Starts(j) PROVE RunnerIsGiven'
  <2>1. PICK s \in Session : Assign(j, s)
    BY <1>4 DEF Starts, Candidates
  <2>2. DeviceOf[s] \in Device
    BY DeviceOfAssumption
  <2>3. /\ tried' = [tried EXCEPT ![j] = @ \cup {DeviceOf[s]}]
        /\ nodeOf' = [nodeOf EXCEPT ![j] = DeviceOf[s]]
        /\ status' = [status EXCEPT ![j] = "running"]
    BY <2>1 DEF Assign
  <2> QED BY <1>1, <2>2, <2>3 DEF RunnerIsGiven, TypeOK
<1>5. ASSUME NEW j \in Job, GivesBack(j) PROVE RunnerIsGiven'
  <2>1. /\ tried' = [tried EXCEPT ![j] = @ \cup {nodeOf[j]}]
        /\ nodeOf' = [nodeOf EXCEPT ![j] = None]
        /\ status' = [status EXCEPT ![j] = "queued"]
    BY <1>5 DEF GivesBack, Requeue
  <2> QED BY <1>1, <2>1 DEF RunnerIsGiven, TypeOK
<1>6. ASSUME NEW j \in Job, Finishes(j) PROVE RunnerIsGiven'
  <2>1. PICK outcome \in Terminal : Finish(j, outcome) /\ UNCHANGED <<nodeOf, tried>>
    BY <1>6 DEF Finishes
  <2>2. \A k \in Job : status'[k] = "running" => status[k] = "running"
    BY <1>1, <2>1, FinishEffect
  <2> QED BY <2>1, <2>2 DEF RunnerIsGiven
<1> QED BY <1>2, <1>3, <1>4, <1>5, <1>6, OneJobPerStep

\* JobLifecycle counts as the dispatcher does.
LEMMA SameCount ==
  ASSUME NEW S
  PROVE  Lifecycle!Cardinality(S) = Cardinality(S)
  BY DEF Cardinality, Lifecycle!Cardinality

\* The running set of a submitter, as JobLifecycle counts it.
LEMMA RunningCount ==
  ASSUME IInv, NEW j \in Job
  PROVE  {k \in Job : status[k] = "running" /\ OwnerOf[k] = OwnerOf[j]}
           = {k \in active : OwnerOf[k] = OwnerOf[j]}
  BY DEF IInv, WorkInv, ActiveIsRunning

\* What a step does to a job is a step of JobLifecycle.
LEMMA StepIsLifecycle ==
  ASSUME IInv, StoreExact, RunnerIsGiven, [Next]_vars
  PROVE  Lifecycle!Next \/ UNCHANGED Lifecycle!vars
<1> USE DEF Lifecycle!Ended
<1>1. TypeOK
  BY DEF IInv
<1>2. CASE JobsRest
  BY <1>2 DEF JobsRest, Lifecycle!vars
<1>3. ASSUME NEW j \in Job, Accepts(j) PROVE Lifecycle!Accept(j)
  BY <1>3 DEF Accepts, Lifecycle!Accept
<1>4. ASSUME NEW j \in Job, Starts(j) PROVE \E d \in Device : Lifecycle!Start(j, d)
  <2>1. PICK s \in Candidates(j) : Assign(j, s)
    BY <1>4 DEF Starts
  <2>2. DeviceOf[s] \in Device \ tried[j] /\ Target[j] \in {None, DeviceOf[s]}
    BY <2>1, DeviceOfAssumption DEF Candidates
  <2>3. \/ MaxConcurrent = 0
        \/ Cardinality({k \in Job : status[k] = "running" /\ OwnerOf[k] = OwnerOf[j]})
             < MaxConcurrent
    <3>1. IsFiniteSet({k \in active : OwnerOf[k] = OwnerOf[j]})
      BY <1>1, JobsAssumption, FS_Subset DEF TypeOK
    <3>2. Cardinality({k \in active : OwnerOf[k] = OwnerOf[j]}) \in Nat
      BY <3>1, FS_CardinalityType
    <3> QED BY <1>4, <3>2, RunningCount, CapsAssumption DEF Starts, AtCap
  <2>4. Lifecycle!Start(j, DeviceOf[s])
    BY <1>4, <2>1, <2>2, <2>3, SameCount DEF Starts, Assign, Lifecycle!Start
  <2> QED BY <2>2, <2>4
<1>5. ASSUME NEW j \in Job, GivesBack(j) PROVE Lifecycle!GiveBack(j)
  <2>1. tried' = tried
    BY <1>1, <1>5 DEF GivesBack, Requeue, RunnerIsGiven, TypeOK
  <2> QED BY <1>5, <2>1 DEF GivesBack, Requeue, Lifecycle!GiveBack
<1>6. ASSUME NEW j \in Job, Finishes(j) PROVE Lifecycle!End(j)
  <2>1. PICK outcome \in Terminal :
          /\ <<status[j], outcome>> \in
               {<<"new", "failed">>, <<"queued", "cancelled">>, <<"running", "done">>}
          /\ Finish(j, outcome) /\ UNCHANGED <<nodeOf, tried>>
    BY <1>6 DEF Finishes
  <2>2. status[j] \notin Terminal
    BY <2>1
  <2>3. Cardinality({k \in Job : status[k] \in Terminal}) = Len(doneOrder)
    BY <1>1, CountOnce DEF StoreExact, NoRepeat, TypeOK
  <2>4. \/ /\ Len(doneOrder) < DoneCap
           /\ status' = [status EXCEPT ![j] = outcome]
        \/ /\ Len(doneOrder) = DoneCap
           /\ \E old \in Job :
                /\ status[old] \in Terminal
                /\ status' = [status EXCEPT ![j] = outcome, ![old] = "forgotten"]
    BY <1>1, <2>1, <2>2, FinishKeepsStore
  <2> QED BY <2>1, <2>3, <2>4, SameCount DEF Lifecycle!End
<1> QED BY <1>2, <1>3, <1>4, <1>5, <1>6, OneJobPerStep DEF Lifecycle!Next

\* When a device's sessions do not overlap, every behaviour of the dispatcher is
\* one of JobLifecycle: a job waits, runs on a device that had not had it and
\* within the cap, comes back and ends, and nothing else.
THEOREM GatewayImplementsLifecycle ==
  ASSUME Overlap = FALSE
  PROVE  Spec => ImplementsLifecycle
<1>1. Init => RunnerIsGiven
  BY DEF Init, RunnerIsGiven
<1>2. Init => Lifecycle!Init
  BY DEF Init, Lifecycle!Init
<1>3. IInv /\ [Next]_vars => IInv'
  BY NextIInv
<1>4. IInv /\ StoreExact /\ RunnerIsGiven /\ [Next]_vars => StoreExact' /\ RunnerIsGiven'
  BY NextStore, NextGiven
<1>5. IInv /\ StoreExact /\ RunnerIsGiven /\ [Next]_vars
        => [Lifecycle!Next]_(Lifecycle!vars)
  BY StepIsLifecycle
<1>6. Spec => Lifecycle!Spec
  BY <1>1, <1>2, <1>3, <1>4, <1>5, InitIInv, InitStore, PTL DEF Spec, Lifecycle!Spec
<1> QED BY <1>6 DEF ImplementsLifecycle

----------------------------------------------------------------------------
(* The devices that the dispatcher asks for no more than they do *)

\* A connection is open only while its handler has not returned.
OpenHasHandler == \A s \in up : phase[s] \notin {"new", "over"}

LEMMA NextOpen ==
  ASSUME TypeOK, OpenHasHandler, [Next]_vars
  PROVE  OpenHasHandler'
<1>1. CASE UNCHANGED <<up, phase>>
  BY <1>1 DEF OpenHasHandler
<1>2. ASSUME NEW s \in Session, HandlerReturns(s) PROVE OpenHasHandler'
  BY <1>2 DEF HandlerReturns, OpenHasHandler, TypeOK
<1>3. ASSUME NEW s \in Session, Teardown(s) PROVE OpenHasHandler'
  BY <1>3 DEF Teardown, OpenHasHandler, TypeOK
<1>4. ASSUME NEW t \in Task, AfterDrain(t) PROVE OpenHasHandler'
  <2>1. CASE t # Poll /\ phase[t] = "closing"
    BY <1>2, <1>4, <2>1 DEF AfterDrain, Task
  <2>2. CASE ~(t # Poll /\ phase[t] = "closing")
    BY <1>4, <2>2 DEF AfterDrain, OpenHasHandler, TypeOK, Task
  <2> QED BY <2>1, <2>2
<1>5. ASSUME NEW t \in Task, Run(t) PROVE OpenHasHandler'
  <2>1. CASE DrainEnds(t)
    BY <1>4, <2>1 DEF DrainEnds
  <2>2. CASE SendRaises(t)
    <3>1. UNCHANGED <<up, phase>> \/ (t \in Session /\ (Teardown(t) \/ HandlerReturns(t)))
      BY <2>2 DEF SendRaises, netVars, Task
    <3> QED BY <1>1, <1>2, <1>3, <3>1
  <2>3. CASE t \in Session /\ GiveBack(t)
    <3>1. UNCHANGED <<up, phase>> \/ HandlerReturns(t)
      BY <2>3 DEF GiveBack
    <3> QED BY <1>1, <1>2, <2>3, <3>1
  <2>4. CASE t \in Session /\ (RegisterRaises(t) \/ SessionEnds(t))
    BY <1>2, <1>3, <2>4 DEF RegisterRaises, SessionEnds
  <2>5. CASE DrainStep(t) \/ SendReturns(t) \/ (t \in Session /\ PushReturns(t))
    BY <1>1, <2>5 DEF DrainStep, SendReturns, PushReturns, netVars
  <2> QED BY <1>5, <2>1, <2>2, <2>3, <2>4, <2>5 DEF Run
<1>6. ASSUME NEW s \in Session, Register(s) \/ Message(s) \/ LoseConnection(s) PROVE OpenHasHandler'
  <2>1. CASE Register(s)
    BY <2>1 DEF Register, OpenHasHandler, TypeOK
  <2>2. CASE LoseConnection(s)
    BY <2>2 DEF LoseConnection, OpenHasHandler, TypeOK
  <2>3. CASE Message(s)
    BY <1>1, <2>3 DEF Message, Availability, JobResult, JobEvicted, JobRefused, Returned, netVars
  <2> QED BY <1>6, <2>1, <2>2, <2>3
<1>7. CASE UNCHANGED vars \/ PollTick \/ \E j \in Job : Submit(j) \/ CancelQueued(j)
  BY <1>1, <1>7 DEF vars, PollTick, Submit, CancelQueued, netVars
<1> QED BY <1>5, <1>6, <1>7 DEF Next

\* The variables of DeviceLink as Link maps them.
DevUp == {d \in Device : Reached(d)}
DevLent == {d \in Device : Reached(d) /\ nodes[d] \in available}
DevHas == [d \in Device |-> IF Reached(d) THEN {held[nodes[d]]} \ {None} ELSE {}]
DevGiven == [d \in Device |-> {j \in Job : d \in tried[j]}]

\* A device is reached by the session that is listed under its own id.
LEMMA ReachedBy ==
  ASSUME IInv
  PROVE  /\ \A s \in Session : Live(s) => Reached(DeviceOf[s]) /\ nodes[DeviceOf[s]] = s
         /\ \A d \in Device : Reached(d) => nodes[d] \in Session /\ DeviceOf[nodes[d]] = d
<1>1. SessionsInv /\ TypeOK
  BY DEF IInv
<1>2. ASSUME NEW s \in Session, Live(s) PROVE Reached(DeviceOf[s]) /\ nodes[DeviceOf[s]] = s
  BY <1>1, <1>2, DevicesAssumption DEF SessionsInv, OneSessionPerDevice, Listed, Reached
<1>3. ASSUME NEW d \in Device, Reached(d) PROVE nodes[d] \in Session /\ DeviceOf[nodes[d]] = d
  BY <1>1, <1>3 DEF SessionsInv, RegistryMatches, Reached, TypeOK
<1> QED BY <1>2, <1>3

\* A step that changes neither registry, nor phases, nor what agents have.
LEMMA LinkRests ==
  ASSUME TypeOK, UNCHANGED <<nodes, available, held, tried>>,
         \A s \in Session : Live(s)' = Live(s)
  PROVE  UNCHANGED Link!vars
<1>1. ASSUME NEW d \in Device PROVE Reached(d)' = Reached(d)
  BY DEF Reached, TypeOK
<1>2. DevUp' = DevUp /\ DevLent' = DevLent /\ DevHas' = DevHas /\ DevGiven' = DevGiven
  BY <1>1 DEF DevUp, DevLent, DevHas, DevGiven
<1> QED BY <1>2 DEF Link!vars, DevUp, DevLent, DevHas, DevGiven

\* A session that is read no longer takes its device with it.
LEMMA LinkLoses ==
  ASSUME IInv, NEW s \in Session, Live(s), NEW p \in {"closing", "over"},
         phase' = [phase EXCEPT ![s] = p],
         nodes' = nodes \/ nodes' = [nodes EXCEPT ![DeviceOf[s]] = None],
         UNCHANGED <<available, held, tried>>
  PROVE  Link!Lose(DeviceOf[s])
<1> DEFINE d == DeviceOf[s]
<1>1. d \in Device /\ Reached(d) /\ nodes[d] = s /\ TypeOK
  BY ReachedBy, DeviceOfAssumption DEF IInv
<1>2. ~Reached(d)'
  BY <1>1 DEF Reached, Live, TypeOK
<1>3. ASSUME NEW e \in Device, e # d PROVE Reached(e)' = Reached(e) /\ nodes'[e] = nodes[e]
  <2>1. nodes'[e] = nodes[e]
    BY <1>1, <1>3 DEF TypeOK
  <2>2. CASE nodes[e] = s
    <3>1. ~Reached(e)
      BY <1>3, <2>2, ReachedBy
    <3>2. ~Reached(e)'
      BY <1>1, <2>1, <2>2 DEF Reached, Live, TypeOK
    <3> QED BY <2>1, <3>1, <3>2 DEF Reached
  <2>3. CASE nodes[e] # s
    BY <1>1, <2>1, <2>3 DEF Reached, Live, TypeOK
  <2> QED BY <2>1, <2>2, <2>3
<1> HIDE DEF d
<1>4. DevUp' = DevUp \ {d} /\ DevLent' = DevLent \ {d}
  BY <1>2, <1>3 DEF DevUp, DevLent
<1>5. DevHas' = [DevHas EXCEPT ![d] = {}]
  BY <1>2, <1>3 DEF DevHas
<1>6. d \in DevUp /\ DevGiven' = DevGiven
  BY <1>1 DEF DevUp, DevGiven
<1> QED BY <1>4, <1>5, <1>6 DEF Link!Lose, DevUp, DevLent, DevHas, DevGiven, d

\* A session that registers is its device's only one.
LEMMA LinkRegisters ==
  ASSUME Overlap = FALSE, IInv, NEW s \in Session, Register(s)
  PROVE  Link!Register(DeviceOf[s])
<1> DEFINE d == DeviceOf[s]
<1>1. d \in Device /\ TypeOK /\ None \notin Session
  BY DeviceOfAssumption, DevicesAssumption DEF IInv
<1>2. /\ phase[s] = "new" /\ phase' = [phase EXCEPT ![s] = "registering"]
      /\ nodes' = [nodes EXCEPT ![d] = s]
      /\ available' \in {available, available \cup {s}}
      /\ UNCHANGED <<held, tried>>
  BY DEF Register, jobVars
<1>3. ~Reached(d)
  <2>1. \A r \in Session : DeviceOf[r] = d => phase[r] \in {"new", "over"}
    BY DEF Register, MayConnect
  <2> QED BY <1>1, <2>1, ReachedBy DEF Reached, Live
<1>4. Reached(d)' /\ nodes'[d] = s
  BY <1>1, <1>2 DEF Reached, Live, TypeOK
<1>5. held[s] = None
  BY <1>2 DEF IInv, WorkInv, BusyMatches
<1>6. ASSUME NEW e \in Device, e # d
      PROVE  /\ Reached(e)' = Reached(e) /\ nodes'[e] = nodes[e]
             /\ Reached(e) => (nodes[e] \in available' <=> nodes[e] \in available)
  <2>1. nodes'[e] = nodes[e] /\ nodes[e] # s
    <3>1. nodes[e] # None => DeviceOf[nodes[e]] = e
      BY DEF IInv, SessionsInv, RegistryMatches
    <3> QED BY <1>1, <1>2, <1>6, <3>1 DEF TypeOK
  <2> QED BY <1>1, <1>2, <2>1 DEF Reached, Live, TypeOK
<1> HIDE DEF d
<1>7. DevUp' = DevUp \cup {d}
  BY <1>1, <1>4, <1>6 DEF DevUp
<1>8. DevLent' \in {DevLent, DevLent \cup {d}}
  BY <1>1, <1>3, <1>4, <1>6 DEF DevLent
<1>9. DevHas' = DevHas
  BY <1>2, <1>3, <1>4, <1>5, <1>6 DEF DevHas
<1>10. d \notin DevUp /\ DevGiven' = DevGiven
  BY <1>2, <1>3 DEF DevUp, DevGiven
<1> QED BY <1>7, <1>8, <1>9, <1>10 DEF Link!Register, DevUp, DevLent, DevHas, DevGiven, d

\* A device that tells of itself, with or without an answer for its job.
LEMMA LinkTells ==
  ASSUME IInv, NEW s \in Session, Live(s),
         available' \in {available, available \cup {s}, available \ {s}},
         UNCHANGED <<nodes, phase, tried>>
  PROVE  /\ held' = held => Link!Report(DeviceOf[s])
         /\ /\ held[s] # None /\ held' = [held EXCEPT ![s] = None]
            /\ available' \in {available, available \ {s}}
            => Link!Answer(DeviceOf[s])
<1> DEFINE d == DeviceOf[s]
<1>1. d \in Device /\ Reached(d) /\ nodes[d] = s /\ TypeOK
  BY ReachedBy, DeviceOfAssumption DEF IInv
<1>2. ASSUME NEW e \in Device PROVE Reached(e)' = Reached(e) /\ nodes'[e] = nodes[e]
  BY DEF Reached, Live
<1>3. ASSUME NEW e \in Device, e # d, Reached(e) PROVE nodes[e] # s /\ nodes[e] \in Session
  BY <1>3, ReachedBy
<1> HIDE DEF d
<1>4. DevUp' = DevUp /\ DevGiven' = DevGiven /\ d \in DevUp
  BY <1>1, <1>2 DEF DevUp, DevGiven
<1>5. \A e \in Device \ {d} : e \in DevLent' <=> e \in DevLent
  BY <1>2, <1>3 DEF DevLent
<1>6. DevLent' \in {DevLent \ {d}, DevLent \cup {d}}
  <2>1. DevLent' \subseteq Device /\ DevLent \subseteq Device
    BY DEF DevLent
  <2> QED BY <1>1, <1>5, <2>1
<1>7. available' \in {available, available \ {s}} => DevLent' \in {DevLent, DevLent \ {d}}
  <2>1. d \in DevLent <=> s \in available
    BY <1>1 DEF DevLent
  <2>2. d \in DevLent' <=> s \in available'
    BY <1>1, <1>2 DEF DevLent
  <2>3. DevLent' \subseteq Device /\ DevLent \subseteq Device
    BY DEF DevLent
  <2> QED BY <1>1, <1>5, <2>1, <2>2, <2>3
<1>8. CASE held' = held
  <2>1. DevHas' = DevHas
    BY <1>2, <1>8 DEF DevHas
  <2>2. Link!Report(DeviceOf[s])
    BY <1>4, <1>6, <2>1 DEF Link!Report, DevUp, DevLent, DevHas, DevGiven, d
  <2> QED BY <1>8, <2>2 DEF IInv, TypeOK
<1>9. CASE /\ held[s] # None /\ held' = [held EXCEPT ![s] = None]
           /\ available' \in {available, available \ {s}}
  <2>1. DevHas[d] # {}
    BY <1>1, <1>9 DEF DevHas
  <2>2. DevHas' = [DevHas EXCEPT ![d] = {}]
    BY <1>1, <1>2, <1>3, <1>9 DEF DevHas, TypeOK
  <2>3. Link!Answer(DeviceOf[s])
    BY <1>4, <1>7, <1>9, <2>1, <2>2 DEF Link!Answer, DevUp, DevLent, DevHas, DevGiven, d
  <2> QED BY <1>1, <1>9, <2>3 DEF TypeOK
<1> QED BY <1>8, <1>9

\* A job that is assigned reaches a device that may have it, or none.
LEMMA LinkAssigns ==
  ASSUME IInv, OpenHasHandler, UNCHANGED netVars,
         NEW j \in Job, NEW s \in Candidates(j), Assign(j, s)
  PROVE  Link!Assign(DeviceOf[s], j) \/ Link!AssignInVain(DeviceOf[s], j)
<1> DEFINE d == DeviceOf[s]
<1>1. /\ s \in Session /\ d \in Device /\ TypeOK /\ nodes[d] = s
      /\ s \in available /\ busy[s] = None /\ d \notin tried[j]
  BY DeviceOfAssumption DEF IInv, Candidates, Listed
<1>2. ASSUME NEW e \in Device PROVE Reached(e)' = Reached(e) /\ nodes'[e] = nodes[e]
  BY DEF Reached, Live, netVars
<1>3. tried' = [tried EXCEPT ![j] = @ \cup {d}] /\ available' = available
  BY DEF Assign, netVars
<1>4. j \notin DevGiven[d] /\ DevGiven' = [DevGiven EXCEPT ![d] = @ \cup {j}]
  <2> HIDE DEF d
  <2>1. \A e \in Device : DevGiven'[e] = IF e = d THEN DevGiven[e] \cup {j} ELSE DevGiven[e]
    BY <1>1, <1>3 DEF DevGiven, TypeOK
  <2> QED BY <1>1, <2>1 DEF DevGiven
<1>5. DevUp' = DevUp /\ DevLent' = DevLent
  BY <1>2, <1>3 DEF DevUp, DevLent
<1>6. CASE s \in up
  <2>1. held' = [held EXCEPT ![s] = j] /\ j # None
    BY <1>6, DevicesAssumption DEF Assign
  <2>2. Reached(d)
    <3>1. phase[s] \in {"registering", "serving"}
      BY <1>1, <1>6, DevicesAssumption DEF OpenHasHandler, IInv, SessionsInv, RegistryMatches
    <3> QED BY <1>1, <3>1, DevicesAssumption DEF Reached, Live
  <2>3. held[s] = None
    BY <1>1, <2>2 DEF IInv, WorkInv, BusyMatches, Reached
  <2>4. \A e \in Device : e # d /\ Reached(e) => nodes[e] # s /\ nodes[e] \in Session
    BY ReachedBy
  <2> HIDE DEF d
  <2>5. DevHas[d] = {} /\ d \in DevLent
    BY <1>1, <2>2, <2>3 DEF DevHas, DevLent
  <2>6. DevHas' = [DevHas EXCEPT ![d] = {j}]
    <3>1. held'[s] = j /\ \A r \in Session \ {s} : held'[r] = held[r]
      BY <1>1, <2>1 DEF TypeOK
    <3>2. DevHas'[d] = {j}
      BY <1>1, <1>2, <2>1, <2>2, <3>1 DEF DevHas
    <3>3. \A e \in Device \ {d} : DevHas'[e] = DevHas[e]
      BY <1>1, <1>2, <2>4, <3>1 DEF DevHas
    <3> QED BY <3>2, <3>3 DEF DevHas
  <2>7. Link!Assign(d, j)
    BY <1>4, <1>5, <2>5, <2>6 DEF Link!Assign, DevUp, DevLent, DevHas, DevGiven
  <2> QED BY <2>7 DEF d
<1>7. CASE s \notin up
  <2>1. held' = held
    BY <1>7 DEF Assign
  <2> HIDE DEF d
  <2>2. DevHas' = DevHas
    BY <1>2, <2>1 DEF DevHas
  <2>3. Link!AssignInVain(d, j)
    BY <1>4, <1>5, <2>2 DEF Link!AssignInVain, DevUp, DevLent, DevHas, DevGiven
  <2> QED BY <2>3 DEF d
<1> QED BY <1>6, <1>7

\* A device that gives a job back had been given it.
LEMMA ReturnedWasGiven ==
  ASSUME IInv, RunnerIsGiven, NEW s \in Session, Live(s) \/ pc[s] = "report",
         NEW j \in Job, busy[s] = j \/ (Live(s) /\ held[s] = j), Requeue(j, DeviceOf[s])
  PROVE  tried' = tried
<1>1. Answers(s) /\ busy[s] = j
  BY DevicesAssumption
     DEF IInv, SessionsInv, OneSessionPerDevice, WorkInv, BusyMatches, Answers
<1>2. status[j] = "running" /\ nodeOf[j] = DeviceOf[s]
  BY <1>1, DevicesAssumption DEF IInv, WorkInv, BusyMatches
<1>3. DeviceOf[s] \in tried[j]
  BY <1>2 DEF RunnerIsGiven
<1> QED BY <1>3 DEF Requeue, IInv, TypeOK

\* What a step does to devices is a step of DeviceLink.
LEMMA GatewayStepIsLink ==
  ASSUME Overlap = FALSE, IInv, RunnerIsGiven, OpenHasHandler, [Next]_vars
  PROVE  [Link!Next]_(Link!vars)
<1> SUFFICES \/ UNCHANGED Link!vars
             \/ \E d \in Device :
                  \/ Link!Register(d) \/ Link!Report(d) \/ Link!Answer(d) \/ Link!Lose(d)
                  \/ \E j \in Job : Link!Assign(d, j) \/ Link!AssignInVain(d, j)
  BY DEF Link!Next
<1>1. TypeOK /\ SessionsInv /\ \A s \in Session : DeviceOf[s] \in Device
  BY DeviceOfAssumption DEF IInv
<1>2. ASSUME UNCHANGED netVars, UNCHANGED <<held, tried>> PROVE UNCHANGED Link!vars
  BY <1>1, <1>2, LinkRests DEF netVars, Live
<1>3. ASSUME NEW j \in Job, NEW s \in Candidates(j), Assign(j, s), UNCHANGED netVars
      PROVE  \E d \in Device : Link!Assign(d, j) \/ Link!AssignInVain(d, j)
  BY <1>1, <1>3, LinkAssigns DEF Candidates
<1>4. ASSUME NEW s \in Session, HandlerReturns(s), UNCHANGED <<nodes, available, held, tried>>,
             phase[s] \in {"registering", "closing"}
      PROVE  UNCHANGED Link!vars \/ \E d \in Device : Link!Lose(d)
  <2>1. phase' = [phase EXCEPT ![s] = "over"]
    BY <1>4 DEF HandlerReturns
  <2>2. CASE phase[s] = "registering"
    BY <1>1, <1>4, <2>1, <2>2, LinkLoses DEF Live
  <2>3. CASE phase[s] = "closing"
    BY <1>1, <1>4, <2>1, <2>3, LinkRests DEF Live, TypeOK
  <2> QED BY <1>4, <2>2, <2>3
<1>5. ASSUME NEW s \in Session, Teardown(s), UNCHANGED <<held, tried>>, phase[s] = "serving"
      PROVE  \E d \in Device : Link!Lose(d)
  BY <1>1, <1>5, LinkLoses DEF Teardown, Live
<1>6. ASSUME NEW t \in Task, Run(t)
      PROVE  \/ UNCHANGED Link!vars
             \/ \E d \in Device :
                  \/ Link!Lose(d)
                  \/ \E j \in Job : Link!Assign(d, j) \/ Link!AssignInVain(d, j)
  <2>1. CASE DrainStep(t)
    <3> DEFINE j == Head(queue)
    <3>1. j \in Job
      BY <1>1, <2>1, HeadTailType DEF DrainStep, TypeOK
    <3>2. UNCHANGED netVars /\ (UNCHANGED jobVars \/ \E s \in Candidates(j) : Assign(j, s))
      BY <2>1 DEF DrainStep
    <3> HIDE DEF j
    <3> QED BY <1>2, <1>3, <3>1, <3>2 DEF jobVars
  <2>2. CASE DrainEnds(t)
    <3>1. UNCHANGED <<nodes, available, held, tried>> /\ AfterDrain(t)
      BY <2>2 DEF DrainEnds, jobVars
    <3>2. CASE t # Poll /\ phase[t] = "closing"
      BY <1>4, <3>1, <3>2 DEF AfterDrain, Task
    <3>3. CASE ~(t # Poll /\ phase[t] = "closing")
      <4>1. phase' \in {phase, [phase EXCEPT ![t] = "serving"]}
              /\ (phase' # phase => t \in Session /\ phase[t] = "registering")
        BY <3>1, <3>3 DEF AfterDrain, Task
      <4>2. \A s \in Session : Live(s)' = Live(s)
        BY <1>1, <4>1 DEF Live, TypeOK
      <4> QED BY <1>1, <3>1, <4>2, LinkRests
    <3> QED BY <3>2, <3>3
  <2>3. CASE SendRaises(t)
    <3>1. UNCHANGED <<held, tried>> /\ pc[t] = "send"
      BY <2>3 DEF SendRaises, jobVars
    <3>2. CASE t = Poll
      BY <1>2, <2>3, <3>1, <3>2 DEF SendRaises
    <3>3. CASE t \in Session /\ phase[t] = "serving"
      BY <1>5, <2>3, <3>1, <3>3, PollAssumption DEF SendRaises
    <3>4. CASE t \in Session /\ phase[t] # "serving"
      <4>1. phase[t] \in {"registering", "closing"}
        BY <1>1, <3>1, <3>4 DEF SessionsInv, PhaseMatchesPc, TypeOK
      <4>2. HandlerReturns(t) /\ UNCHANGED <<nodes, available>>
        BY <2>3, <3>4, PollAssumption DEF SendRaises
      <4> QED BY <1>4, <3>1, <3>4, <4>1, <4>2
    <3> QED BY <3>2, <3>3, <3>4 DEF Task
  <2>4. CASE t \in Session /\ GiveBack(t)
    <3>1. phase[t] = "closing" /\ pc[t] = "report" /\ UNCHANGED <<nodes, available>>
      BY <1>1, <2>4 DEF GiveBack, SessionsInv, PhaseMatchesPc, TypeOK
    <3>2. CASE busy[t] # None /\ status[busy[t]] # "forgotten"
      <4>1. Requeue(busy[t], DeviceOf[t]) /\ UNCHANGED <<up, phase, held>> /\ busy[t] \in Job
        BY <1>1, <2>4, <3>2 DEF GiveBack, TypeOK
      <4>2. tried' = tried
        BY <2>4, <3>1, <4>1, ReturnedWasGiven
      <4> QED BY <1>2, <3>1, <4>1, <4>2 DEF netVars
    <3>3. CASE ~(busy[t] # None /\ status[busy[t]] # "forgotten")
      <4>1. HandlerReturns(t) /\ UNCHANGED <<held, tried>>
        BY <2>4, <3>3 DEF GiveBack, jobVars
      <4> QED BY <1>4, <2>4, <3>1, <4>1
    <3> QED BY <3>2, <3>3
  <2>5. CASE t \in Session /\ RegisterRaises(t)
    BY <1>4, <2>5 DEF RegisterRaises, jobVars
  <2>6. CASE t \in Session /\ SessionEnds(t)
    BY <1>5, <2>6 DEF SessionEnds, Listening, jobVars
  <2>7. CASE SendReturns(t) \/ (t \in Session /\ PushReturns(t))
    BY <1>2, <2>7 DEF SendReturns, PushReturns, jobVars
  <2> QED BY <1>6, <2>1, <2>2, <2>3, <2>4, <2>5, <2>6, <2>7 DEF Run
<1>7. ASSUME NEW s \in Session, Message(s)
      PROVE  UNCHANGED Link!vars \/ \E d \in Device : Link!Report(d) \/ Link!Answer(d)
  <2>1. Listening(s) /\ Live(s)
    BY <1>7 DEF Message, Availability, JobResult, JobEvicted, JobRefused, Listening, Live
  <2>2. CASE Availability(s)
    <3>1. /\ available' \in {available, available \cup {s}, available \ {s}}
          /\ UNCHANGED <<nodes, phase, tried, held>>
      BY <2>2 DEF Availability, jobVars
    <3> QED BY <1>1, <2>1, <3>1, LinkTells
  <2>3. CASE JobResult(s)
    <3>1. /\ held[s] # None /\ held' = [held EXCEPT ![s] = None]
          /\ UNCHANGED <<nodes, phase, tried, available>>
      BY <2>3 DEF JobResult, netVars
    <3> QED BY <1>1, <2>1, <3>1, LinkTells
  <2>4. CASE JobEvicted(s) \/ JobRefused(s)
    <3>1. /\ held[s] # None /\ held' = [held EXCEPT ![s] = None]
          /\ available' \in {available, available \ {s}}
          /\ UNCHANGED <<nodes, phase>>
          /\ tried' = tried \/ Requeue(held[s], DeviceOf[s])
      BY <2>4 DEF JobEvicted, JobRefused, Returned
    <3>2. held[s] \in Job
      BY <1>1, <3>1 DEF TypeOK
    <3>3. tried' = tried
      BY <2>1, <3>1, <3>2, ReturnedWasGiven
    <3> QED BY <1>1, <2>1, <3>1, <3>3, LinkTells
  <2> QED BY <1>7, <2>2, <2>3, <2>4 DEF Message
<1>8. ASSUME NEW j \in Job, Submit(j) \/ CancelQueued(j)
      PROVE  \/ UNCHANGED Link!vars
             \/ \E d \in Device : Link!Assign(d, j) \/ Link!AssignInVain(d, j)
  <2>1. UNCHANGED netVars /\ (UNCHANGED <<held, tried>> \/ \E s \in Candidates(j) : Assign(j, s))
    BY <1>8 DEF Submit, CancelQueued
  <2> QED BY <1>2, <1>3, <2>1
<1>9. ASSUME NEW s \in Session, LoseConnection(s) PROVE UNCHANGED Link!vars
  BY <1>1, <1>9, LinkRests DEF LoseConnection, jobVars, Live
<1>10. ASSUME NEW s \in Session, Register(s) PROVE \E d \in Device : Link!Register(d)
  BY <1>1, <1>10, LinkRegisters
<1>11. CASE UNCHANGED vars \/ PollTick
  BY <1>2, <1>11 DEF vars, PollTick, jobVars
<1> QED BY <1>6, <1>7, <1>8, <1>9, <1>10, <1>11 DEF Next

\* When a device's sessions do not overlap, the dispatcher asks of a device only what
\* DeviceLink says one does, whatever is lost between them: the agent, which implements
\* it too, never has a job too many, nor one it has had (gateway.py:178-309, 629-685).
THEOREM GatewayImplementsLink ==
  ASSUME Overlap = FALSE
  PROVE  Spec => ImplementsLink
<1>1. Init => RunnerIsGiven /\ OpenHasHandler
  BY DEF Init, RunnerIsGiven, OpenHasHandler
<1>2. Init => Link!Init
  BY DEF Init, Link!Init, Reached
<1>3. IInv /\ [Next]_vars => IInv'
  BY NextIInv
<1>4. IInv /\ RunnerIsGiven /\ [Next]_vars => RunnerIsGiven'
  BY NextGiven
<1>5. IInv /\ OpenHasHandler /\ [Next]_vars => OpenHasHandler'
  BY NextOpen DEF IInv
<1>6. IInv /\ RunnerIsGiven /\ OpenHasHandler /\ [Next]_vars => [Link!Next]_(Link!vars)
  BY GatewayStepIsLink
<1> QED BY <1>1, <1>2, <1>3, <1>4, <1>5, <1>6, InitIInv, PTL DEF Spec, ImplementsLink, Link!Spec

----------------------------------------------------------------------------
(* A job waits in one place *)

\* Removing an element repeats nothing, brings nothing in and takes nothing else.
LEMMA RemoveOnce ==
  ASSUME NEW S, NEW q \in Seq(S), NEW e, NoRepeat(q)
  PROVE  /\ NoRepeat(RemoveFirst(q, e))
         /\ ToSet(RemoveFirst(q, e)) \subseteq ToSet(q)
         /\ ToSet(q) \ {e} \subseteq ToSet(RemoveFirst(q, e))
<1> DEFINE I == {i \in 1..Len(q) : q[i] = e}
           m == Min(I)
           r == RemoveFirst(q, e)
<1>1. CASE I = {}
  BY <1>1 DEF RemoveFirst
<1>2. CASE I # {}
  <2>1. SelectInSeq(q, LAMBDA v : v = e) = m
    BY <1>2 DEF SelectInSeq
  <2>2. m \in 1..Len(q) /\ q[m] = e
    <3>1. Len(q) \in Nat /\ I \in SUBSET (1..Len(q))
      OBVIOUS
    <3>2. m \in I
      <4> HIDE DEF I
      <4> QED BY <1>2, <3>1, FirstPosition
    <3> HIDE DEF m
    <3> QED BY <3>2
  <2> DEFINE before == SubSeq(q, 1, m - 1)
             after == SubSeq(q, m + 1, Len(q))
  <2>3. r = before \o after
    BY <1>2, <2>1 DEF RemoveFirst, RemoveAt
  <2> HIDE DEF I, m, r
  <2>4. Len(q) \in Nat /\ DOMAIN q = 1..Len(q) /\ m \in Nat /\ \A i \in 1..Len(q) : q[i] \in S
    BY <2>2, LenProperties, ElementOfSeq
  <2>5. /\ before \in Seq(S) /\ Len(before) = m - 1
        /\ \A i \in 1..(m - 1) : before[i] = q[i]
    <3>1. 1 \in Int /\ m - 1 \in Int /\ \A i \in 1..(m - 1) : q[i] \in S
      BY <2>2, <2>4
    <3>2. 1 <= m - 1 \/ m - 1 = 0
      BY <2>2
    <3> QED BY <2>2, <3>1, <3>2, SubSeqProperties
  <2>6. /\ after \in Seq(S) /\ Len(after) = Len(q) - m
        /\ \A i \in 1..(Len(q) - m) : after[i] = q[i + m]
    <3>1. m + 1 \in Int /\ Len(q) \in Int /\ \A i \in (m + 1)..Len(q) : q[i] \in S
      BY <2>2, <2>4
    <3>2. /\ after \in Seq(S)
          /\ Len(after) = IF m + 1 <= Len(q) THEN Len(q) - (m + 1) + 1 ELSE 0
          /\ \A i \in 1..(Len(q) - (m + 1) + 1) : after[i] = q[(m + 1) + i - 1]
      BY <3>1, SubSeqProperties
    <3> HIDE DEF after
    <3>3. Len(q) - (m + 1) + 1 = Len(q) - m
      BY <2>4
    <3>4. \A i \in 1..(Len(q) - m) : (m + 1) + i - 1 = i + m
      BY <2>4
    <3>5. Len(after) = Len(q) - m
      <4>1. CASE m + 1 <= Len(q)
        BY <3>2, <3>3, <4>1
      <4>2. CASE ~(m + 1 <= Len(q))
        <5>1. \A n \in Nat : m \in 1..n /\ ~(m + 1 <= n) => n - m = 0
          OBVIOUS
        <5>2. Len(q) - m = 0
          BY <2>2, <2>4, <4>2, <5>1
        <5> QED BY <3>2, <4>2, <5>2
      <4> QED BY <4>1, <4>2
    <3>6. \A i \in 1..(Len(q) - m) : after[i] = q[(m + 1) + i - 1]
      BY <3>2, <3>3
    <3>7. \A i \in 1..(Len(q) - m) : after[i] = q[i + m]
      BY <3>4, <3>6
    <3> QED BY <3>2, <3>5, <3>7
  <2> HIDE DEF before, after
  <2>7. /\ DOMAIN r = 1..(Len(q) - 1)
        /\ \A i \in DOMAIN r : r[i] = IF i < m THEN q[i] ELSE q[i + 1]
    <3>1. /\ r \in Seq(S) /\ Len(r) = (m - 1) + (Len(q) - m)
          /\ \A i \in 1..((m - 1) + (Len(q) - m)) :
               r[i] = IF i <= m - 1 THEN before[i] ELSE after[i - (m - 1)]
      <4>1. /\ before \o after \in Seq(S)
            /\ Len(before \o after) = Len(before) + Len(after)
            /\ \A i \in 1..(Len(before) + Len(after)) :
                 (before \o after)[i]
                   = IF i <= Len(before) THEN before[i] ELSE after[i - Len(before)]
        BY <2>5, <2>6, ConcatProperties
      <4> QED BY <2>3, <2>5, <2>6, <4>1
    <3>2. (m - 1) + (Len(q) - m) = Len(q) - 1
      BY <2>4
    <3>3. DOMAIN r = 1..(Len(q) - 1)
      BY <3>1, <3>2, LenProperties
    <3>4. ASSUME NEW i \in 1..(Len(q) - 1) PROVE r[i] = IF i < m THEN q[i] ELSE q[i + 1]
      <4>1. CASE i < m
        <5>1. i \in 1..(m - 1) /\ i <= m - 1
          BY <2>4, <4>1
        <5> QED BY <2>5, <3>1, <3>2, <4>1, <5>1
      <4>2. CASE ~(i < m)
        <5>1. i - (m - 1) \in 1..(Len(q) - m) /\ ~(i <= m - 1) /\ (i - (m - 1)) + m = i + 1
          BY <2>2, <2>4, <4>2
        <5> QED BY <2>6, <3>1, <3>2, <4>2, <5>1
      <4> QED BY <4>1, <4>2
    <3> QED BY <3>3, <3>4
  <2>8. NoRepeat(r)
    BY <2>2, <2>4, <2>7 DEF NoRepeat
  <2>9. ToSet(r) \subseteq ToSet(q)
    BY <2>2, <2>4, <2>7 DEF ToSet
  <2>10. ASSUME NEW i \in DOMAIN q, q[i] # e PROVE q[i] \in ToSet(r)
    <3>1. CASE i < m
      <4>1. i \in DOMAIN r /\ r[i] = q[i]
        BY <2>2, <2>4, <2>7, <3>1
      <4> QED BY <4>1 DEF ToSet
    <3>2. CASE i > m
      <4>1. i - 1 \in DOMAIN r /\ r[i - 1] = q[i]
        BY <2>2, <2>4, <2>7, <3>2
      <4> QED BY <4>1 DEF ToSet
    <3> QED BY <2>2, <2>4, <2>10, <3>1, <3>2
  <2>11. ToSet(q) \ {e} \subseteq ToSet(r)
    BY <2>10 DEF ToSet
  <2> QED BY <2>8, <2>9, <2>11 DEF r
<1> QED BY <1>1, <1>2

\* The places where a job may wait: the queue, and the local deque of each task.
Place == Task \cup {None}

Line(p) == IF p = None THEN queue ELSE remaining[p]

\* No job waits twice, and none that is new or running waits at all.
WaitInv ==
  /\ \A p \in Place : NoRepeat(Line(p))
  /\ \A p, q \in Place : p # q => ToSet(Line(p)) \cap ToSet(Line(q)) = {}
  /\ \A p \in Place : \A j \in ToSet(Line(p)) : status[j] \notin {"new", "running"}

\* The queue and the deques are places of their own.
LEMMA Lines ==
  ASSUME TypeOK
  PROVE  /\ None \notin Task
         /\ Line(None) = queue /\ \A t \in Task : Line(t) = remaining[t]
         /\ \A p \in Place : Line(p) \in Seq(Job) /\ ToSet(Line(p)) \subseteq Job
<1>1. /\ None \notin Task
      /\ Line(None) = queue /\ \A t \in Task : Line(t) = remaining[t]
      /\ \A p \in Place : Line(p) \in Seq(Job)
  BY DevicesAssumption, PollAssumption DEF Place, Line, TypeOK
<1>2. ASSUME NEW q \in Seq(Job) PROVE ToSet(q) \subseteq Job
  BY ElementOfSeq, LenProperties DEF ToSet
<1> QED BY <1>1, <1>2

\* What happens to a line that a step does not touch, or only takes from.
Shrinks(p) == NoRepeat(Line(p)') /\ ToSet(Line(p)') \subseteq ToSet(Line(p))

\* Taking jobs out of lines keeps WaitInv, if the jobs that stay still may wait.
LEMMA ShrinkKeepsWait ==
  ASSUME WaitInv,
         \A p \in Place : Shrinks(p),
         \A p \in Place : \A j \in ToSet(Line(p)') : status'[j] \notin {"new", "running"}
  PROVE  WaitInv'
  BY DEF WaitInv, Shrinks, Place

\* The step of a drain drops, keeps for later or starts the head of the queue.
LEMMA DrainKeepsWait ==
  ASSUME TypeOK, WaitInv, NEW t \in Task, DrainStep(t)
  PROVE  WaitInv'
<1> DEFINE h == Head(queue)
<1>1. /\ queue \in Seq(Job) /\ queue # <<>> /\ queue' = Tail(queue) /\ NoRepeat(queue)
      /\ h \in Job
  BY Lines, HeadTailType DEF DrainStep, WaitInv, TypeOK, Place
<1>2. /\ NoRepeat(queue') /\ h \in ToSet(queue) /\ ToSet(queue') = ToSet(queue) \ {h}
  BY <1>1, TailOnce
<1> HIDE DEF h
<1>3. Shrinks(None)
  BY <1>2 DEF Shrinks, Line
<1>4. \A p \in Place : p # None => h \notin ToSet(Line(p))
  BY <1>2, Lines DEF WaitInv, Place
<1>5. CASE UNCHANGED <<status, remaining>>
  <2>1. \A p \in Place : Shrinks(p)
    BY <1>3, <1>5 DEF Shrinks, Line, WaitInv
  <2> QED BY <1>5, <2>1, ShrinkKeepsWait DEF WaitInv, Shrinks
<1>6. CASE UNCHANGED remaining /\ status' = [status EXCEPT ![h] = "running"]
  <2>1. \A p \in Place : Shrinks(p)
    BY <1>3, <1>6 DEF Shrinks, Line, WaitInv
  <2>2. \A p \in Place : h \notin ToSet(Line(p)')
    BY <1>2, <1>4, <1>6 DEF Line
  <2>3. \A p \in Place : ToSet(Line(p)') \subseteq Job
    BY <2>1, Lines DEF Shrinks
  <2>4. \A j \in Job : j # h => status'[j] = status[j]
    BY <1>6 DEF TypeOK
  <2>5. \A p \in Place : \A j \in ToSet(Line(p)') : status'[j] \notin {"new", "running"}
    BY <2>1, <2>2, <2>3, <2>4 DEF WaitInv, Shrinks
  <2> QED BY <2>1, <2>5, ShrinkKeepsWait
<1>7. CASE /\ status[h] = "queued" /\ UNCHANGED status
           /\ remaining' = [remaining EXCEPT ![t] = Append(@, h)]
  <2>1. remaining[t] \in Seq(Job) /\ NoRepeat(remaining[t]) /\ h \notin ToSet(remaining[t])
    BY <1>4, Lines DEF WaitInv, Place, TypeOK
  <2>2. /\ NoRepeat(Append(remaining[t], h))
        /\ ToSet(Append(remaining[t], h)) = ToSet(remaining[t]) \cup {h}
    BY <1>1, <2>1, AppendOnce
  <2>3. /\ Line(None)' = queue' /\ Line(t)' = Append(remaining[t], h)
        /\ \A u \in Task \ {t} : Line(u)' = Line(u)
    BY <1>7, Lines DEF Line, TypeOK
  <2>4. Line(None) = queue /\ Line(t) = remaining[t] /\ None \notin Task
    BY Lines
  <2>5. \A p \in Place : NoRepeat(Line(p)')
    BY <1>2, <2>2, <2>3, <2>4 DEF WaitInv, Place
  <2>6. \A p \in Place : p # t => ToSet(Line(p)') \subseteq ToSet(Line(p)) \ {h}
    BY <1>2, <1>4, <2>3, <2>4 DEF Place
  <2>7. ToSet(Line(t)') = ToSet(Line(t)) \cup {h}
    BY <2>2, <2>3, <2>4
  <2>8. \A p, q \in Place : p # q => ToSet(Line(p)') \cap ToSet(Line(q)') = {}
    BY <2>6, <2>7 DEF WaitInv
  <2>9. \A p \in Place : \A j \in ToSet(Line(p)') : status'[j] \notin {"new", "running"}
    BY <1>7, <2>6, <2>7 DEF WaitInv
  <2> QED BY <2>5, <2>8, <2>9 DEF WaitInv, Place
<1> QED BY <1>5, <1>6, <1>7 DEF DrainStep, Assign, jobVars, h

\* The end of a drain puts the deque back in the place of the empty queue.
LEMMA DrainEndKeepsWait ==
  ASSUME TypeOK, WaitInv, NEW t \in Task, DrainEnds(t)
  PROVE  WaitInv'
<1>1. /\ queue' = remaining[t] /\ remaining' = [remaining EXCEPT ![t] = <<>>]
      /\ UNCHANGED status
  BY DEF DrainEnds, jobVars
<1>2. /\ Line(None)' = Line(t) /\ Line(t)' = <<>>
      /\ \A u \in Task \ {t} : Line(u)' = Line(u)
  BY <1>1, Lines DEF Line, TypeOK
<1>3. ToSet(<<>>) = {} /\ NoRepeat(<<>>)
  BY DEF ToSet, NoRepeat
<1>4. None \notin Task /\ t \in Place
  BY Lines DEF Place
<1>5. \A p \in Place : p = None \/ p = t \/ p \in Task \ {t}
  BY DEF Place
<1>6. \A p \in Place : NoRepeat(Line(p)')
  BY <1>2, <1>3, <1>4, <1>5 DEF WaitInv
<1>7. \A p, q \in Place : p # q => ToSet(Line(p)') \cap ToSet(Line(q)') = {}
  <2> DEFINE from(p) == IF p = None THEN t ELSE p
  <2>1. \A p \in Place : p # t => ToSet(Line(p)') = ToSet(Line(from(p))) /\ from(p) \in Place
    BY <1>2, <1>4, <1>5
  <2>2. \A p, q \in Place \ {t} : p # q => from(p) # from(q)
    OBVIOUS
  <2>3. ToSet(Line(t)') = {}
    BY <1>2, <1>3
  <2> HIDE DEF from
  <2> QED BY <2>1, <2>2, <2>3 DEF WaitInv
<1>8. \A p \in Place : \A j \in ToSet(Line(p)') : status'[j] \notin {"new", "running"}
  BY <1>1, <1>2, <1>3, <1>4, <1>5 DEF WaitInv
<1> QED BY <1>6, <1>7, <1>8 DEF WaitInv, Place

\* A job that waits nowhere may be put into the queue.
LEMMA EnqueueKeepsWait ==
  ASSUME TypeOK, WaitInv, NEW j \in Job, status[j] \in {"new", "running"},
         status' = [status EXCEPT ![j] = "queued"], UNCHANGED remaining,
         queue' = Append(queue, j)
  PROVE  WaitInv'
<1>1. \A p \in Place : j \notin ToSet(Line(p))
  BY DEF WaitInv
<1>2. queue \in Seq(Job) /\ NoRepeat(queue) /\ j \notin ToSet(queue)
  BY <1>1, Lines DEF WaitInv, Place, TypeOK
<1>3. NoRepeat(queue') /\ ToSet(queue') = ToSet(queue) \cup {j}
  BY <1>2, AppendOnce
<1>4. /\ Line(None)' = queue' /\ Line(None) = queue /\ None \notin Task
      /\ \A u \in Task : Line(u)' = Line(u)
  BY Lines DEF Line
<1>5. \A p \in Place : NoRepeat(Line(p)')
  BY <1>3, <1>4 DEF WaitInv, Place
<1>6. \A p \in Place : p # None => ToSet(Line(p)') = ToSet(Line(p))
  BY <1>4 DEF Place
<1>7. ToSet(Line(None)') = ToSet(Line(None)) \cup {j}
  BY <1>3, <1>4
<1>8. \A p, q \in Place : p # q => ToSet(Line(p)') \cap ToSet(Line(q)') = {}
  BY <1>1, <1>6, <1>7 DEF WaitInv
<1>9. \A k \in Job : status'[k] = IF k = j THEN "queued" ELSE status[k]
  BY DEF TypeOK
<1>10. \A p \in Place : ToSet(Line(p)') \subseteq Job
  BY <1>6, <1>7, Lines
<1>11. \A p \in Place : \A k \in ToSet(Line(p)') : status'[k] \notin {"new", "running"}
  BY <1>6, <1>7, <1>9, <1>10 DEF WaitInv
<1> QED BY <1>5, <1>8, <1>11 DEF WaitInv, Place

\* Giving back a running job puts it into the queue, where it was not.
LEMMA RequeueKeepsWait ==
  ASSUME TypeOK, WaitInv, NEW j \in Job, NEW d, status[j] = "running", Requeue(j, d),
         UNCHANGED remaining
  PROVE  WaitInv'
<1>1. j \notin ToSet(queue)
  BY Lines DEF WaitInv, Place
<1>2. ~Contains(queue, j)
  BY <1>1, LenProperties DEF Contains, ToSet, TypeOK
<1>3. queue' = Append(queue, j) /\ status' = [status EXCEPT ![j] = "queued"]
  BY <1>2 DEF Requeue
<1> QED BY <1>3, EnqueueKeepsWait

\* Neither the end of a job nor a step of no job puts anything anywhere.
LEMMA RestKeepsWait ==
  ASSUME TypeOK, WaitInv, \A p \in Place : Shrinks(p),
         \/ UNCHANGED status
         \/ \E j \in Job, outcome \in Terminal : Finish(j, outcome)
  PROVE  WaitInv'
<1>1. \A k \in Job : status'[k] \in {"new", "running"} => status[k] \in {"new", "running"}
  BY FinishEffect
<1>2. \A p \in Place : \A k \in ToSet(Line(p)') : k \in Job /\ k \in ToSet(Line(p))
  BY Lines DEF Shrinks
<1>3. \A p \in Place : \A k \in ToSet(Line(p)') : status'[k] \notin {"new", "running"}
  BY <1>1, <1>2 DEF WaitInv
<1> QED BY <1>3, ShrinkKeepsWait

\* Where the queue and the deques do not change, neither do the lines.
LEMMA SameLines ==
  ASSUME WaitInv, UNCHANGED <<queue, remaining>>
  PROVE  \A p \in Place : Shrinks(p)
  BY DEF WaitInv, Shrinks, Line

\* A message keeps WaitInv.
LEMMA MessageKeepsWait ==
  ASSUME IInv, WaitInv, NEW s \in Session, Message(s)
  PROVE  WaitInv'
<1> USE DevicesAssumption
<1>1. TypeOK /\ SessionsInv /\ WorkInv
  BY DEF IInv
<1>2. ASSUME Listening(s), held[s] # None
      PROVE  held[s] \in Job /\ status[held[s]] = "running"
  <2>1. Live(s) /\ Answers(s)
    BY <1>1, <1>2 DEF SessionsInv, OneSessionPerDevice, Listening, Live, Answers
  <2> QED BY <1>1, <1>2, <2>1 DEF WorkInv, BusyMatches, TypeOK
<1>3. CASE Availability(s)
  BY <1>1, <1>3, SameLines, RestKeepsWait DEF Availability, jobVars
<1>4. CASE JobResult(s)
  <2>1. held[s] \in Job /\ Finish(held[s], "done") /\ UNCHANGED <<queue, remaining>>
    BY <1>2, <1>4 DEF JobResult
  <2> QED BY <1>1, <2>1, SameLines, RestKeepsWait
<1>5. CASE JobEvicted(s) \/ JobRefused(s)
  <2>1. Listening(s) /\ held[s] # None /\ Returned(s)
    BY <1>5 DEF JobEvicted, JobRefused
  <2>2. held[s] \in Job /\ status[held[s]] = "running"
    BY <1>2, <2>1
  <2>3. Requeue(held[s], DeviceOf[s]) /\ UNCHANGED remaining
    BY <2>1, <2>2 DEF Returned
  <2> QED BY <1>1, <2>2, <2>3, RequeueKeepsWait
<1> QED BY <1>3, <1>4, <1>5 DEF Message

\* Every step keeps WaitInv.
LEMMA NextWait ==
  ASSUME IInv, WaitInv, [Next]_vars
  PROVE  WaitInv'
<1> USE DevicesAssumption
<1>1. TypeOK /\ SessionsInv /\ WorkInv
  BY DEF IInv
<1>2. ASSUME NEW s \in Session, GiveBack(s) PROVE WaitInv'
  <2>1. CASE busy[s] # None /\ status[busy[s]] # "forgotten"
    <3>1. Requeue(busy[s], DeviceOf[s]) /\ UNCHANGED remaining
      BY <1>2, <2>1 DEF GiveBack
    <3>2. busy[s] \in Job /\ status[busy[s]] = "running"
      BY <1>1, <1>2, <2>1 DEF GiveBack, Answers, WorkInv, BusyMatches, TypeOK
    <3> QED BY <1>1, <3>1, <3>2, RequeueKeepsWait
  <2>2. CASE ~(busy[s] # None /\ status[busy[s]] # "forgotten")
    BY <1>1, <1>2, <2>2, SameLines, RestKeepsWait DEF GiveBack, jobVars
  <2> QED BY <2>1, <2>2
<1>3. ASSUME NEW t \in Task, SendRaises(t) PROVE WaitInv'
  <2>1. /\ UNCHANGED <<status, queue>>
        /\ remaining' = [remaining EXCEPT ![t] = <<>>]
    BY <1>3 DEF SendRaises, jobVars
  <2>2. ToSet(<<>>) = {} /\ NoRepeat(<<>>)
    BY DEF ToSet, NoRepeat
  <2>3. \A p \in Place : Line(p)' \in {Line(p), <<>>}
    BY <1>1, <2>1 DEF Line, Place, TypeOK
  <2>4. \A p \in Place : Shrinks(p)
    BY <2>2, <2>3 DEF Shrinks, WaitInv
  <2> QED BY <1>1, <2>1, <2>4, RestKeepsWait
<1>4. ASSUME NEW t \in Task, Run(t) PROVE WaitInv'
  <2>1. CASE \/ SendReturns(t)
             \/ t \in Session /\ (PushReturns(t) \/ RegisterRaises(t) \/ SessionEnds(t))
    <3>1. UNCHANGED <<status, queue, remaining>>
      BY <2>1 DEF SendReturns, PushReturns, RegisterRaises, SessionEnds, jobVars
    <3> QED BY <1>1, <3>1, SameLines, RestKeepsWait
  <2> QED BY <1>1, <1>2, <1>3, <1>4, <2>1, DrainKeepsWait, DrainEndKeepsWait DEF Run
<1>5. ASSUME NEW j \in Job, Submit(j) PROVE WaitInv'
  <2>1. status[j] = "new" /\ UNCHANGED remaining
    BY <1>5 DEF Submit, taskVars
  <2>2. CASE Finish(j, "failed") /\ UNCHANGED queue
    BY <1>1, <2>1, <2>2, SameLines, RestKeepsWait
  <2>3. CASE status' = [status EXCEPT ![j] = "queued"] /\ queue' = Append(queue, j)
    BY <1>1, <2>1, <2>3, EnqueueKeepsWait
  <2>4. CASE status' = [status EXCEPT ![j] = "running"] /\ UNCHANGED queue
    <3>1. \A p \in Place : Shrinks(p)
      BY <2>1, <2>4, SameLines
    <3>2. \A p \in Place : j \notin ToSet(Line(p)')
      BY <2>1, <3>1 DEF WaitInv, Shrinks
    <3>3. \A k \in Job : k # j => status'[k] = status[k]
      BY <1>1, <2>4 DEF TypeOK
    <3>4. \A p \in Place : \A k \in ToSet(Line(p)') : k \in Job /\ k \in ToSet(Line(p))
      BY <1>1, <3>1, Lines DEF Shrinks
    <3>5. \A p \in Place : \A k \in ToSet(Line(p)') : status'[k] \notin {"new", "running"}
      BY <3>2, <3>3, <3>4 DEF WaitInv
    <3> QED BY <3>1, <3>5, ShrinkKeepsWait
  <2> QED BY <1>5, <2>2, <2>3, <2>4 DEF Submit, Assign
<1>6. ASSUME NEW j \in Job, CancelQueued(j) PROVE WaitInv'
  <2>1. queue' = RemoveFirst(queue, j) /\ UNCHANGED remaining /\ Finish(j, "cancelled")
    BY <1>6 DEF CancelQueued, taskVars
  <2>2. queue \in Seq(Job) /\ NoRepeat(queue)
    BY <1>1, Lines DEF WaitInv, Place
  <2>3. NoRepeat(queue') /\ ToSet(queue') \subseteq ToSet(queue)
    BY <2>1, <2>2, RemoveOnce
  <2>4. \A p \in Place : Shrinks(p)
    BY <2>1, <2>3 DEF Shrinks, Line, WaitInv
  <2> QED BY <1>1, <2>1, <2>4, RestKeepsWait
<1>7. CASE \/ UNCHANGED vars \/ PollTick
           \/ \E s \in Session : Register(s) \/ LoseConnection(s)
  <2>1. UNCHANGED <<status, queue, remaining>>
    BY <1>7 DEF vars, taskVars, jobVars, PollTick, Register, LoseConnection
  <2> QED BY <1>1, <2>1, SameLines, RestKeepsWait
<1> QED BY <1>4, <1>5, <1>6, <1>7, MessageKeepsWait DEF Next

\* One place each is what WaitsOnce counts.
LEMMA WaitMeans ==
  ASSUME TypeOK, WaitInv
  PROVE  WaitsOnce
<1> SUFFICES ASSUME NEW j \in Job
             PROVE  /\ Cardinality(Places(j)) <= 1
                    /\ status[j] = "running" => Places(j) = {}
  BY DEF WaitsOnce
<1>1. \A x \in Places(j) :
        \E p \in Place : \E i : x = <<p, i>> /\ i \in DOMAIN Line(p) /\ Line(p)[i] = j
  <2>1. ASSUME NEW i \in DOMAIN queue, queue[i] = j
        PROVE  \E p \in Place : \E k : <<None, i>> = <<p, k>> /\ k \in DOMAIN Line(p) /\ Line(p)[k] = j
    BY <2>1 DEF Line, Place
  <2>2. ASSUME NEW t \in Task, NEW i \in DOMAIN remaining[t], remaining[t][i] = j
        PROVE  \E p \in Place : \E k : <<t, i>> = <<p, k>> /\ k \in DOMAIN Line(p) /\ Line(p)[k] = j
    BY <2>2, Lines DEF Place
  <2> QED BY <2>1, <2>2 DEF Places
<1>2. \A p \in Place : \A i \in DOMAIN Line(p) : Line(p)[i] \in ToSet(Line(p))
  BY DEF ToSet
<1>3. \A x, y \in Places(j) : x = y
  <2> SUFFICES ASSUME NEW x \in Places(j), NEW y \in Places(j) PROVE x = y
    OBVIOUS
  <2>1. PICK p \in Place : \E i : x = <<p, i>> /\ i \in DOMAIN Line(p) /\ Line(p)[i] = j
    BY <1>1
  <2>2. PICK q \in Place : \E k : y = <<q, k>> /\ k \in DOMAIN Line(q) /\ Line(q)[k] = j
    BY <1>1
  <2>3. p = q
    BY <1>2, <2>1, <2>2 DEF WaitInv
  <2> QED BY <2>1, <2>2, <2>3 DEF WaitInv, NoRepeat
<1>4. Cardinality(Places(j)) <= 1
  <2>1. CASE Places(j) = {}
    BY <2>1, FS_EmptySet
  <2>2. CASE Places(j) # {}
    <3>1. PICK x : Places(j) = {x}
      BY <1>3, <2>2
    <3>2. Cardinality({x}) = 1
      BY FS_Singleton
    <3> QED BY <3>1, <3>2
  <2> QED BY <2>1, <2>2
<1>5. status[j] = "running" => Places(j) = {}
  BY <1>1, <1>2 DEF WaitInv
<1> QED BY <1>4, <1>5

\* When a device's sessions do not overlap, no job waits in two places and none
\* waits while it runs, however many drains are suspended with a deque of their
\* own (gateway.py:337-361).
THEOREM JobWaitsOnce ==
  ASSUME Overlap = FALSE
  PROVE  Spec => []WaitsOnce
<1>1. Init => WaitInv
  <2> SUFFICES ASSUME Init PROVE WaitInv
    OBVIOUS
  <2>1. \A p \in Place : Line(p) = <<>>
    BY DEF Init, Line, Place
  <2> QED BY <2>1 DEF WaitInv, NoRepeat, ToSet
<1>2. IInv /\ [Next]_vars => IInv'
  BY NextIInv
<1>3. IInv /\ WaitInv /\ [Next]_vars => WaitInv'
  BY NextWait
<1>4. IInv /\ WaitInv => WaitsOnce
  BY WaitMeans DEF IInv
<1> QED BY <1>1, <1>2, <1>3, <1>4, InitIInv, PTL DEF Spec

----------------------------------------------------------------------------
(* No job is stranded but by a failed send *)

\* Whose business a running job is, and where a queued one waits.
Owned(j) == \E s \in Session : busy[s] = j /\ (Live(s) \/ pc[s] = "report")

InLine(j) == \E p \in Place : j \in ToSet(Line(p))

\* What StrandedByFailedSendOnly names as a cause.
Cause(j) ==
  \/ \E t \in Task : SendRaises(t) /\ Contains(remaining[t], j)
  \/ \E s \in Session : (SendRaises(s) \/ RegisterRaises(s)) /\ busy[s] = j
  \/ \E d \in Device : nodeOf'[j] = d /\ Ghost(d)

\* A job is in some line exactly where Places finds it.
LEMMA InLineMeans ==
  ASSUME TypeOK, NEW j \in Job
  PROVE  InLine(j) <=> Places(j) # {}
<1>1. ASSUME InLine(j) PROVE Places(j) # {}
  <2>1. PICK p \in Place : j \in ToSet(Line(p))
    BY <1>1 DEF InLine
  <2>2. PICK i \in DOMAIN Line(p) : Line(p)[i] = j
    BY <2>1 DEF ToSet
  <2>3. <<p, i>> \in Places(j)
    <3>1. CASE p = None
      BY <2>2, <3>1 DEF Line, Places
    <3>2. CASE p \in Task
      BY <2>2, <3>2, Lines DEF Places
    <3> QED BY <3>1, <3>2 DEF Place
  <2> QED BY <2>3
<1>2. ASSUME Places(j) # {} PROVE InLine(j)
  <2>1. CASE \E i \in DOMAIN queue : queue[i] = j
    BY <2>1 DEF InLine, Place, Line, ToSet
  <2>2. CASE \E t \in Task : \E i \in DOMAIN remaining[t] : remaining[t][i] = j
    <3>1. PICK t \in Task : \E i \in DOMAIN remaining[t] : remaining[t][i] = j
      BY <2>2
    <3>2. Line(t) = remaining[t]
      BY Lines
    <3>3. j \in ToSet(Line(t))
      BY <3>1, <3>2 DEF ToSet
    <3> QED BY <3>3 DEF InLine, Place
  <2> QED BY <1>2, <2>1, <2>2 DEF Places
<1> QED BY <1>1, <1>2

\* A step after which a running job is nobody's business has a cause, or the job
\* was nobody's before.
LEMMA NextOwned ==
  ASSUME IInv, TypeOK', [Next]_vars
  PROVE  \A j \in Job : status'[j] = "running" /\ ~Owned(j)' =>
           (status[j] = "running" /\ ~Owned(j)) \/ Cause(j)
<1> USE DevicesAssumption, PollAssumption
<1>1. TypeOK /\ SessionsInv /\ WorkInv
  BY DEF IInv
<1> DEFINE Explained == \A j \in Job : status'[j] = "running" /\ ~Owned(j)' =>
                          (status[j] = "running" /\ ~Owned(j)) \/ Cause(j)
<1>2. ASSUME \A j \in Job : status'[j] = "running" /\ ~Cause(j) =>
               /\ status[j] = "running"
               /\ \A s \in Session : busy[s] = j /\ (Live(s) \/ pc[s] = "report") =>
                    busy'[s] = j /\ (Live(s)' \/ pc'[s] = "report")
      PROVE  Explained
  BY <1>2 DEF Owned
<1>3. ASSUME NEW j \in Job, NEW s \in Candidates(j), Assign(j, s),
             status[j] \in {"new", "queued"}, UNCHANGED netVars,
             \A r \in Session : pc[r] = "report" => pc'[r] = "report"
      PROVE  Explained
  <2>1. s \in Session /\ Listed(s) /\ busy[s] = None /\ DeviceOf[s] \in Device
    BY DeviceOfAssumption DEF Candidates
  <2>2. /\ busy' = [busy EXCEPT ![s] = j] /\ status' = [status EXCEPT ![j] = "running"]
        /\ nodeOf' = [nodeOf EXCEPT ![j] = DeviceOf[s]]
    BY <1>3 DEF Assign
  <2>3. busy'[s] = j /\ \A r \in Session : busy[r] # None => busy'[r] = busy[r]
    BY <1>1, <2>1, <2>2 DEF TypeOK
  <2>4. \A k \in Job : k # j => status'[k] = status[k]
    BY <1>1, <2>2 DEF TypeOK
  <2>5. Live(s) \/ Ghost(DeviceOf[s])
    BY <1>1, <2>1 DEF SessionsInv, RegistryMatches, Listed, Live, Ghost
  <2>6. nodeOf'[j] = DeviceOf[s]
    BY <1>1, <2>2 DEF TypeOK
  <2>7. Owned(j)' \/ Cause(j)
    BY <1>3, <2>1, <2>3, <2>5, <2>6 DEF Owned, Cause, Live, netVars
  <2>8. ASSUME NEW k \in Job, k # j, Owned(k) PROVE Owned(k)'
    BY <1>3, <2>3, <2>8 DEF Owned, Live, netVars
  <2> QED BY <2>4, <2>7, <2>8
<1>4. ASSUME NEW j \in Job, NEW d, Requeue(j, d), UNCHANGED phase,
             \A r \in Session : pc[r] = "report" /\ busy[r] # j => pc'[r] = "report"
      PROVE  Explained
  <2>1. status' = [status EXCEPT ![j] = "queued"]
    BY <1>4 DEF Requeue
  <2>2. \A r \in Session : busy[r] # j => busy'[r] = busy[r]
    BY <1>1, <1>4 DEF Requeue, TypeOK
  <2>3. \A k \in Job : status'[k] = "running" => status[k] = "running" /\ k # j
    BY <1>1, <2>1 DEF TypeOK
  <2> QED BY <1>2, <1>4, <2>2, <2>3 DEF Live
<1>5. ASSUME NEW j \in Job, NEW outcome \in Terminal, Finish(j, outcome), UNCHANGED phase,
             \A r \in Session : busy[r] # j => busy'[r] = busy[r],
             \A r \in Session : pc[r] = "report" => pc'[r] = "report"
      PROVE  Explained
  <2>1. \A k \in Job : status'[k] = "running" => status[k] = "running" /\ k # j
    BY <1>1, <1>5, FinishEffect
  <2> QED BY <1>2, <1>5, <2>1 DEF Live
<1>6. ASSUME UNCHANGED <<status, busy>>,
             \A s \in Session : Live(s) \/ pc[s] = "report" => Live(s)' \/ pc'[s] = "report"
      PROVE  Explained
  BY <1>2, <1>6
<1>7. ASSUME NEW t \in Task, Run(t) PROVE Explained
  <2>1. CASE DrainStep(t)
    <3> DEFINE j == Head(queue)
    <3>1. j \in Job
      BY <1>1, <2>1, HeadTailType DEF DrainStep, TypeOK
    <3>2. \/ UNCHANGED jobVars
          \/ status[j] = "queued" /\ \E s \in Candidates(j) : Assign(j, s)
      BY <2>1 DEF DrainStep
    <3>3. UNCHANGED netVars /\ \A r \in Session : pc[r] = "report" => pc'[r] = "report"
      BY <1>1, <2>1 DEF DrainStep, TypeOK
    <3> HIDE DEF j
    <3> QED BY <1>3, <1>6, <3>1, <3>2, <3>3 DEF jobVars, netVars, Live
  <2>2. CASE t \in Session /\ GiveBack(t)
    <3>1. CASE busy[t] # None /\ status[busy[t]] # "forgotten"
      <4>1. busy[t] \in Job
        BY <1>1, <2>2, <3>1 DEF TypeOK
      <4>2. Requeue(busy[t], DeviceOf[t]) /\ UNCHANGED phase
        BY <2>2, <3>1 DEF GiveBack
      <4>3. \A r \in Session : pc[r] = "report" /\ busy[r] # busy[t] => pc'[r] = "report"
        BY <1>1, <2>2, <3>1 DEF GiveBack, TypeOK
      <4> QED BY <1>4, <4>1, <4>2, <4>3
    <3>2. CASE ~(busy[t] # None /\ status[busy[t]] # "forgotten")
      <4>1. UNCHANGED <<status, busy>> /\ HandlerReturns(t)
        BY <2>2, <3>2 DEF GiveBack, jobVars
      <4>2. \A j \in Job : status[j] = "running" => busy[t] # j
        BY <3>2
      <4>3. \A s \in Session \ {t} : phase'[s] = phase[s] /\ pc'[s] = pc[s]
        BY <1>1, <4>1 DEF HandlerReturns, TypeOK
      <4> QED BY <1>2, <4>1, <4>2, <4>3 DEF Live
    <3> QED BY <3>1, <3>2
  <2>3. CASE SendRaises(t) /\ t # Poll
    <3>1. t \in Session /\ UNCHANGED <<status, busy>>
      BY <2>3 DEF SendRaises, jobVars
    <3>2. \A j \in Job : ~Cause(j) => busy[t] # j
      BY <2>3, <3>1 DEF Cause
    <3>3. \A s \in Session \ {t} : phase'[s] = phase[s] /\ pc'[s] = pc[s]
      BY <1>1, <2>3 DEF SendRaises, Teardown, HandlerReturns, TypeOK
    <3> QED BY <1>2, <3>1, <3>2, <3>3 DEF Live
  <2>4. CASE t \in Session /\ RegisterRaises(t)
    <3>1. UNCHANGED <<status, busy>>
      BY <2>4 DEF RegisterRaises, jobVars
    <3>2. \A j \in Job : ~Cause(j) => busy[t] # j
      BY <2>4 DEF Cause
    <3>3. \A s \in Session \ {t} : phase'[s] = phase[s] /\ pc'[s] = pc[s]
      BY <1>1, <2>4 DEF RegisterRaises, HandlerReturns, TypeOK
    <3> QED BY <1>2, <2>4, <3>1, <3>2, <3>3 DEF Live
  <2>5. CASE t \in Session /\ SessionEnds(t)
    BY <1>1, <1>6, <2>5 DEF SessionEnds, Teardown, Live, jobVars, TypeOK
  <2>6. CASE t \in Session /\ PushReturns(t)
    BY <1>1, <1>6, <2>6 DEF PushReturns, Live, jobVars, netVars, TypeOK
  <2>7. CASE SendReturns(t)
    BY <1>1, <1>6, <2>7 DEF SendReturns, Live, jobVars, netVars, TypeOK
  <2>8. CASE SendRaises(t) /\ t = Poll
    BY <1>1, <1>6, <2>8 DEF SendRaises, Live, jobVars, netVars, TypeOK
  <2>9. CASE DrainEnds(t)
    <3>1. UNCHANGED <<status, busy>> /\ pc[t] = "drain" /\ pc' = [pc EXCEPT ![t] = "idle"]
      BY <2>9 DEF DrainEnds, AfterDrain, HandlerReturns, jobVars
    <3>2. \A s \in Session : Live(s) => Live(s)'
      BY <1>1, <2>9 DEF DrainEnds, AfterDrain, HandlerReturns, Live, TypeOK
    <3>3. \A s \in Session : pc[s] = "report" => pc'[s] = "report"
      BY <1>1, <3>1 DEF TypeOK
    <3> QED BY <1>6, <3>1, <3>2, <3>3
  <2> QED BY <1>7, <2>1, <2>2, <2>3, <2>4, <2>5, <2>6, <2>7, <2>8, <2>9 DEF Run
<1>8. ASSUME NEW s \in Session, Message(s) PROVE Explained
  <2>1. ASSUME Listening(s), held[s] # None
        PROVE  held[s] \in Job /\ status[held[s]] = "running"
    <3>1. Live(s) /\ Answers(s)
      BY <1>1, <2>1 DEF SessionsInv, OneSessionPerDevice, Listening, Live, Answers
    <3> QED BY <1>1, <2>1, <3>1 DEF WorkInv, BusyMatches, TypeOK
  <2>2. UNCHANGED phase /\ \A r \in Session : pc[r] = "report" => pc'[r] = "report"
    BY <1>1, <1>8 DEF Message, Availability, JobResult, JobEvicted, JobRefused, Returned,
                      Listening, netVars, TypeOK
  <2>3. CASE Availability(s)
    BY <1>6, <2>2, <2>3 DEF Availability, jobVars, Live
  <2>4. CASE JobResult(s)
    <3>1. held[s] \in Job /\ Finish(held[s], "done")
      BY <2>1, <2>4 DEF JobResult
    <3>2. \A r \in Session : busy[r] # held[s] => busy'[r] = busy[r]
      BY <1>1, <2>4 DEF JobResult, TypeOK
    <3> QED BY <1>5, <2>2, <3>1, <3>2
  <2>5. CASE JobEvicted(s) \/ JobRefused(s)
    <3>1. Listening(s) /\ held[s] # None /\ Returned(s)
      BY <2>5 DEF JobEvicted, JobRefused
    <3>2. held[s] \in Job /\ Requeue(held[s], DeviceOf[s])
      BY <2>1, <3>1 DEF Returned
    <3> QED BY <1>4, <2>2, <3>2
  <2> QED BY <1>8, <2>3, <2>4, <2>5 DEF Message
<1>9. ASSUME NEW j \in Job, Submit(j) PROVE Explained
  <2>0. UNCHANGED <<netVars, taskVars>>
    BY <1>9 DEF Submit
  <2>1. CASE Finish(j, "failed") /\ UNCHANGED busy
    BY <1>5, <2>0, <2>1 DEF netVars, taskVars
  <2>2. CASE status' = [status EXCEPT ![j] = "queued"] /\ UNCHANGED busy
    BY <1>1, <1>2, <2>0, <2>2 DEF TypeOK, netVars, taskVars, Live
  <2>3. CASE \E s \in Candidates(j) : Assign(j, s)
    BY <1>3, <1>9, <2>0, <2>3 DEF Submit, taskVars
  <2> QED BY <1>9, <2>1, <2>2, <2>3 DEF Submit
<1>10. ASSUME NEW j \in Job, CancelQueued(j) PROVE Explained
  BY <1>5, <1>10 DEF CancelQueued, netVars, taskVars
<1>11. CASE UNCHANGED vars \/ PollTick \/ \E s \in Session : LoseConnection(s)
  BY <1>1, <1>6, <1>11 DEF vars, PollTick, LoseConnection, jobVars, netVars, taskVars, Live, TypeOK
<1>12. ASSUME NEW s \in Session, Register(s) PROVE Explained
  BY <1>1, <1>6, <1>12 DEF Register, jobVars, Live, SessionsInv, PhaseMatchesPc, TypeOK
<1> QED BY <1>7, <1>8, <1>9, <1>10, <1>11, <1>12 DEF Next

\* A step after which a queued job is in no line has a cause, or the job was in
\* none before.
LEMMA NextInLine ==
  ASSUME IInv, WaitInv, [Next]_vars
  PROVE  \A j \in Job : status'[j] = "queued" /\ ~InLine(j)' =>
           (status[j] = "queued" /\ ~InLine(j)) \/ Cause(j)
<1> USE DevicesAssumption
<1>1. TypeOK /\ SessionsInv /\ WorkInv
  BY DEF IInv
<1>2. None \in Place /\ Place' = Place /\ \A t \in Task : t \in Place /\ t # None
  BY Lines, <1>1 DEF Place
<1> DEFINE Explained == \A j \in Job : status'[j] = "queued" /\ ~InLine(j)' =>
                          (status[j] = "queued" /\ ~InLine(j)) \/ Cause(j)
<1>3. ASSUME \A j \in Job : status'[j] = "queued" /\ ~Cause(j) =>
               \/ status[j] = "queued" /\ \A p \in Place : j \in ToSet(Line(p)) =>
                                            \E q \in Place : j \in ToSet(Line(q)')
               \/ \E q \in Place : j \in ToSet(Line(q)')
      PROVE  Explained
  BY <1>2, <1>3 DEF InLine
<1>4. ASSUME UNCHANGED <<queue, remaining>>,
             \A j \in Job : status'[j] = "queued" => status[j] = "queued"
      PROVE  Explained
  BY <1>3, <1>4 DEF Line
<1>5. ASSUME NEW j \in Job, status' = [status EXCEPT ![j] = "queued"],
             queue' \in {queue, Append(queue, j)}, j \in ToSet(queue'), UNCHANGED remaining
      PROVE  Explained
  <2>1. queue \in Seq(Job) /\ ToSet(queue) \subseteq ToSet(queue')
    <3>1. queue \in Seq(Job)
      BY <1>1 DEF TypeOK
    <3>2. ToSet(Append(queue, j)) = ToSet(queue) \cup {j}
      BY <3>1, AppendOnce
    <3> QED BY <1>5, <3>1, <3>2
  <2>2. \A p \in Place : ToSet(Line(p)) \subseteq ToSet(Line(p)')
    BY <1>5, <2>1 DEF Line
  <2>3. j \in ToSet(Line(None)')
    BY <1>5 DEF Line
  <2> QED BY <1>1, <1>2, <1>3, <1>5, <2>2, <2>3 DEF TypeOK
<1>6. ASSUME NEW j \in Job, NEW d, Requeue(j, d), UNCHANGED remaining
      PROVE  Explained
  <2>1. queue \in Seq(Job)
    BY <1>1 DEF TypeOK
  <2>2. Contains(queue, j) => j \in ToSet(queue)
    BY <2>1, LenProperties DEF Contains, ToSet
  <2>3. j \in ToSet(Append(queue, j))
    BY <2>1, AppendOnce
  <2> QED BY <1>5, <1>6, <2>2, <2>3 DEF Requeue
<1>7. ASSUME NEW j \in Job, NEW outcome \in Terminal, Finish(j, outcome)
      PROVE  \A k \in Job : status'[k] = "queued" => status[k] = "queued" /\ k # j
  BY <1>1, <1>7, FinishEffect
<1>8. ASSUME NEW t \in Task, DrainStep(t) PROVE Explained
  <2> DEFINE h == Head(queue)
  <2>1. /\ queue \in Seq(Job) /\ NoRepeat(queue) /\ queue # <<>> /\ queue' = Tail(queue)
        /\ h \in Job
    BY <1>1, <1>2, <1>8, Lines, HeadTailType DEF DrainStep, WaitInv
  <2>2. ToSet(queue') = ToSet(queue) \ {h}
    BY <2>1, TailOnce
  <2> HIDE DEF h
  <2>3. ASSUME \A p \in Place : p # None => ToSet(Line(p)) \subseteq ToSet(Line(p)'),
               \A j \in Job : status'[j] = "queued" =>
                 status[j] = "queued" /\ (j # h \/ h \in ToSet(Line(t)'))
        PROVE  Explained
    <3>1. ToSet(Line(None)') = ToSet(Line(None)) \ {h}
      BY <2>2 DEF Line
    <3> QED BY <1>2, <1>3, <2>3, <3>1
  <2>4. CASE status[h] # "queued" /\ UNCHANGED <<status, remaining>>
    BY <2>3, <2>4 DEF Line
  <2>5. CASE UNCHANGED remaining /\ status' = [status EXCEPT ![h] = "running"]
    BY <1>1, <2>3, <2>5 DEF Line, TypeOK
  <2>6. CASE UNCHANGED status /\ remaining' = [remaining EXCEPT ![t] = Append(@, h)]
    <3>1. ToSet(Append(remaining[t], h)) = ToSet(remaining[t]) \cup {h}
      BY <1>1, <2>1, AppendOnce DEF TypeOK
    <3>2. /\ Line(t)' = Append(remaining[t], h) /\ Line(t) = remaining[t]
          /\ \A p \in Place : p # None /\ p # t => Line(p)' = Line(p)
      BY <1>1, <1>2, <2>6 DEF Line, Place, TypeOK
    <3>3. \A p \in Place : p # None => ToSet(Line(p)) \subseteq ToSet(Line(p)')
      BY <3>1, <3>2
    <3> QED BY <2>3, <2>6, <3>1, <3>2, <3>3
  <2> QED BY <1>8, <2>4, <2>5, <2>6 DEF DrainStep, Assign, jobVars, h
<1>9. ASSUME NEW t \in Task, DrainEnds(t) PROVE Explained
  <2>1. /\ queue = <<>> /\ queue' = remaining[t] /\ remaining' = [remaining EXCEPT ![t] = <<>>]
        /\ UNCHANGED status
    BY <1>9 DEF DrainEnds, jobVars
  <2>2. /\ Line(None)' = Line(t) /\ ToSet(Line(None)) = {}
        /\ \A p \in Place : p # None /\ p # t => Line(p)' = Line(p)
    BY <1>1, <1>2, <2>1 DEF Line, Place, TypeOK, ToSet
  <2> QED BY <1>2, <1>3, <2>1, <2>2
<1>10. ASSUME NEW t \in Task, Run(t) PROVE Explained
  <2>1. CASE SendRaises(t)
    <3>1. UNCHANGED <<queue, status>> /\ remaining' = [remaining EXCEPT ![t] = <<>>]
      BY <2>1 DEF SendRaises, jobVars
    <3>2. \A j \in Job : ~Cause(j) => ~Contains(remaining[t], j)
      BY <2>1 DEF Cause
    <3>3. \A j \in Job : ~Cause(j) => j \notin ToSet(Line(t))
      <4>1. remaining[t] \in Seq(Job) /\ Line(t) = remaining[t]
        BY <1>1, Lines DEF TypeOK
      <4> QED BY <3>2, <4>1, LenProperties DEF Contains, ToSet
    <3>4. \A p \in Place : p # t => Line(p)' = Line(p)
      BY <1>1, <1>2, <3>1 DEF Line, Place, TypeOK
    <3> QED BY <1>3, <3>1, <3>3, <3>4
  <2>2. CASE t \in Session /\ GiveBack(t)
    <3>1. CASE busy[t] # None /\ status[busy[t]] # "forgotten"
      <4>1. busy[t] \in Job /\ Requeue(busy[t], DeviceOf[t]) /\ UNCHANGED remaining
        BY <1>1, <2>2, <3>1 DEF GiveBack, TypeOK
      <4> QED BY <1>6, <4>1
    <3>2. CASE ~(busy[t] # None /\ status[busy[t]] # "forgotten")
      BY <1>4, <2>2, <3>2 DEF GiveBack, jobVars
    <3> QED BY <3>1, <3>2
  <2>3. CASE \/ SendReturns(t)
             \/ t \in Session /\ (PushReturns(t) \/ RegisterRaises(t) \/ SessionEnds(t))
    BY <1>4, <2>3 DEF SendReturns, PushReturns, RegisterRaises, SessionEnds, jobVars
  <2> QED BY <1>8, <1>9, <1>10, <2>1, <2>2, <2>3 DEF Run
<1>11. ASSUME NEW s \in Session, Message(s) PROVE Explained
  <2>1. CASE Availability(s)
    BY <1>4, <2>1 DEF Availability, jobVars
  <2>2. CASE JobResult(s)
    <3>1. held[s] \in Job /\ UNCHANGED <<queue, remaining>>
      BY <1>1, <2>2 DEF JobResult, TypeOK
    <3>2. Finish(held[s], "done") \/ UNCHANGED status
      BY <2>2 DEF JobResult
    <3> QED BY <1>4, <1>7, <3>1, <3>2
  <2>3. CASE JobEvicted(s) \/ JobRefused(s)
    <3>1. held[s] \in Job /\ Returned(s)
      BY <1>1, <2>3 DEF JobEvicted, JobRefused, TypeOK
    <3> QED BY <1>4, <1>6, <3>1 DEF Returned
  <2> QED BY <1>11, <2>1, <2>2, <2>3 DEF Message
<1>12. ASSUME NEW j \in Job, Submit(j) PROVE Explained
  <2>1. UNCHANGED remaining
    BY <1>12 DEF Submit, taskVars
  <2>2. CASE Finish(j, "failed") /\ UNCHANGED queue
    BY <1>4, <1>7, <2>1, <2>2
  <2>3. CASE status' = [status EXCEPT ![j] = "queued"] /\ queue' = Append(queue, j)
    <3>1. j \in ToSet(queue')
      BY <1>1, <2>3, AppendOnce DEF TypeOK
    <3> QED BY <1>5, <2>1, <2>3, <3>1
  <2>4. CASE status' = [status EXCEPT ![j] = "running"] /\ UNCHANGED queue
    BY <1>1, <1>4, <2>1, <2>4 DEF TypeOK
  <2> QED BY <1>12, <2>2, <2>3, <2>4 DEF Submit, Assign
<1>13. ASSUME NEW j \in Job, CancelQueued(j) PROVE Explained
  <2>1. queue' = RemoveFirst(queue, j) /\ UNCHANGED remaining /\ Finish(j, "cancelled")
    BY <1>13 DEF CancelQueued, taskVars
  <2>2. queue \in Seq(Job) /\ NoRepeat(queue)
    BY <1>1, <1>2, Lines DEF WaitInv
  <2>3. ToSet(queue) \ {j} \subseteq ToSet(queue')
    BY <2>1, <2>2, RemoveOnce
  <2>4. \A p \in Place : ToSet(Line(p)) \ {j} \subseteq ToSet(Line(p)')
    BY <2>1, <2>3 DEF Line
  <2> QED BY <1>3, <1>7, <2>1, <2>4
<1>14. CASE \/ UNCHANGED vars \/ PollTick
            \/ \E s \in Session : Register(s) \/ LoseConnection(s)
  BY <1>4, <1>14 DEF vars, taskVars, jobVars, PollTick, Register, LoseConnection
<1> QED BY <1>10, <1>11, <1>12, <1>13, <1>14 DEF Next

\* When a device's sessions do not overlap, and however its connections are lost, a
\* job is stranded by a failed send only: every other step leaves a queued job in a
\* line and a running one with a session that answers for it or gives it back
\* (gateway.py:337-361, 605-627).
THEOREM StrandedByFailedSend ==
  ASSUME Overlap = FALSE
  PROVE  Spec => StrandedByFailedSendOnly
<1> DEFINE Step ==
      \A j \in Job : Stranded(j)' =>
        \/ Stranded(j)
        \/ \E t \in Task : SendRaises(t) /\ Contains(remaining[t], j)
        \/ \E s \in Session : (SendRaises(s) \/ RegisterRaises(s)) /\ busy[s] = j
        \/ \E d \in Device : nodeOf'[j] = d /\ Ghost(d)
<1>1. TypeOK => \A j \in Job : InLine(j) <=> Places(j) # {}
  BY InLineMeans
<1>2. (TypeOK => \A j \in Job : InLine(j) <=> Places(j) # {})'
  BY <1>1, PTL
<1>3. Init => WaitInv
  <2> SUFFICES ASSUME Init PROVE WaitInv
    OBVIOUS
  <2>1. \A p \in Place : Line(p) = <<>>
    BY DEF Init, Line, Place
  <2> QED BY <2>1 DEF WaitInv, NoRepeat, ToSet
<1>4. IInv /\ [Next]_vars => IInv'
  BY NextIInv
<1>5. IInv /\ WaitInv /\ [Next]_vars => WaitInv'
  BY NextWait
<1>6. IInv /\ IInv' /\ WaitInv /\ [Next]_vars => [Step]_vars
  <2> SUFFICES ASSUME IInv, IInv', WaitInv, [Next]_vars,
                      NEW j \in Job, Stranded(j)'
               PROVE  Stranded(j) \/ Cause(j)
    BY DEF Cause
  <2>1. TypeOK /\ TypeOK'
    BY DEF IInv
  <2>2. InLine(j) <=> Places(j) # {}
    BY <1>1, <2>1
  <2>3. InLine(j)' <=> Places(j)' # {}
    BY <1>2, <2>1
  <2>4. Stranded(j) <=> \/ status[j] = "queued" /\ ~InLine(j)
                        \/ status[j] = "running" /\ ~Owned(j)
    BY <2>2 DEF Stranded, Owned
  <2>5. Stranded(j)' <=> \/ status'[j] = "queued" /\ ~InLine(j)'
                         \/ status'[j] = "running" /\ ~Owned(j)'
    BY <2>3 DEF Stranded, Owned
  <2> QED BY <2>1, <2>4, <2>5, NextOwned, NextInLine
<1>7. StrandedByFailedSendOnly <=> [][Step]_vars
  BY DEF StrandedByFailedSendOnly
<1> HIDE DEF Step
<1> QED BY <1>3, <1>4, <1>5, <1>6, <1>7, InitIInv, PTL DEF Spec
=============================================================================
