---------------------------- MODULE AgentProofs ----------------------------
(***************************************************************************)
(* Theorems about the agent of src/agent.py and its connection, for any     *)
(* jobs, any number of changes of mind of the owner and any number of       *)
(* control actions.                                                         *)
(***************************************************************************)
EXTENDS Agent, TLAPS, SequenceTheorems, FiniteSetTheorems

----------------------------------------------------------------------------
(* Type correctness *)

\* TypeOK is not inductive alone: that nothing runs when the agent connects needs
\* that without a connection there is no receive loop, and that an answer is about a
\* job needs that only a job is awaited.
TypeInv ==
  /\ TypeOK
  /\ link = "none" <=> rx = "off"
  /\ rx = "run" => job # None

\* The messages the actions make are messages of the two channels.
LEMMA MessagesTyped ==
  /\ \A a \in BOOLEAN : Register(a) \in MessagesToGateway /\ Report(a) \in MessagesToGateway
  /\ \A t \in Answers, j \in Job : Answer(t, j) \in MessagesToGateway
  /\ \A j \in Job : RunJob(j) \in MessagesToAgent /\ CancelJob(j) \in MessagesToAgent
  /\ \A a \in Control : NodeControl(a) \in MessagesToAgent
BY DEF Register, Report, Answer, RunJob, CancelJob, NodeControl, MessagesToGateway, MessagesToAgent

\* A message is told by its type, and carries what the type says.
LEMMA GatewayMail ==
  ASSUME NEW m \in MessagesToGateway
  PROVE  /\ m.type \in Answers => m.job \in Job
         /\ m.type \in {"REGISTER", "AVAILABILITY"} => m.available \in BOOLEAN
         /\ m.type \in Answers \cup {"REGISTER", "AVAILABILITY"}
BY DEF MessagesToGateway, Answers

LEMMA AgentMail ==
  ASSUME NEW m \in MessagesToAgent
  PROVE  /\ m.type \in {"RUN_JOB", "CANCEL_JOB"} => m.job \in Job
         /\ m.type = "NODE_CONTROL" => m.action \in Control
BY DEF MessagesToAgent

\* Sending and receiving keep a channel a sequence of its messages.
LEMMA ChannelOps ==
  ASSUME NEW S, NEW ch \in Seq(S)
  PROVE  /\ <<>> \in Seq(S)
         /\ \A m \in S : Append(ch, m) \in Seq(S) /\ <<m>> \in Seq(S)
         /\ ch # <<>> => Head(ch) \in S /\ Tail(ch) \in Seq(S)
         /\ \A n \in 0 .. Len(ch) : SubSeq(ch, 1, n) \in Seq(S)
<1>1. ch # <<>> => Head(ch) \in S /\ Tail(ch) \in Seq(S)
  BY HeadTailProperties
<1>2. ASSUME NEW n \in 0 .. Len(ch) PROVE SubSeq(ch, 1, n) \in Seq(S)
  <2>1. \A i \in 1 .. n : ch[i] \in S
    BY ElementOfSeq
  <2> QED BY <2>1, SubSeqProperties
<1> QED BY <1>1, <1>2

\* What the two channels hold and lose in each step.
LEMMA ChannelsTyped ==
  ASSUME TypeOK
  PROVE  /\ toGateway \in Seq(MessagesToGateway)
         /\ \A m \in MessagesToGateway : /\ Append(toGateway, m) \in Seq(MessagesToGateway)
                                         /\ <<m>> \in Seq(MessagesToGateway)
         /\ <<>> \in Seq(MessagesToGateway)
         /\ toGateway # <<>> => /\ Head(toGateway) \in MessagesToGateway
                                /\ Tail(toGateway) \in Seq(MessagesToGateway)
         /\ toAgent \in Seq(MessagesToAgent)
         /\ \A m \in MessagesToAgent : Append(toAgent, m) \in Seq(MessagesToAgent)
         /\ <<>> \in Seq(MessagesToAgent)
         /\ toAgent # <<>> => /\ Head(toAgent) \in MessagesToAgent
                              /\ Tail(toAgent) \in Seq(MessagesToAgent)
         /\ \A n \in 0 .. Len(toAgent) : SubSeq(toAgent, 1, n) \in Seq(MessagesToAgent)
BY ChannelOps DEF TypeOK

\* An answer of a job that may be answered keeps both channels' types and the
\* receive loop's states.
LEMMA AnswerTyped ==
  ASSUME TypeInv, NEW t \in Answers, NEW j \in Job, SendAnswer(Answer(t, j)), rx # "off"
  PROVE  /\ toGateway' \in Seq(MessagesToGateway)
         /\ rx' \in {"off", "recv"}
         /\ monitor' \in {"off", "sleep", "check", "dead"}
         /\ link' \in {"none", "up", "lost"}
         /\ link' = "none" <=> rx' = "off"
<1>1. Answer(t, j) \in MessagesToGateway
  BY MessagesTyped
<1>2. /\ Append(toGateway, Answer(t, j)) \in Seq(MessagesToGateway)
      /\ toGateway \in Seq(MessagesToGateway)
  BY <1>1, ChannelsTyped DEF TypeInv
<1> QED BY <1>2 DEF SendAnswer, TypeInv, TypeOK

\* The actions that only change what the agent is told of itself.
LEMMA ControlTyped ==
  ASSUME TypeInv, NEW a \in Control, Set(a), Push
  PROVE  /\ {lendable', paused', available'} \subseteq BOOLEAN
         /\ flips' \in 0 .. MaxFlips
         /\ toGateway' \in Seq(MessagesToGateway)
<1>1. {lendable', paused'} \subseteq BOOLEAN /\ flips' \in 0 .. MaxFlips
  <2>1. {lendable, paused} \subseteq BOOLEAN /\ flips \in 0 .. MaxFlips
    BY DEF TypeInv, TypeOK
  <2>2. flips < MaxFlips => flips + 1 \in 0 .. MaxFlips
    BY <2>1, BoundsAssumption
  <2>3. lendable' \in BOOLEAN
    <3>1. lendable' = lendable \/ lendable' = ~lendable
      BY DEF Set
    <3> QED BY <2>1, <3>1
  <2>4. paused' \in BOOLEAN
    BY <2>1, Zenon DEF Set
  <2>5. flips' \in 0 .. MaxFlips
    BY <2>1, <2>2 DEF Set
  <2> QED BY <2>3, <2>4, <2>5
<1>2. (lendable' /\ ~paused') \in BOOLEAN
  OBVIOUS
<1>3. Report(lendable' /\ ~paused') \in MessagesToGateway
  BY <1>2, MessagesTyped
<1>4. toGateway' \in Seq(MessagesToGateway)
  BY <1>3, ChannelsTyped DEF Push, TypeInv
<1> QED BY <1>1, <1>2, <1>4 DEF Push

\* Every step of agent, channels and gateway keeps the types.
LEMMA StepTyped == TypeInv /\ [Next]_vars => TypeInv'
<1> SUFFICES ASSUME TypeInv, [Next]_vars PROVE TypeInv'
  OBVIOUS
<1> USE ChannelsTyped
<1>1. CASE UNCHANGED vars
  BY <1>1 DEF vars, agentVars, gwVars, channels, bounds, TypeInv, TypeOK
<1>2. CASE Connect
  <2>1. Register(available) \in MessagesToGateway
    BY MessagesTyped DEF TypeInv, TypeOK
  <2> QED BY <1>2, <2>1 DEF Connect, gwVars, bounds, TypeInv, TypeOK
<1>3. CASE LoseConnection
  <2>1. toAgent' \in Seq(MessagesToAgent) /\ toGateway' = <<>>
    BY <1>3 DEF LoseConnection, GatewayForgets, TypeInv
  <2> QED BY <1>3, <2>1 DEF LoseConnection, GatewayForgets, bounds, TypeInv, TypeOK
<1>4. CASE OwnerActs
  <2>1. flips' \in 0 .. MaxFlips
    BY <1>4, BoundsAssumption DEF OwnerActs, TypeInv, TypeOK
  <2> QED BY <1>4, <2>1 DEF OwnerActs, agentVars, channels, gwVars, TypeInv, TypeOK
<1>5. CASE MonitorTick
  <2> DEFINE now == lendable /\ ~paused
  <2>1. Report(now) \in MessagesToGateway
    BY MessagesTyped
  <2>2. available' = now /\ toGateway' \in Seq(MessagesToGateway)
          /\ monitor' \in {"sleep", "check", "dead"}
    BY <1>5, <2>1 DEF MonitorTick, TypeInv
  <2> QED BY <1>5, <2>2 DEF MonitorTick, gwVars, bounds, TypeInv, TypeOK
<1>6. CASE MonitorCheck
  BY <1>6 DEF MonitorCheck, KillBox, channels, gwVars, bounds, TypeInv, TypeOK
<1>7. ASSUME NEW a \in Control, PanelControl(a) PROVE TypeInv'
  <2>1. controls' \in 0 .. MaxControls
    BY <1>7, BoundsAssumption DEF PanelControl, TypeInv, TypeOK
  <2> QED BY <1>7, <2>1, ControlTyped DEF PanelControl, gwVars, TypeInv, TypeOK
<1>8. ASSUME NEW a \in Control, RelayControl(a) PROVE TypeInv'
  <2>1. controls' \in 0 .. MaxControls
    BY <1>8, BoundsAssumption DEF RelayControl, TypeInv, TypeOK
  <2>2. toAgent' \in Seq(MessagesToAgent)
    BY <1>8, MessagesTyped DEF RelayControl, TypeInv
  <2> QED BY <1>8, <2>1, <2>2 DEF RelayControl, agentVars, gwVars, TypeInv, TypeOK
<1>9. CASE ServeEnds
  BY <1>9 DEF ServeEnds, LeaveServe, gwVars, bounds, TypeInv, TypeOK
<1>10. CASE Decline
  <2>1. PICK t \in Answers : SendAnswer(Answer(t, Head(toAgent).job))
    BY <1>10 DEF Decline, Answers
  <2>2. Head(toAgent).job \in Job /\ rx = "recv"
    BY <1>10, AgentMail DEF Decline, Receives, TypeInv
  <2>3. toAgent' \in Seq(MessagesToAgent)
    BY <1>10 DEF Decline, Receives, TypeInv
  <2> QED BY <1>10, <2>1, <2>2, <2>3, AnswerTyped DEF Decline, gwVars, bounds, TypeInv, TypeOK
<1>11. CASE Start
  <2>1. Head(toAgent).job \in Job /\ toAgent' \in Seq(MessagesToAgent)
    BY <1>11, AgentMail DEF Start, Receives, TypeInv
  <2> QED BY <1>11, <2>1, JobsAssumption DEF Start, Receives, gwVars, bounds, TypeInv, TypeOK
<1>12. CASE Cancel
  <2>1. toAgent' \in Seq(MessagesToAgent)
    BY <1>12 DEF Cancel, Receives, TypeInv
  <2> QED BY <1>12, <2>1 DEF Cancel, KillBox, Receives, gwVars, bounds, TypeInv, TypeOK
<1>13. CASE Controlled
  <2>1. Head(toAgent).action \in Control
    BY <1>13, AgentMail DEF Controlled, Receives, TypeInv
  <2>2. /\ toAgent' \in Seq(MessagesToAgent)
        /\ rx' \in {"off", "recv"} /\ (link' = "none" <=> rx' = "off")
        /\ link' \in {"none", "up", "lost"}
        /\ monitor' \in {"off", "sleep", "check", "dead"}
    BY <1>13 DEF Controlled, Receives, LeaveServe, TypeInv, TypeOK
  <2> QED BY <1>13, <2>1, <2>2, ControlTyped DEF Controlled, Receives, gwVars, TypeInv, TypeOK
<1>14. CASE BoxEnds \/ KillEnds
  BY <1>14 DEF BoxEnds, KillEnds, channels, gwVars, bounds, TypeInv, TypeOK
<1>15. CASE BoxRaises
  BY <1>15 DEF BoxRaises, LeaveServe, GatewayForgets, bounds, TypeInv, TypeOK
<1>16. CASE Finish
  <2>1. job \in Job /\ rx = "run"
    BY <1>16 DEF Finish, TypeInv, TypeOK
  <2>2. PICK t \in Answers : SendAnswer(Answer(t, job))
    BY <1>16 DEF Finish, Answers
  <2>3. toAgent' \in Seq(MessagesToAgent)
    BY <1>16 DEF Finish, TypeInv
  <2> QED BY <1>16, <2>1, <2>2, <2>3, AnswerTyped DEF Finish, gwVars, bounds, TypeInv, TypeOK
<1>17. CASE GatewayReads
  BY <1>17, GatewayMail DEF GatewayReads, agentVars, bounds, TypeInv, TypeOK
<1>18. CASE RelayCancel
  <2>1. gwBusy \in Job
    BY <1>18 DEF RelayCancel, TypeInv, TypeOK
  <2> QED BY <1>18, <2>1, MessagesTyped
          DEF RelayCancel, agentVars, bounds, TypeInv, TypeOK
<1>19. ASSUME NEW j \in Job, Assign(j) PROVE TypeInv'
  BY <1>19, MessagesTyped DEF Assign, agentVars, bounds, TypeInv, TypeOK
<1> QED BY <1>1, <1>2, <1>3, <1>4, <1>5, <1>6, <1>7, <1>8, <1>9, <1>10, <1>11, <1>12, <1>13,
           <1>14, <1>15, <1>16, <1>17, <1>18, <1>19 DEF Next, Serve

LEMMA InitTyped == Init => TypeInv
<1> SUFFICES ASSUME Init PROVE TypeInv
  OBVIOUS
<1>1. 0 \in 0 .. MaxFlips /\ 0 \in 0 .. MaxControls
  BY BoundsAssumption
<1>2. <<>> \in Seq(MessagesToGateway) /\ <<>> \in Seq(MessagesToAgent)
  BY EmptySeq
<1>3. {lendable, paused, available, evicted, listed, gwAvailable} \subseteq BOOLEAN
  BY DEF Init
<1> QED BY <1>1, <1>2, <1>3 DEF Init, TypeInv, TypeOK

\* Types, and that a job is awaited exactly while it has a sandbox, in every
\* reachable state (agent.py:366-430).
THEOREM TypeCorrect == Spec => []TypeOK
<1>1. TypeInv => TypeOK
  BY DEF TypeInv
<1> QED BY <1>1, InitTyped, StepTyped, PTL DEF Spec

LEMMA SpecTyped == Spec => []TypeInv
BY InitTyped, StepTyped, PTL DEF Spec

----------------------------------------------------------------------------
(* Evicted jobs *)

\* In the subprocess sandbox, a job that will be given back as evicted is not running
\* any more, whatever starts, pauses, cancellations and losses come between the kill and the answer
\* (agent.py:325-334, 390).
THEOREM EvictedStops ==
  ASSUME Docker = FALSE
  PROVE  Spec => []EvictedIsStopped
<1>1. Init => EvictedIsStopped
  BY DEF Init, EvictedIsStopped
<1>2. TypeInv /\ EvictedIsStopped /\ [Next]_vars => EvictedIsStopped'
  <2> SUFFICES ASSUME TypeInv, EvictedIsStopped, [Next]_vars PROVE EvictedIsStopped'
    OBVIOUS
  <2>1. CASE UNCHANGED <<evicted, box, rx>>
    BY <2>1 DEF EvictedIsStopped
  <2>2. CASE rx' # "run"
    BY <2>2 DEF EvictedIsStopped
  <2>3. CASE box' # "running"
    BY <2>3 DEF EvictedIsStopped
  <2>4. CASE Start
    BY <2>4 DEF Start, EvictedIsStopped
  <2>5. CASE MonitorCheck
    BY <2>5 DEF MonitorCheck, KillBox, EvictedIsStopped
  <2>6. CASE Decline \/ Finish
    BY <2>2, <2>6 DEF Decline, Finish, SendAnswer
  <2>7. CASE Controlled
    BY <2>2, <2>7 DEF Controlled, Receives, LeaveServe
  <2>8. CASE Connect \/ ServeEnds \/ BoxRaises \/ Cancel
    BY <2>2, <2>8 DEF Connect, ServeEnds, BoxRaises, Cancel, KillBox, Receives, LeaveServe
  <2>9. CASE UNCHANGED vars \/ LoseConnection \/ OwnerActs \/ MonitorTick \/ GatewayReads
               \/ RelayCancel \/ \E j \in Job : Assign(j)
    BY <2>1, <2>9 DEF vars, agentVars, LoseConnection, OwnerActs, MonitorTick, GatewayReads,
                     RelayCancel, Assign
  <2>10. CASE \E a \in Control : PanelControl(a) \/ RelayControl(a)
    BY <2>1, <2>10 DEF PanelControl, RelayControl, agentVars
  <2>11. CASE BoxEnds \/ KillEnds
    BY <2>3, <2>11 DEF BoxEnds, KillEnds
  <2> QED BY <2>4, <2>5, <2>6, <2>7, <2>8, <2>9, <2>10, <2>11 DEF Next, Serve
<1> QED BY <1>1, <1>2, SpecTyped, PTL DEF Spec

----------------------------------------------------------------------------
(* Counting messages *)

Places(t, ch, j) == {i \in DOMAIN ch : ch[i].type \in t /\ ch[i].job = j}
Says(t, m, j) == IF m.type \in t /\ m.job = j THEN 1 ELSE 0

LEMMA CountIsPlaces == \A t, ch, j : Count(t, ch, j) = Cardinality(Places(t, ch, j))
BY DEF Count, Places

LEMMA PlacesFinite ==
  ASSUME NEW S, NEW ch \in Seq(S), NEW t, NEW j
  PROVE  /\ IsFiniteSet(Places(t, ch, j))
         /\ Count(t, ch, j) \in Nat
         /\ Places(t, ch, j) \subseteq 1 .. Len(ch)
<1>1. DOMAIN ch = 1 .. Len(ch) /\ Len(ch) \in Nat
  BY LenProperties
<1>2. IsFiniteSet(1 .. Len(ch))
  BY <1>1, FS_Interval
<1>3. Places(t, ch, j) \in SUBSET (1 .. Len(ch))
  BY <1>1 DEF Places
<1>4. IsFiniteSet(Places(t, ch, j))
  BY <1>2, <1>3, FS_Subset
<1> QED BY <1>3, <1>4, FS_CardinalityType, CountIsPlaces

LEMMA CountNone == \A t, j : Count(t, <<>>, j) = 0
<1> SUFFICES ASSUME NEW t, NEW j PROVE Count(t, <<>>, j) = 0
  OBVIOUS
<1>1. Places(t, <<>>, j) = {}
  BY DEF Places
<1> QED BY <1>1, FS_EmptySet, CountIsPlaces

LEMMA CountOther == \A t, m, j : Says(t, m, j) = 0 => Count(t, <<m>>, j) = 0
<1> SUFFICES ASSUME NEW t, NEW m, NEW j, Says(t, m, j) = 0 PROVE Count(t, <<m>>, j) = 0
  OBVIOUS
<1>1. DOMAIN <<m>> = {1} /\ <<m>>[1] = m
  OBVIOUS
<1>2. ~(m.type \in t /\ m.job = j)
  BY DEF Says
<1>3. Places(t, <<m>>, j) = {}
  BY <1>1, <1>2 DEF Places
<1> QED BY <1>3, FS_EmptySet, CountIsPlaces

\* Sending a message counts it, if it is one of those counted.
LEMMA CountSent ==
  ASSUME NEW S, NEW ch \in Seq(S), NEW m \in S, NEW t, NEW j
  PROVE  Count(t, Append(ch, m), j) = Count(t, ch, j) + Says(t, m, j)
<1> DEFINE n == Len(ch)  longer == Append(ch, m)
<1>1. n \in Nat /\ DOMAIN ch = 1 .. n
  BY LenProperties
<1>2. /\ DOMAIN longer = 1 .. n + 1
      /\ \A i \in 1 .. n : longer[i] = ch[i]
      /\ longer[n + 1] = m
  BY <1>1
<1>3. CASE m.type \in t /\ m.job = j
  <2>1. Places(t, longer, j) = Places(t, ch, j) \cup {n + 1}
    <3> HIDE DEF longer, n
    <3> QED BY <1>1, <1>2, <1>3 DEF Places
  <2>2. n + 1 \notin Places(t, ch, j)
    BY <1>1, PlacesFinite
  <2> QED BY <1>3, <2>1, <2>2, PlacesFinite, FS_AddElement, CountIsPlaces DEF Says
<1>4. CASE ~(m.type \in t /\ m.job = j)
  <2>1. Places(t, longer, j) = Places(t, ch, j)
    <3> HIDE DEF longer, n
    <3> QED BY <1>1, <1>2, <1>4 DEF Places
  <2> QED BY <1>4, <2>1, PlacesFinite, CountIsPlaces DEF Says
<1> QED BY <1>3, <1>4

\* Receiving the first message takes it from the count.
LEMMA CountReceived ==
  ASSUME NEW S, NEW ch \in Seq(S), ch # <<>>, NEW t, NEW j
  PROVE  Count(t, ch, j) = Count(t, Tail(ch), j) + Says(t, Head(ch), j)
<1> DEFINE n == Len(ch)  rest == Tail(ch)
           later == Places(t, ch, j) \ {1}
           shift == [i \in Places(t, rest, j) |-> i + 1]
<1>1. n \in Nat \ {0} /\ DOMAIN ch = 1 .. n /\ ch[1] = Head(ch)
  BY LenProperties, EmptySeq
<1>2. rest \in Seq(S) /\ DOMAIN rest = 1 .. n - 1 /\ \A i \in 1 .. n - 1 : rest[i] = ch[i + 1]
  BY HeadTailProperties, LenProperties
<1>3. ExistsBijection(Places(t, rest, j), later)
  <2>1. \A i \in Places(t, rest, j) : i \in 1 .. n - 1 /\ i + 1 \in later
    <3> HIDE DEF n, rest
    <3> QED BY <1>1, <1>2 DEF Places
  <2>2. \A k \in later : k - 1 \in Places(t, rest, j) /\ (k - 1) + 1 = k
    <3> HIDE DEF n, rest
    <3> QED BY <1>1, <1>2 DEF Places
  <2>3. shift \in Bijection(Places(t, rest, j), later)
    <3> HIDE DEF later, rest, n
    <3>1. shift \in [Places(t, rest, j) -> later]
      BY <2>1
    <3>2. \A a, b \in Places(t, rest, j) : shift[a] = shift[b] => a = b
      BY <2>1
    <3>3. \A k \in later : \E i \in Places(t, rest, j) : shift[i] = k
      BY <2>2
    <3> QED BY <3>1, <3>2, <3>3 DEF Bijection, Injection, Surjection, IsInjective
  <2> QED BY <2>3 DEF ExistsBijection
<1>4. Cardinality(later) = Count(t, rest, j) /\ IsFiniteSet(later)
  <2>1. IsFiniteSet(Places(t, rest, j))
    BY <1>2, PlacesFinite
  <2> HIDE DEF later, rest
  <2> QED BY <1>3, <2>1, FS_Bijection, CountIsPlaces
<1>5. 1 \in Places(t, ch, j) <=> (Head(ch).type \in t /\ Head(ch).job = j)
  BY <1>1 DEF Places
<1>6. Count(t, rest, j) \in Nat
  BY <1>2, PlacesFinite
<1>7. Cardinality(later) = IF 1 \in Places(t, ch, j) THEN Count(t, ch, j) - 1 ELSE Count(t, ch, j)
  BY PlacesFinite, FS_RemoveElement, CountIsPlaces
<1>8. Count(t, ch, j) \in Nat
  BY PlacesFinite
<1> HIDE DEF later
<1> QED BY <1>4, <1>5, <1>6, <1>7, <1>8 DEF Says

----------------------------------------------------------------------------
(* Each job is in one place *)

OnItsWay(j) == Count({"RUN_JOB"}, toAgent, j)
Answered(j) == Count(Answers, toGateway, j)
Awaited(j) == IF rx = "run" /\ job = j THEN 1 ELSE 0
Owed(j) == IF gwBusy = j THEN 1 ELSE 0

\* Without a connection the gateway has no Node and nothing is on its way to it.
Forgotten == link # "up" => ~listed /\ gwBusy = None /\ toGateway = <<>>

Placed == \A j \in Job : OnItsWay(j) + Answered(j) + Awaited(j) = Owed(j)

LEMMA PlacedMeans == AnsweredOnce <=> (link = "up" => Placed)
BY DEF AnsweredOnce, Placed, OnItsWay, Answered, Awaited, Owed

LEMMA ForgottenKept == TypeInv /\ Forgotten /\ [Next]_vars => Forgotten'
<1> SUFFICES ASSUME TypeInv, Forgotten, [Next]_vars PROVE Forgotten'
  OBVIOUS
<1>1. CASE UNCHANGED <<link, listed, gwBusy, toGateway>>
  BY <1>1 DEF Forgotten
<1>2. CASE link' = "up"
  BY <1>2 DEF Forgotten
<1>3. CASE GatewayForgets
  BY <1>3 DEF GatewayForgets, Forgotten
<1>4. CASE Decline \/ Finish
  <2>1. PICK answer : SendAnswer(answer)
    BY <1>4 DEF Decline, Finish
  <2>2. UNCHANGED <<listed, gwBusy>>
    BY <1>4 DEF Decline, Finish, gwVars
  <2> QED BY <1>2, <2>1, <2>2 DEF SendAnswer, Forgotten
<1>5. CASE Controlled
  BY <1>5 DEF Controlled, Receives, Push, LeaveServe, Forgotten, gwVars, TypeInv, TypeOK
<1>6. ASSUME NEW a \in Control, PanelControl(a) \/ RelayControl(a) PROVE Forgotten'
  BY <1>6 DEF PanelControl, RelayControl, Push, Forgotten, gwVars, agentVars
<1>7. CASE Connect \/ MonitorTick
  BY <1>7 DEF Connect, MonitorTick, Forgotten, gwVars
<1>8. CASE LoseConnection \/ BoxRaises
  BY <1>3, <1>8 DEF LoseConnection, BoxRaises
<1>9. CASE ServeEnds
  BY <1>9 DEF ServeEnds, LeaveServe, Forgotten, gwVars
<1>10. CASE GatewayReads
  BY <1>10 DEF GatewayReads, Forgotten, agentVars
<1>11. CASE RelayCancel \/ \E j \in Job : Assign(j)
  BY <1>11 DEF RelayCancel, Assign, Forgotten, agentVars
<1>12. CASE UNCHANGED vars \/ OwnerActs \/ MonitorCheck \/ Start \/ Cancel \/ BoxEnds \/ KillEnds
  BY <1>1, <1>12 DEF vars, OwnerActs, MonitorCheck, Start, Cancel, BoxEnds, KillEnds,
                     agentVars, gwVars, channels
<1> QED BY <1>4, <1>5, <1>6, <1>7, <1>8, <1>9, <1>10, <1>11, <1>12 DEF Next, Serve

\* Every count is a number.
LEMMA CountsTyped ==
  ASSUME TypeOK
  PROVE  \A j : OnItsWay(j) \in Nat /\ Answered(j) \in Nat
BY PlacesFinite DEF TypeOK, OnItsWay, Answered

\* What a count becomes when a message is sent or received.
LEMMA CountStep ==
  ASSUME NEW S, NEW ch \in Seq(S), NEW after, NEW t, NEW j
  PROVE  /\ after = ch => Count(t, after, j) = Count(t, ch, j)
         /\ \A m \in S : after = Append(ch, m) => Count(t, after, j) = Count(t, ch, j) + Says(t, m, j)
         /\ ch # <<>> /\ after = Tail(ch) => Count(t, after, j) = Count(t, ch, j) - Says(t, Head(ch), j)
<1>1. ASSUME ch # <<>>, after = Tail(ch)
      PROVE  Count(t, after, j) = Count(t, ch, j) - Says(t, Head(ch), j)
  <2>1. Tail(ch) \in Seq(S)
    BY <1>1, HeadTailProperties
  <2>2. /\ Count(t, ch, j) \in Nat /\ Count(t, after, j) \in Nat
        /\ Says(t, Head(ch), j) \in Nat
    BY <1>1, <2>1, PlacesFinite DEF Says
  <2>3. Count(t, ch, j) = Count(t, after, j) + Says(t, Head(ch), j)
    BY <1>1, CountReceived
  <2> QED BY <2>2, <2>3
<1>2. ASSUME NEW m \in S, after = Append(ch, m)
      PROVE  Count(t, after, j) = Count(t, ch, j) + Says(t, m, j)
  BY <1>2, CountSent
<1> QED BY <1>1, <1>2

LEMMA ToAgentCounts ==
  ASSUME TypeOK, NEW j
  PROVE  /\ toAgent' = toAgent => OnItsWay(j)' = OnItsWay(j)
         /\ \A m \in MessagesToAgent :
               toAgent' = Append(toAgent, m) => OnItsWay(j)' = OnItsWay(j) + Says({"RUN_JOB"}, m, j)
         /\ toAgent # <<>> /\ toAgent' = Tail(toAgent)
              => OnItsWay(j)' = OnItsWay(j) - Says({"RUN_JOB"}, Head(toAgent), j)
BY CountStep DEF OnItsWay, TypeOK

LEMMA ToGatewayCounts ==
  ASSUME TypeOK, NEW j
  PROVE  /\ toGateway' = toGateway => Answered(j)' = Answered(j)
         /\ \A m \in MessagesToGateway :
               toGateway' = Append(toGateway, m) => Answered(j)' = Answered(j) + Says(Answers, m, j)
         /\ toGateway # <<>> /\ toGateway' = Tail(toGateway)
              => Answered(j)' = Answered(j) - Says(Answers, Head(toGateway), j)
BY CountStep DEF Answered, TypeOK

\* Reports, cancellations and control actions are not counted.
LEMMA NotCounted ==
  /\ \A a, j : Says(Answers, Report(a), j) = 0 /\ Says(Answers, Register(a), j) = 0
  /\ \A i, j : Says({"RUN_JOB"}, CancelJob(i), j) = 0
  /\ \A a, j : Says({"RUN_JOB"}, NodeControl(a), j) = 0
BY DEF Says, Report, Register, CancelJob, NodeControl, Answers

\* A step that makes no difference to where a job is, on a connection that lasts.
LEMMA PlacedStays ==
  ASSUME Placed,
         \A j \in Job : OnItsWay(j)' = OnItsWay(j) /\ Answered(j)' = Answered(j),
         (rx' = rx /\ job' = job) \/ (rx # "run" /\ rx' # "run"),
         gwBusy' = gwBusy
  PROVE  Placed'
BY DEF Placed, Awaited, Owed

LEMMA PlacedKept == TypeInv /\ Forgotten /\ AnsweredOnce /\ [Next]_vars => AnsweredOnce'
<1> SUFFICES ASSUME TypeInv, Forgotten, AnsweredOnce, [Next]_vars, link' = "up" PROVE Placed'
  <2>1. (link' = "up" => Placed') => AnsweredOnce'
    BY DEF AnsweredOnce, Placed, OnItsWay, Answered, Awaited, Owed
  <2> QED BY <2>1
<1> USE DEF TypeInv
<1>0. link = "up" => Placed
  BY PlacedMeans
<1>1. CASE Connect
  <2>1. \A j \in Job : OnItsWay(j)' = 0
    BY <1>1, CountNone DEF Connect, OnItsWay
  <2>2. \A j \in Job : Answered(j)' = 0
    <3> TAKE j \in Job
    <3>1. toGateway' = <<Register(available)>>
      BY <1>1 DEF Connect
    <3> QED BY <3>1, CountOther, NotCounted DEF Answered
  <2>3. rx' # "run" /\ gwBusy' = None /\ None \notin Job
    BY <1>1, JobsAssumption DEF Connect, Forgotten, gwVars
  <2> QED BY <2>1, <2>2, <2>3 DEF Placed, Awaited, Owed
<1>2. CASE UNCHANGED vars \/ OwnerActs \/ MonitorCheck \/ BoxEnds \/ KillEnds
  <2>1. UNCHANGED <<rx, job, link, toAgent, toGateway, gwBusy>>
    BY <1>2 DEF vars, OwnerActs, MonitorCheck, BoxEnds, KillEnds, agentVars, gwVars, channels
  <2> QED BY <2>1, <1>0, PlacedStays, ToAgentCounts, ToGatewayCounts
<1>3. CASE MonitorTick
  <2>1. Report(lendable /\ ~paused) \in MessagesToGateway
    BY MessagesTyped
  <2>2. /\ UNCHANGED <<rx, job, link, toAgent, gwBusy>>
        /\ \/ toGateway' = toGateway
           \/ toGateway' = Append(toGateway, Report(lendable /\ ~paused))
    BY <1>3 DEF MonitorTick, gwVars
  <2>3. \A j \in Job : Answered(j)' = Answered(j)
    BY <2>1, <2>2, ToGatewayCounts, NotCounted, CountsTyped
  <2> QED BY <2>2, <2>3, <1>0, PlacedStays, ToAgentCounts
<1>4. ASSUME Push, link = "up", UNCHANGED gwBusy,
             UNCHANGED <<rx, job>> \/ (rx # "run" /\ rx' # "run"),
             toAgent' = toAgent \/ (Receives("NODE_CONTROL") /\ toAgent' = Tail(toAgent))
      PROVE  Placed'
  <2>1. Report(lendable' /\ ~paused') \in MessagesToGateway
    BY MessagesTyped
  <2>2. toGateway' = Append(toGateway, Report(lendable' /\ ~paused'))
    BY <1>4 DEF Push
  <2>3. \A j \in Job : Answered(j)' = Answered(j)
    BY <2>1, <2>2, ToGatewayCounts, NotCounted, CountsTyped
  <2>4. \A j \in Job : OnItsWay(j)' = OnItsWay(j)
    <3>1. CASE toAgent' = toAgent
      BY <3>1, ToAgentCounts
    <3>2. CASE Receives("NODE_CONTROL") /\ toAgent' = Tail(toAgent)
      <4>1. \A j : Says({"RUN_JOB"}, Head(toAgent), j) = 0
        BY <3>2 DEF Receives, Says
      <4> QED BY <3>2, <4>1, ToAgentCounts, CountsTyped DEF Receives
    <3> QED BY <1>4, <3>1, <3>2
  <2> QED BY <1>0, <1>4, <2>3, <2>4, PlacedStays
<1>5. ASSUME NEW a \in Control, PanelControl(a) PROVE Placed'
  <2>1. Push /\ link = "up" /\ UNCHANGED <<gwBusy, rx, job, toAgent>>
    BY <1>5 DEF PanelControl, gwVars
  <2> QED BY <1>4, <2>1
<1>6. CASE Controlled
  <2>1. link = "up"
    BY <1>6 DEF Controlled, LeaveServe, Receives
  <2>2. /\ Push /\ UNCHANGED <<gwBusy, rx, job>>
        /\ Receives("NODE_CONTROL") /\ toAgent' = Tail(toAgent)
    BY <1>6, <2>1 DEF Controlled, gwVars
  <2> QED BY <1>4, <2>1, <2>2
<1>7. ASSUME NEW a \in Control, RelayControl(a) PROVE Placed'
  <2>1. NodeControl(a) \in MessagesToAgent
    BY MessagesTyped
  <2>2. /\ UNCHANGED <<rx, job, link, toGateway, gwBusy>>
        /\ toAgent' = Append(toAgent, NodeControl(a))
    BY <1>7 DEF RelayControl, agentVars, gwVars
  <2>3. \A j \in Job : OnItsWay(j)' = OnItsWay(j)
    BY <2>1, <2>2, ToAgentCounts, NotCounted, CountsTyped
  <2> QED BY <2>2, <2>3, <1>0, PlacedStays, ToGatewayCounts
<1>8. CASE RelayCancel
  <2>1. CancelJob(gwBusy) \in MessagesToAgent
    BY <1>8, MessagesTyped DEF RelayCancel, TypeOK
  <2>2. /\ UNCHANGED <<rx, job, link, toGateway, gwBusy>>
        /\ toAgent' = Append(toAgent, CancelJob(gwBusy))
    BY <1>8 DEF RelayCancel, agentVars
  <2>3. \A j \in Job : OnItsWay(j)' = OnItsWay(j)
    BY <2>1, <2>2, ToAgentCounts, NotCounted, CountsTyped
  <2> QED BY <2>2, <2>3, <1>0, PlacedStays, ToGatewayCounts
<1>9. CASE Cancel
  <2>1. /\ UNCHANGED <<rx, job, link, toGateway, gwBusy>>
        /\ toAgent # <<>> /\ Head(toAgent).type = "CANCEL_JOB" /\ toAgent' = Tail(toAgent)
    BY <1>9 DEF Cancel, Receives, gwVars
  <2>2. \A j : Says({"RUN_JOB"}, Head(toAgent), j) = 0
    BY <2>1 DEF Says
  <2>3. \A j \in Job : OnItsWay(j)' = OnItsWay(j)
    BY <2>1, <2>2, ToAgentCounts, CountsTyped
  <2> QED BY <2>1, <2>3, <1>0, PlacedStays, ToGatewayCounts
\* A job handed out: the gateway holds the device responsible, and RUN_JOB is on its way.
<1>10. ASSUME NEW i \in Job, Assign(i) PROVE Placed'
  <2>1. RunJob(i) \in MessagesToAgent /\ None \notin Job
    BY MessagesTyped, JobsAssumption
  <2>2. /\ UNCHANGED <<rx, job, link, toGateway>>
        /\ toAgent' = Append(toAgent, RunJob(i))
        /\ gwBusy = None /\ gwBusy' = i
    BY <1>10 DEF Assign, agentVars
  <2>3. SUFFICES ASSUME NEW j \in Job
                 PROVE  (OnItsWay(j) + Answered(j) + Awaited(j) = Owed(j))'
    BY DEF Placed
  <2>4. Says({"RUN_JOB"}, RunJob(i), j) = IF i = j THEN 1 ELSE 0
    BY DEF Says, RunJob
  <2>5. /\ OnItsWay(j)' = OnItsWay(j) + (IF i = j THEN 1 ELSE 0)
        /\ Answered(j)' = Answered(j) /\ Awaited(j)' = Awaited(j)
    BY <2>1, <2>2, <2>4, ToAgentCounts, ToGatewayCounts DEF Awaited
  <2>6. Owed(j) = 0 /\ Owed(j)' = IF i = j THEN 1 ELSE 0
    BY <2>1, <2>2 DEF Owed
  <2>7. OnItsWay(j) + Answered(j) + Awaited(j) = 0
    BY <1>0, <2>2, <2>6 DEF Placed
  <2> QED BY <2>5, <2>6, <2>7, CountsTyped DEF Awaited
\* A job taken: from the channel to the receive loop.
<1>11. CASE Start
  <2> DEFINE i == Head(toAgent).job
  <2>1. /\ UNCHANGED <<link, toGateway, gwBusy>>
        /\ toAgent # <<>> /\ Head(toAgent).type = "RUN_JOB" /\ toAgent' = Tail(toAgent)
        /\ rx = "recv" /\ rx' = "run" /\ job' = i
    BY <1>11 DEF Start, Receives, gwVars
  <2>2. SUFFICES ASSUME NEW j \in Job
                 PROVE  (OnItsWay(j) + Answered(j) + Awaited(j) = Owed(j))'
    BY DEF Placed
  <2>3. Says({"RUN_JOB"}, Head(toAgent), j) = IF i = j THEN 1 ELSE 0
    BY <2>1 DEF Says
  <2>4. /\ OnItsWay(j)' = OnItsWay(j) - (IF i = j THEN 1 ELSE 0)
        /\ Answered(j)' = Answered(j) /\ Owed(j)' = Owed(j)
    BY <2>1, <2>3, ToAgentCounts, ToGatewayCounts DEF Owed
  <2>5. Awaited(j) = 0 /\ Awaited(j)' = IF i = j THEN 1 ELSE 0
    BY <2>1 DEF Awaited
  <2>6. OnItsWay(j) + Answered(j) + Awaited(j) = Owed(j)
    BY <1>0, <2>1 DEF Placed
  <2> QED BY <2>4, <2>5, <2>6, CountsTyped DEF Owed
\* A job declined or finished: its answer is sent.
<1>12. ASSUME NEW t \in Answers, NEW i \in Job, SendAnswer(Answer(t, i))
       PROVE  /\ link = "up" /\ rx' = "recv"
              /\ \A j \in Job : Answered(j)' = Answered(j) + (IF i = j THEN 1 ELSE 0)
  <2>1. link = "up" /\ rx' = "recv" /\ toGateway' = Append(toGateway, Answer(t, i))
    BY <1>12 DEF SendAnswer
  <2>2. \A j : Says(Answers, Answer(t, i), j) = IF i = j THEN 1 ELSE 0
    BY DEF Says, Answer
  <2>3. Answer(t, i) \in MessagesToGateway
    BY MessagesTyped
  <2> QED BY <2>1, <2>2, <2>3, ToGatewayCounts
<1>13. CASE Decline
  <2> DEFINE i == Head(toAgent).job
  <2>1. toAgent # <<>> /\ Head(toAgent).type = "RUN_JOB" /\ rx = "recv" /\ gwBusy' = gwBusy
    BY <1>13 DEF Decline, Receives, gwVars
  <2>2. i \in Job
    BY <2>1, AgentMail, ChannelsTyped
  <2>3. PICK t \in Answers : SendAnswer(Answer(t, i))
    BY <1>13 DEF Decline, Answers
  <2>4. link = "up" /\ rx' = "recv" /\ toAgent' = Tail(toAgent)
    BY <1>12, <1>13, <2>2, <2>3 DEF Decline
  <2>5. SUFFICES ASSUME NEW j \in Job
                 PROVE  (OnItsWay(j) + Answered(j) + Awaited(j) = Owed(j))'
    BY DEF Placed
  <2>6. Says({"RUN_JOB"}, Head(toAgent), j) = IF i = j THEN 1 ELSE 0
    BY <2>1 DEF Says
  <2>7. /\ OnItsWay(j)' = OnItsWay(j) - (IF i = j THEN 1 ELSE 0)
        /\ Answered(j)' = Answered(j) + (IF i = j THEN 1 ELSE 0)
    BY <1>12, <2>1, <2>2, <2>3, <2>4, <2>6, ToAgentCounts
  <2>8. Awaited(j) = 0 /\ Awaited(j)' = 0 /\ Owed(j)' = Owed(j)
    BY <2>1, <2>4 DEF Awaited, Owed
  <2>9. OnItsWay(j) + Answered(j) + Awaited(j) = Owed(j)
    BY <1>0, <2>4 DEF Placed
  <2> QED BY <2>7, <2>8, <2>9, CountsTyped DEF Owed
<1>14. CASE Finish
  <2>1. rx = "run" /\ job \in Job /\ job' = None /\ gwBusy' = gwBusy /\ None \notin Job
    BY <1>14, JobsAssumption DEF Finish, gwVars, TypeOK
  <2>2. PICK t \in Answers : SendAnswer(Answer(t, job))
    BY <1>14 DEF Finish, Answers
  <2>3. link = "up" /\ rx' = "recv" /\ toAgent' = toAgent
    BY <1>12, <1>14, <2>1, <2>2 DEF Finish
  <2>4. SUFFICES ASSUME NEW j \in Job
                 PROVE  (OnItsWay(j) + Answered(j) + Awaited(j) = Owed(j))'
    BY DEF Placed
  <2>5. /\ OnItsWay(j)' = OnItsWay(j)
        /\ Answered(j)' = Answered(j) + (IF job = j THEN 1 ELSE 0)
    BY <1>12, <2>1, <2>2, <2>3, ToAgentCounts
  <2>6. Awaited(j) = (IF job = j THEN 1 ELSE 0) /\ Awaited(j)' = 0 /\ Owed(j)' = Owed(j)
    BY <2>1, <2>3 DEF Awaited, Owed
  <2>7. OnItsWay(j) + Answered(j) + Awaited(j) = Owed(j)
    BY <1>0, <2>3 DEF Placed
  <2> QED BY <2>5, <2>6, <2>7, CountsTyped DEF Owed
\* The gateway reads: an answer that is counted is of the job it holds the device to.
<1>15. CASE GatewayReads
  <2> DEFINE m == Head(toGateway)
  <2>1. /\ UNCHANGED <<rx, job, link, toAgent>>
        /\ toGateway # <<>> /\ toGateway' = Tail(toGateway)
    BY <1>15 DEF GatewayReads, agentVars
  <2>2. SUFFICES ASSUME NEW j \in Job
                 PROVE  (OnItsWay(j) + Answered(j) + Awaited(j) = Owed(j))'
    BY DEF Placed
  <2>3. /\ OnItsWay(j)' = OnItsWay(j) /\ Awaited(j)' = Awaited(j)
        /\ Answered(j)' = Answered(j) - Says(Answers, m, j)
    BY <2>1, ToAgentCounts, ToGatewayCounts DEF Awaited
  <2>4. OnItsWay(j) + Answered(j) + Awaited(j) = Owed(j)
    BY <1>0, <2>1 DEF Placed
  <2>5. Answered(j)' \in Nat
    <3>1. Tail(toGateway) \in Seq(MessagesToGateway)
      BY <2>1, ChannelsTyped
    <3> QED BY <2>1, <3>1, PlacesFinite DEF Answered
  <2>6. CASE m.type \in {"REGISTER", "AVAILABILITY"}
    <3>1. gwBusy' = gwBusy /\ Says(Answers, m, j) = 0
      BY <1>15, <2>6 DEF GatewayReads, Says, Answers
    <3> QED BY <2>3, <2>4, <3>1, CountsTyped DEF Owed, Awaited
  <2>7. CASE m.type \in Answers
    <3>1. gwBusy' = IF gwBusy = m.job THEN None ELSE gwBusy
      BY <1>15, <2>7 DEF GatewayReads, Answers
    <3>2. None \notin Job
      BY JobsAssumption
    <3>3. CASE m.job = j
      <4>1. Says(Answers, m, j) = 1
        BY <2>7, <3>3 DEF Says
      <4>2. gwBusy = j
        BY <2>3, <2>4, <2>5, <4>1, CountsTyped DEF Owed, Awaited
      <4>3. Owed(j) = 1 /\ Owed(j)' = 0
        BY <3>1, <3>2, <3>3, <4>2 DEF Owed
      <4> QED BY <2>3, <2>4, <4>1, <4>3, CountsTyped DEF Awaited
    <3>4. CASE m.job # j
      <4>1. Says(Answers, m, j) = 0
        BY <3>4 DEF Says
      <4>2. Owed(j)' = Owed(j)
        BY <3>1, <3>2, <3>4 DEF Owed
      <4> QED BY <2>3, <2>4, <4>1, <4>2, CountsTyped DEF Awaited
    <3> QED BY <3>3, <3>4
  <2>8. m.type \in Answers \cup {"REGISTER", "AVAILABILITY"}
    BY <2>1, GatewayMail, ChannelsTyped
  <2> QED BY <2>6, <2>7, <2>8
<1>16. ~LoseConnection /\ ~ServeEnds /\ ~BoxRaises
  BY DEF LoseConnection, ServeEnds, BoxRaises, LeaveServe
<1> QED BY <1>1, <1>2, <1>3, <1>5, <1>6, <1>7, <1>8, <1>9, <1>10, <1>11, <1>13, <1>14, <1>15,
           <1>16 DEF Next, Serve

\* A job the gateway holds a device responsible for is on its way to it, or runs there,
\* or is answered and not read, and in one of these places only; no job is answered
\* twice, whatever losses, faults and withdrawals occur (agent.py:366-430,
\* gateway.py:643-685).
THEOREM JobAnsweredOnce == Spec => []AnsweredOnce
<1>1. Init => Forgotten /\ AnsweredOnce
  BY DEF Init, Forgotten, AnsweredOnce
<1>2. Spec => []Forgotten
  BY <1>1, SpecTyped, ForgottenKept, PTL DEF Spec
<1> QED BY <1>1, <1>2, SpecTyped, PlacedKept, PTL DEF Spec

----------------------------------------------------------------------------
(* What the gateway is told *)

\* A message that goes out last decides, if it speaks of the device at all.
LEMMA ToldSent ==
  ASSUME TypeOK, NEW m \in MessagesToGateway, toGateway' = Append(toGateway, m),
         gwAvailable' = gwAvailable
  PROVE  /\ Told' /\ ~Offers(m) => Told
         /\ Told' => ~Withdraws(m)
<1> DEFINE n == Len(toGateway)
<1>1. n \in Nat /\ toGateway \in Seq(MessagesToGateway)
  BY DEF TypeOK
<1>2. /\ Len(toGateway') = n + 1
      /\ \A i \in 1 .. n : toGateway'[i] = toGateway[i]
      /\ toGateway'[n + 1] = m
  BY <1>1
<1>3. \A k \in 0 .. n : Stands(k)' => Stands(k) /\ ~Withdraws(m)
  <2> SUFFICES ASSUME NEW k \in 0 .. n, \A i \in (k + 1) .. (n + 1) : ~Withdraws(toGateway'[i])
               PROVE  (\A i \in (k + 1) .. n : ~Withdraws(toGateway[i])) /\ ~Withdraws(m)
    BY <1>2 DEF Stands, Withdraws
  <2>1. \A i \in (k + 1) .. n : i \in (k + 1) .. (n + 1) /\ i \in 1 .. n
    BY <1>1
  <2>2. n + 1 \in (k + 1) .. (n + 1)
    BY <1>1
  <2> HIDE DEF n
  <2> QED BY <1>2, <2>1, <2>2
<1>4. Offers(m) => ~Withdraws(m)
  BY GatewayMail DEF Offers, Withdraws
<1>5. ASSUME Told' PROVE ~Withdraws(m) /\ (Told \/ Offers(m))
  <2>1. CASE gwAvailable /\ Stands(0)'
    BY <1>1, <1>3, <2>1 DEF Told
  <2>2. ASSUME NEW k \in 1 .. (n + 1), Offers(toGateway'[k]), Stands(k)'
        PROVE  ~Withdraws(m) /\ (Told \/ Offers(m))
    <3>1. CASE k = n + 1
      BY <1>2, <1>4, <2>2, <3>1
    <3>2. CASE k \in 1 .. n
      <4>1. Offers(toGateway[k]) /\ k \in 0 .. n
        BY <1>1, <1>2, <2>2, <3>2
      <4> QED BY <1>3, <2>2, <3>2, <4>1 DEF Told
    <3> QED BY <1>1, <3>1, <3>2
  <2>3. \/ gwAvailable' /\ Stands(0)'
        \/ \E k \in 1 .. (n + 1) : Offers(toGateway'[k]) /\ Stands(k)'
    BY <1>2, <1>5 DEF Told, Offers
  <2> QED BY <2>1, <2>2, <2>3
<1> QED BY <1>5

\* Reading a message makes no difference to what the gateway believes in the end.
LEMMA ToldRead == TypeInv /\ GatewayReads /\ Told' => Told
<1> SUFFICES ASSUME TypeInv, GatewayReads, Told' PROVE Told
  OBVIOUS
<1> DEFINE n == Len(toGateway)  m == Head(toGateway)
<1>1. /\ toGateway # <<>> /\ toGateway' = Tail(toGateway)
      /\ toGateway \in Seq(MessagesToGateway) /\ n \in Nat
  BY DEF GatewayReads, TypeInv, TypeOK
<1>2. /\ n >= 1 /\ Len(toGateway') = n - 1 /\ toGateway[1] = m
      /\ \A i \in 1 .. (n - 1) : toGateway'[i] = toGateway[i + 1]
  BY <1>1
<1>3. \A k \in 0 .. (n - 1) : Stands(k)' => Stands(k + 1)
  <2> SUFFICES ASSUME NEW k \in 0 .. (n - 1), \A i \in (k + 1) .. (n - 1) : ~Withdraws(toGateway'[i]),
                      NEW i \in (k + 2) .. n
               PROVE  ~Withdraws(toGateway[i])
    BY <1>2 DEF Stands, Withdraws
  <2>1. i - 1 \in (k + 1) .. (n - 1) /\ i - 1 \in 1 .. (n - 1) /\ (i - 1) + 1 = i
    BY <1>1
  <2>2. toGateway'[i - 1] = toGateway[i]
    BY <1>2, <2>1
  <2> QED BY <2>1, <2>2
<1>4. ASSUME Stands(1), ~Withdraws(m) PROVE Stands(0)
  <2>1. \A i \in 1 .. n : i = 1 \/ i \in 2 .. n
    BY <1>1
  <2> QED BY <1>2, <1>4, <2>1 DEF Stands
<1>5. CASE gwAvailable' /\ Stands(0)'
  <2>1. Stands(1)
    BY <1>2, <1>3, <1>5
  <2>2. CASE Offers(m)
    BY <1>2, <2>1, <2>2 DEF Told
  <2>3. CASE ~Offers(m)
    <3>1. gwAvailable /\ ~Withdraws(m)
      BY <1>1, <1>5, <2>3, GatewayMail, ChannelsTyped
         DEF GatewayReads, Offers, Withdraws, Answers, TypeInv
    <3> QED BY <1>4, <2>1, <3>1 DEF Told
  <2> QED BY <2>2, <2>3
<1>6. CASE \E k \in 1 .. Len(toGateway') : Offers(toGateway'[k]) /\ Stands(k)'
  <2>1. PICK k \in 1 .. (n - 1) : Offers(toGateway'[k]) /\ Stands(k)'
    BY <1>2, <1>6
  <2>2. k \in 0 .. (n - 1) /\ k + 1 \in 1 .. n /\ toGateway'[k] = toGateway[k + 1]
    BY <1>1, <1>2
  <2> QED BY <1>3, <2>1, <2>2 DEF Told
<1> QED BY <1>5, <1>6 DEF Told, Offers

LEMMA OversoldStep == TypeInv /\ NeverOversold /\ [Next]_vars => NeverOversold'
<1> SUFFICES ASSUME TypeInv, NeverOversold, [Next]_vars, link' = "up", Told' PROVE available'
  BY DEF NeverOversold
<1> USE DEF TypeInv
<1>1. CASE Connect
  <2>1. toGateway' = <<Register(available)>> /\ available' = available /\ available \in BOOLEAN
    BY <1>1 DEF Connect, TypeOK
  <2>2. Len(toGateway') = 1 /\ toGateway'[1] = Register(available)
    BY <2>1
  <2>3. ~Withdraws(Register(available)) \/ Offers(Register(available))
    BY <2>2 DEF Told, Stands, Withdraws, Offers
  <2> QED BY <2>1, <2>3 DEF Withdraws, Offers, Register
\* What is reported is what the agent takes itself to be.
<1>2. ASSUME NEW a \in BOOLEAN, toGateway' = Append(toGateway, Report(a)), available' = a,
             gwAvailable' = gwAvailable
      PROVE  available'
  <2>1. Report(a) \in MessagesToGateway
    BY MessagesTyped
  <2>2. ~Withdraws(Report(a))
    BY <1>2, <2>1, ToldSent
  <2> QED BY <1>2, <2>2 DEF Withdraws, Report
<1>3. CASE MonitorTick
  <2>1. link = "up"
    BY <1>3 DEF MonitorTick
  <2> QED BY <1>2, <1>3, <2>1 DEF MonitorTick, gwVars
<1>4. CASE \E a \in Control : PanelControl(a)
  <2>1. link = "up"
    BY <1>4 DEF PanelControl
  <2> QED BY <1>2, <1>4, <2>1 DEF PanelControl, Push, gwVars
<1>5. CASE Controlled
  <2>1. link = "up"
    BY <1>5 DEF Controlled, LeaveServe
  <2> QED BY <1>2, <1>5, <2>1 DEF Controlled, Push, gwVars
\* An answer offers nothing.
<1>6. ASSUME NEW t \in Answers, NEW j \in Job, SendAnswer(Answer(t, j)),
             UNCHANGED <<available, gwAvailable>>
      PROVE  available'
  <2>1. link = "up" /\ toGateway' = Append(toGateway, Answer(t, j))
    BY <1>6 DEF SendAnswer
  <2>2. Answer(t, j) \in MessagesToGateway /\ ~Offers(Answer(t, j))
    BY MessagesTyped DEF Offers, Answer, Answers
  <2>3. Told
    BY <1>6, <2>1, <2>2, ToldSent
  <2> QED BY <1>6, <2>1, <2>3 DEF NeverOversold
<1>7. CASE Decline
  <2>1. Head(toAgent).job \in Job
    BY <1>7, AgentMail, ChannelsTyped DEF Decline, Receives
  <2> QED BY <1>6, <1>7, <2>1 DEF Decline, Answers, gwVars
<1>8. CASE Finish
  <2>1. job \in Job
    BY <1>8 DEF Finish, TypeOK
  <2> QED BY <1>6, <1>8, <2>1 DEF Finish, Answers, gwVars
<1>9. CASE GatewayReads
  <2>1. Told /\ UNCHANGED <<link, available>>
    BY <1>9, ToldRead DEF GatewayReads, agentVars
  <2> QED BY <2>1 DEF NeverOversold
<1>10. CASE UNCHANGED <<link, available, toGateway, gwAvailable>>
  BY <1>10 DEF NeverOversold, Told, Stands
<1>11. CASE UNCHANGED vars \/ OwnerActs \/ MonitorCheck \/ (\E a \in Control : RelayControl(a))
              \/ Start \/ Cancel \/ BoxEnds \/ KillEnds \/ RelayCancel \/ \E j \in Job : Assign(j)
  BY <1>10, <1>11 DEF vars, OwnerActs, MonitorCheck, RelayControl, Start, Cancel, BoxEnds, KillEnds,
                      RelayCancel, Assign, agentVars, channels, gwVars
<1>12. ~LoseConnection /\ ~ServeEnds /\ ~BoxRaises
  BY DEF LoseConnection, ServeEnds, BoxRaises, LeaveServe
<1> QED BY <1>1, <1>3, <1>4, <1>5, <1>7, <1>8, <1>9, <1>11, <1>12 DEF Next, Serve

\* The gateway is never left believing that a device lends itself when it does not,
\* however monitor, panel, relayed controls and reconnections interleave
\* (agent.py:199-230).
THEOREM DeviceNotOversold == Spec => []NeverOversold
<1>1. Init => NeverOversold
  BY DEF Init, NeverOversold
<1> QED BY <1>1, SpecTyped, OversoldStep, PTL DEF Spec

----------------------------------------------------------------------------
(* The device that the gateway takes the agent for *)

\* Only four actions change what the gateway believes of the device.
LEMMA OnlyTheseTell ==
  [Next]_vars => \/ UNCHANGED <<listed, gwAvailable, gwBusy, handed>>
                 \/ LoseConnection \/ BoxRaises \/ GatewayReads
                 \/ \E j \in Job : Assign(j)
<1> SUFFICES ASSUME [Next]_vars
             PROVE  \/ UNCHANGED gwVars \/ UNCHANGED <<listed, gwAvailable, gwBusy, handed>>
                    \/ LoseConnection \/ BoxRaises \/ GatewayReads
                    \/ \E j \in Job : Assign(j)
  BY DEF gwVars
<1>1. CASE UNCHANGED vars \/ Connect \/ OwnerActs \/ MonitorTick \/ MonitorCheck
  BY <1>1 DEF vars, Connect, OwnerActs, MonitorTick, MonitorCheck
<1>2. CASE \E a \in Control : PanelControl(a) \/ RelayControl(a)
  BY <1>2 DEF PanelControl, RelayControl
<1>3. CASE Serve
  BY <1>3 DEF Serve, ServeEnds, Decline, Start, Cancel, Controlled, Finish
<1>4. CASE BoxEnds \/ KillEnds \/ RelayCancel
  BY <1>4 DEF BoxEnds, KillEnds, RelayCancel
<1> QED BY <1>1, <1>2, <1>3, <1>4 DEF Next

\* The gateway believes something of a device only while it has a Node for it.
Believed == gwAvailable \/ gwBusy # None => listed

LEMMA BelievedKept == Believed /\ [Next]_vars => Believed'
<1> SUFFICES ASSUME Believed, [Next]_vars PROVE Believed'
  OBVIOUS
<1>1. CASE UNCHANGED <<listed, gwAvailable, gwBusy, handed>>
  BY <1>1 DEF Believed
<1>2. CASE LoseConnection \/ BoxRaises
  BY <1>2 DEF LoseConnection, BoxRaises, GatewayForgets, Believed
<1>3. CASE GatewayReads
  <2>1. listed' \/ (listed' = listed /\ (gwAvailable' => gwAvailable))
    BY <1>3 DEF GatewayReads
  <2>2. gwBusy' \in {gwBusy, None}
    BY <1>3 DEF GatewayReads
  <2> QED BY <2>1, <2>2 DEF Believed
<1>4. CASE \E j \in Job : Assign(j)
  BY <1>4 DEF Assign, Believed
<1> QED BY <1>1, <1>2, <1>3, <1>4, OnlyTheseTell

\* What is in the channels and in the agent's hands is what the gateway holds the
\* device responsible for, and nothing else.
OutIsBusy == listed => Out = {gwBusy} \ {None}

LEMMA CountsMeanBusy == TypeInv /\ Forgotten /\ AnsweredOnce => OutIsBusy
<1> SUFFICES ASSUME TypeInv, Forgotten, AnsweredOnce, listed PROVE Out = {gwBusy} \ {None}
  BY DEF OutIsBusy
<1>1. Placed
  BY PlacedMeans DEF Forgotten
<1>2. ASSUME NEW j \in Job PROVE j \in Out <=> gwBusy = j
  <2>1. OnItsWay(j) + Answered(j) + Awaited(j) = Owed(j)
    BY <1>1 DEF Placed
  <2>2. OnItsWay(j) \in Nat /\ Answered(j) \in Nat
    BY CountsTyped DEF TypeInv
  <2>3. j \in Out <=> OnItsWay(j) > 0 \/ (rx = "run" /\ job = j) \/ Answered(j) > 0
    BY DEF Out, OnItsWay, Answered
  <2> QED BY <2>1, <2>2, <2>3 DEF Awaited, Owed
<1>3. Out \subseteq Job /\ gwBusy \in Job \cup {None} /\ None \notin Job
  BY JobsAssumption DEF Out, TypeInv, TypeOK
<1> QED BY <1>2, <1>3

\* An answer that the gateway reads is one for the job it holds the device to.
LEMMA AnswerIsOfBusy ==
  ASSUME TypeInv, Forgotten, AnsweredOnce, toGateway # <<>>, Head(toGateway).type \in Answers
  PROVE  gwBusy = Head(toGateway).job /\ Head(toGateway).job \in Job
<1> DEFINE m == Head(toGateway)
<1>1. m.job \in Job /\ Tail(toGateway) \in Seq(MessagesToGateway)
  BY GatewayMail, ChannelsTyped DEF TypeInv
<1>2. Placed
  BY PlacedMeans DEF Forgotten
<1>3. Answered(m.job) = Count(Answers, Tail(toGateway), m.job) + 1
  <2>1. Says(Answers, m, m.job) = 1
    BY DEF Says
  <2> QED BY <2>1, CountReceived DEF Answered, TypeInv, TypeOK
<1>4. Count(Answers, Tail(toGateway), m.job) \in Nat
  BY <1>1, PlacesFinite
<1>5. OnItsWay(m.job) + Answered(m.job) + Awaited(m.job) = Owed(m.job) /\ OnItsWay(m.job) \in Nat
  BY <1>1, <1>2, CountsTyped DEF Placed, TypeInv
<1> QED BY <1>1, <1>3, <1>4, <1>5 DEF Awaited, Owed

\* The mapped variables, and the actions of DeviceLink on them.
Up == IF listed THEN {Self} ELSE {}
Lent == IF gwAvailable THEN {Self} ELSE {}
Has == [p \in {Self} |-> IF listed THEN {gwBusy} \ {None} ELSE {}]
Given == [p \in {Self} |-> handed]

LEMMA LinkSays ==
  ASSUME OutIsBusy, OutIsBusy'
  PROVE  /\ Up' = Up /\ Lent' = Lent /\ Has' = Has /\ Given' = Given => UNCHANGED Link!vars
         /\ Self \notin Up /\ Up' = Up \cup {Self} /\ Lent' \in {Lent, Lent \cup {Self}}
              /\ Has' = Has /\ Given' = Given
              => Link!Register(Self)
         /\ Self \in Up /\ Lent' \in {Lent \ {Self}, Lent \cup {Self}}
              /\ Up' = Up /\ Has' = Has /\ Given' = Given
              => Link!Report(Self)
         /\ Self \in Up /\ Has[Self] # {} /\ Has' = [Has EXCEPT ![Self] = {}]
              /\ Lent' \in {Lent, Lent \ {Self}} /\ Up' = Up /\ Given' = Given
              => Link!Answer(Self)
         /\ Self \in Up /\ Up' = Up \ {Self} /\ Lent' = Lent \ {Self}
              /\ Has' = [Has EXCEPT ![Self] = {}] /\ Given' = Given
              => Link!Lose(Self)
         /\ \A j \in Job :
              Self \in Lent /\ Has[Self] = {} /\ j \notin Given[Self]
                /\ Has' = [Has EXCEPT ![Self] = {j}]
                /\ Given' = [Given EXCEPT ![Self] = @ \cup {j}]
                /\ Up' = Up /\ Lent' = Lent
                => Link!Assign(Self, j)
<1>1. Has = [p \in {Self} |-> IF listed THEN Out ELSE {}]
  BY DEF OutIsBusy, Has
<1>2. Has' = [p \in {Self} |-> IF listed THEN Out ELSE {}]'
  BY DEF OutIsBusy, Has
<1> USE <1>1, <1>2 DEF Up, Lent, Given
<1>3. Up' = Up /\ Lent' = Lent /\ Has' = Has /\ Given' = Given => UNCHANGED Link!vars
  BY DEF Link!vars
<1>4. /\ Self \notin Up /\ Up' = Up \cup {Self} /\ Lent' \in {Lent, Lent \cup {Self}}
      /\ Has' = Has /\ Given' = Given
      => Link!Register(Self)
  BY DEF Link!Register
<1>5. /\ Self \in Up /\ Lent' \in {Lent \ {Self}, Lent \cup {Self}}
      /\ Up' = Up /\ Has' = Has /\ Given' = Given
      => Link!Report(Self)
  BY DEF Link!Report
<1>6. /\ Self \in Up /\ Has[Self] # {} /\ Has' = [Has EXCEPT ![Self] = {}]
      /\ Lent' \in {Lent, Lent \ {Self}} /\ Up' = Up /\ Given' = Given
      => Link!Answer(Self)
  BY DEF Link!Answer
<1>7. /\ Self \in Up /\ Up' = Up \ {Self} /\ Lent' = Lent \ {Self}
      /\ Has' = [Has EXCEPT ![Self] = {}] /\ Given' = Given
      => Link!Lose(Self)
  BY DEF Link!Lose
<1>8. ASSUME NEW j \in Job,
             Self \in Lent, Has[Self] = {}, j \notin Given[Self],
             Has' = [Has EXCEPT ![Self] = {j}],
             Given' = [Given EXCEPT ![Self] = @ \cup {j}],
             Up' = Up, Lent' = Lent
      PROVE  Link!Assign(Self, j)
  BY <1>8 DEF Link!Assign
<1> QED BY <1>3, <1>4, <1>5, <1>6, <1>7, <1>8

LEMMA StepIsLink ==
  ASSUME TypeInv, Forgotten, AnsweredOnce, Believed, OutIsBusy, OutIsBusy', [Next]_vars
  PROVE  [Link!Next]_Link!vars
<1> SUFFICES \/ UNCHANGED Link!vars
             \/ Link!Register(Self) \/ Link!Report(Self) \/ Link!Answer(Self) \/ Link!Lose(Self)
             \/ \E j \in Job : Link!Assign(Self, j)
  BY DEF Link!Next
<1> USE DEF Up, Lent, Has, Given
<1>1. CASE UNCHANGED <<listed, gwAvailable, gwBusy, handed>>
  BY <1>1, LinkSays
<1>2. CASE LoseConnection \/ BoxRaises
  <2>1. ~listed' /\ ~gwAvailable' /\ gwBusy' = None /\ handed' = handed
    BY <1>2 DEF LoseConnection, BoxRaises, GatewayForgets
  <2>2. CASE listed
    BY <2>1, <2>2, LinkSays
  <2>3. CASE ~listed
    BY <2>1, <2>3, LinkSays DEF Believed
  <2> QED BY <2>2, <2>3
<1>3. CASE GatewayReads
  <2> DEFINE m == Head(toGateway)
  <2>1. toGateway # <<>> /\ handed' = handed
    BY <1>3 DEF GatewayReads
  <2>2. CASE m.type \in {"REGISTER", "AVAILABILITY"}
    <3>1. listed' /\ gwAvailable' = m.available /\ gwBusy' = gwBusy
      BY <1>3, <2>2 DEF GatewayReads, Answers
    <3>2. m.available \in BOOLEAN
      BY <2>1, <2>2, GatewayMail, ChannelsTyped DEF TypeInv
    <3>3. CASE listed
      BY <2>1, <3>1, <3>2, <3>3, LinkSays
    <3>4. CASE ~listed
      BY <2>1, <3>1, <3>2, <3>4, LinkSays DEF Believed
    <3> QED BY <3>3, <3>4
  <2>3. CASE m.type \in Answers
    <3>1. /\ gwAvailable' = (gwAvailable /\ m.type # "JOB_EVICTED") /\ listed' = listed
          /\ gwBusy' = IF gwBusy = m.job THEN None ELSE gwBusy
      BY <1>3, <2>3 DEF GatewayReads, Answers
    <3>2. gwBusy = m.job /\ m.job \in Job /\ None \notin Job
      BY <2>1, <2>3, AnswerIsOfBusy, JobsAssumption
    <3>3. listed /\ gwBusy' = None
      BY <3>1, <3>2 DEF Believed
    <3>4. Has[Self] # {} /\ Has' = [Has EXCEPT ![Self] = {}]
      BY <3>1, <3>2, <3>3
    <3>5. Lent' \in {Lent, Lent \ {Self}} /\ Up' = Up /\ Given' = Given /\ Self \in Up
      BY <2>1, <3>1, <3>3
    <3> QED BY <3>4, <3>5, LinkSays
  <2>4. m.type \in Answers \cup {"REGISTER", "AVAILABILITY"}
    BY <2>1, GatewayMail, ChannelsTyped DEF TypeInv
  <2> QED BY <2>2, <2>3, <2>4
<1>4. ASSUME NEW j \in Job, Assign(j) PROVE Link!Assign(Self, j)
  <2>1. /\ listed /\ gwAvailable /\ gwBusy = None /\ j \notin handed
        /\ gwBusy' = j /\ handed' = handed \cup {j} /\ listed' = listed
        /\ gwAvailable' = gwAvailable /\ None \notin Job
    BY <1>4, JobsAssumption DEF Assign
  <2> QED BY <2>1, LinkSays
<1> QED BY <1>1, <1>2, <1>3, <1>4, OnlyTheseTell

LEMMA InitIsLink == Init /\ Forgotten => Link!Init
<1> SUFFICES ASSUME Init PROVE Link!Init
  OBVIOUS
<1> QED BY DEF Init, Link!Init

\* The agent is the device that the gateway takes it for: it answers for the job it was
\* given, once, and for no other, and never has two (agent.py:366-430,
\* gateway.py:629-685).
THEOREM AgentImplementsLink == Spec => ImplementsLink
<1>1. Init => Forgotten /\ AnsweredOnce /\ Believed
  BY DEF Init, Forgotten, AnsweredOnce, Believed
<1>2. Spec => []Forgotten
  BY <1>1, SpecTyped, ForgottenKept, PTL DEF Spec
<1>3. Spec => []Believed
  BY <1>1, BelievedKept, PTL DEF Spec
<1>4. Spec => []OutIsBusy
  BY <1>2, SpecTyped, JobAnsweredOnce, CountsMeanBusy, PTL
<1>5. TypeInv /\ Forgotten /\ AnsweredOnce /\ Believed /\ OutIsBusy /\ OutIsBusy' /\ [Next]_vars
        => [Link!Next]_Link!vars
  BY StepIsLink
<1> QED BY <1>1, <1>2, <1>3, <1>4, <1>5, SpecTyped, JobAnsweredOnce, InitIsLink, PTL
        DEF Spec, ImplementsLink, Link!Spec

=============================================================================
