---------------------------- MODULE ServersProofs ----------------------------
(***************************************************************************)
(* Theorems about the servers of the portal, for any number of agents, rows *)
(* and organizations and whatever states a node may have.                   *)
(***************************************************************************)
EXTENDS Servers, TLAPS

----------------------------------------------------------------------------
(* Type correctness *)

Sessions ==
  [pc : {"off", "claim", "bind", "ask", "describe", "listed"},
   token : Row \cup {None}, state : State \cup {None}, orgs : SUBSET Org]

Reports == [agent : Followed, state : State \cup {"offline"}, by : {"poll", "close", "late"}]

Reads == [agent : Followed, orgs : SUBSET Org]

Polls == [visit : [Followed -> State \cup {"no", "node"}], got : SUBSET Reads, wait : Followed \cup {None}]

\* Organizations are read for Nodes that are still to be visited.
Fetched == \A g \in poll.got : poll.visit[g.agent] # "no"

\* A claim is made with a token, only followed agents get further, and the poller holds
\* Nodes that are listed, or as they were.
Shape ==
  /\ \A a \in Agent :
       /\ node[a].pc \in {"claim", "bind"} => node[a].token \in Row
       /\ node[a].pc \in {"describe", "listed"} => a \in Followed
       /\ node[a].pc = "listed" => node[a].state \in State
  /\ \A a \in Followed : poll.visit[a] = "node" => node[a].pc = "listed"
  /\ Fetched

TypeInv == TypeOK /\ Shape

\* Initially all is well typed.
LEMMA InitTyped == Init => TypeInv
<1> SUFFICES ASSUME Init PROVE TypeInv
  OBVIOUS
<1>1. Off \in Sessions
  BY DEF Off, Session, Sessions
<1>2. Resting \in Polls
  BY DEF Resting, Polls
<1>3. TypeOK
  BY <1>1, <1>2 DEF Init, TypeOK, Sessions, Polls, Reads
<1>4. Shape
  BY DEF Init, Shape, Fetched, Off, Session, Resting
<1> QED BY <1>3, <1>4 DEF TypeInv

\* The organizations of an agent are organizations.
LEMMA OrgsTyped ==
  ASSUME TypeOK, NEW a \in Agent
  PROVE  Orgs(a) \subseteq Org /\ RowsOf(a) \subseteq Row
<1>1. RowsOf(a) \subseteq Row
  BY DEF RowsOf
<1>2. CASE api
  BY <1>1, <1>2, ServersAssumption DEF Orgs
<1>3. CASE ~ api
  <2>1. \A r \in RowsOf(a) : {Home[r]} \cup shares[r] \subseteq Org
    BY <1>1, ServersAssumption DEF TypeOK
  <2> QED BY <1>1, <1>3, <2>1 DEF Orgs
<1> QED BY <1>1, <1>2, <1>3

\* A row is bound to an agent or left alone.
LEMMA BoundTyped ==
  ASSUME TypeOK, NEW r \in Row, NEW a \in Agent
  PROVE  Bound(r, a) \in [Row -> Agent \cup {"unmade", "open", "deleted"}]
BY DEF TypeOK, Bound

\* A step of one session that is not taken off keeps the shape if that session has it.
LEMMA ShapeStep ==
  ASSUME TypeInv, NEW a \in Agent, node' \in [Agent -> Sessions],
         \A b \in Agent \ {a} : node'[b] = node[b],
         \A b \in Followed : poll'.visit[b] = "node" => poll.visit[b] = "node",
         node'[a].pc \in {"claim", "bind"} => node'[a].token \in Row,
         node'[a].pc \in {"describe", "listed"} => a \in Followed,
         node'[a].pc = "listed" => node'[a].state \in State,
         node[a].pc = "listed" /\ poll'.visit[a] = "node" => node'[a].pc = "listed",
         poll' = poll \/ Fetched'
  PROVE  Shape'
<1>1. \A b \in Agent :
        /\ node'[b].pc \in {"claim", "bind"} => node'[b].token \in Row
        /\ node'[b].pc \in {"describe", "listed"} => b \in Followed
        /\ node'[b].pc = "listed" => node'[b].state \in State
        /\ node[b].pc = "listed" /\ poll'.visit[b] = "node" => node'[b].pc = "listed"
  BY DEF TypeInv, Shape
<1>2. \A b \in Followed : poll'.visit[b] = "node" => node'[b].pc = "listed"
  BY <1>1, ServersAssumption DEF TypeInv, Shape
<1>3. Fetched'
  BY DEF TypeInv, Shape, Fetched
<1> QED BY <1>1, <1>2, <1>3 DEF Shape

\* The steps of the owner keep the types.
LEMMA OwnerTyped ==
  ASSUME TypeInv, NEW r \in Row, Make(r) \/ Delete(r) \/ Share(r)
  PROVE  TypeInv'
<1>1. CASE Make(r)
  BY <1>1 DEF TypeInv, TypeOK, Shape, Fetched, Make
<1>2. CASE Delete(r)
  BY <1>2 DEF TypeInv, TypeOK, Shape, Fetched, Delete
<1>3. CASE Share(r)
  <2>1. shares' \in [Row -> SUBSET Org]
    BY <1>3 DEF TypeInv, TypeOK, Share
  <2> QED BY <1>3, <2>1 DEF TypeInv, TypeOK, Shape, Fetched, Share
<1> QED BY <1>1, <1>2, <1>3

\* So do the steps of a claim.
LEMMA ClaimTyped ==
  ASSUME TypeInv, NEW a \in Agent,
         Connect(a) \/ ClaimRead(a) \/ ClaimWrite(a) \/ ClaimCall(a) \/ ClaimFails(a)
  PROVE  TypeInv'
<1>1. CASE Connect(a)
  <2>1. PICK token \in Row \cup {None} :
          node' = [node EXCEPT ![a] = Session(IF token = None THEN "ask" ELSE "claim", token, None, {})]
    BY <1>1 DEF Connect
  <2>2. node' \in [Agent -> Sessions] /\ Shape'
    <3>1. node' = [node EXCEPT ![a] = [pc |-> IF token = None THEN "ask" ELSE "claim",
                                       token |-> token, state |-> None, orgs |-> {}]]
      BY <2>1 DEF Session
    <3>2. node' \in [Agent -> Sessions] /\ \A b \in Agent \ {a} : node'[b] = node[b]
      BY <3>1 DEF TypeInv, TypeOK, Sessions
    <3>3. /\ node'[a].pc \in {"claim", "bind"} => node'[a].token \in Row
          /\ node'[a].pc \in {"describe", "listed"} => a \in Followed
          /\ node'[a].pc = "listed" => node'[a].state \in State
          /\ node[a].pc = "listed" => node'[a].pc = "listed"
      BY <1>1, <2>1, ServersAssumption, <3>1 DEF Connect, Off, Session, TypeInv, TypeOK, Shape, Sessions
    <3>4. poll' = poll
      BY <1>1 DEF Connect, Off
    <3> QED BY <3>2, <3>3, <3>4, ShapeStep
  <2> QED BY <1>1, <2>2 DEF TypeInv, TypeOK, Connect, portal, Sessions
<1>2. CASE ClaimRead(a)
  <2>1. node' \in [Agent -> Sessions] /\ Shape'
    <3>1. node' \in [Agent -> Sessions] /\ \A b \in Agent \ {a} : node'[b] = node[b]
      BY <1>2 DEF ClaimRead, Goes, TypeInv, TypeOK, Sessions
    <3>2. /\ node'[a].pc \in {"claim", "bind"} => node'[a].token \in Row
          /\ node'[a].pc \in {"describe", "listed"} => a \in Followed
          /\ node'[a].pc = "listed" => node'[a].state \in State
          /\ node[a].pc = "listed" => node'[a].pc = "listed"
          /\ poll' = poll
      BY <1>2 DEF ClaimRead, Goes, TypeInv, TypeOK, Shape, Sessions
    <3> QED BY <3>1, <3>2, ShapeStep
  <2>2. contested' \subseteq Row
    BY <1>2 DEF ClaimRead, TypeInv, TypeOK, Shape
  <2> QED BY <1>2, <2>1, <2>2 DEF TypeInv, TypeOK, ClaimRead, Sessions
<1>3. CASE ClaimWrite(a) \/ ClaimCall(a)
  <2>1. node' \in [Agent -> Sessions] /\ Shape'
    <3>1. node' \in [Agent -> Sessions] /\ \A b \in Agent \ {a} : node'[b] = node[b]
      BY <1>3 DEF ClaimWrite, ClaimCall, Goes, TypeInv, TypeOK, Sessions
    <3>2. /\ node'[a].pc \in {"claim", "bind"} => node'[a].token \in Row
          /\ node'[a].pc \in {"describe", "listed"} => a \in Followed
          /\ node'[a].pc = "listed" => node'[a].state \in State
          /\ node[a].pc = "listed" => node'[a].pc = "listed"
          /\ poll' = poll
      BY <1>3 DEF ClaimWrite, ClaimCall, Goes, TypeInv, TypeOK, Shape, Sessions
    <3> QED BY <3>1, <3>2, ShapeStep
  <2>2. node[a].token \in Row
    BY <1>3 DEF ClaimWrite, ClaimCall, TypeInv, Shape
  <2>3. row' \in [Row -> Agent \cup {"unmade", "open", "deleted"}]
    BY <1>3, <2>2, BoundTyped DEF ClaimWrite, ClaimCall, TypeInv, TypeOK
  <2>4. hit' \subseteq Followed
    BY <1>3 DEF ClaimWrite, ClaimCall, TypeInv, TypeOK
  <2> QED BY <1>3, <2>1, <2>3, <2>4 DEF TypeInv, TypeOK, ClaimWrite, ClaimCall, Sessions
<1>4. CASE ClaimFails(a)
  <2>1. node' \in [Agent -> Sessions] /\ Shape'
    <3>1. node' \in [Agent -> Sessions] /\ \A b \in Agent \ {a} : node'[b] = node[b]
      BY <1>4 DEF ClaimFails, Goes, TypeInv, TypeOK, Sessions
    <3>2. /\ node'[a].pc \in {"claim", "bind"} => node'[a].token \in Row
          /\ node'[a].pc \in {"describe", "listed"} => a \in Followed
          /\ node'[a].pc = "listed" => node'[a].state \in State
          /\ node[a].pc = "listed" => node'[a].pc = "listed"
          /\ poll' = poll
      BY <1>4 DEF ClaimFails, Goes, TypeInv, TypeOK, Shape, Sessions
    <3> QED BY <3>1, <3>2, ShapeStep
  <2> QED BY <1>4, <2>1 DEF TypeInv, TypeOK, ClaimFails, portal, Sessions
<1> QED BY <1>1, <1>2, <1>3, <1>4

\* So do the other steps of a session.
LEMMA SessionTyped ==
  ASSUME TypeInv, NEW a \in Agent,
         \/ \E orgs \in SUBSET Org : Ask(a, orgs)
         \/ List(a) \/ Leave(a) \/ Change(a) \/ Close(a)
  PROVE  TypeInv'
<1>1. ASSUME NEW orgs \in SUBSET Org, Ask(a, orgs) PROVE TypeInv'
  <2>1. node' \in [Agent -> Sessions] /\ Shape'
    <3>1. node' = [node EXCEPT ![a] = [pc |-> "describe", token |-> None, state |-> None, orgs |-> orgs]]
      BY <1>1 DEF Ask, Session
    <3>2. node' \in [Agent -> Sessions] /\ \A b \in Agent \ {a} : node'[b] = node[b]
      BY <3>1 DEF TypeInv, TypeOK, Sessions
    <3>3. /\ node'[a].pc \in {"claim", "bind"} => node'[a].token \in Row
          /\ node'[a].pc \in {"describe", "listed"} => a \in Followed
          /\ node'[a].pc = "listed" => node'[a].state \in State
          /\ node[a].pc = "listed" => node'[a].pc = "listed"
      BY <1>1, <3>1 DEF Ask, TypeInv, TypeOK, Shape, Sessions
    <3>4. poll' = poll
      BY <1>1 DEF Ask
    <3> QED BY <3>2, <3>3, <3>4, ShapeStep
  <2> QED BY <1>1, <2>1 DEF TypeInv, TypeOK, Ask, portal, Sessions
<1>2. CASE List(a)
  <2>1. node' \in [Agent -> Sessions] /\ Shape'
    <3>1. \E s \in State :
            node' = [node EXCEPT ![a] = [pc |-> "listed", token |-> None, state |-> s, orgs |-> node[a].orgs]]
      BY <1>2 DEF List, Session
    <3>2. node' \in [Agent -> Sessions] /\ \A b \in Agent \ {a} : node'[b] = node[b]
      BY <3>1 DEF TypeInv, TypeOK, Sessions
    <3>3. /\ node'[a].pc \in {"claim", "bind"} => node'[a].token \in Row
          /\ node'[a].pc \in {"describe", "listed"} => a \in Followed
          /\ node'[a].pc = "listed" => node'[a].state \in State
          /\ node[a].pc = "listed" => node'[a].pc = "listed"
      BY <1>2, <3>1 DEF List, TypeInv, TypeOK, Shape, Sessions
    <3>4. poll' = poll
      BY <1>2 DEF List
    <3> QED BY <3>2, <3>3, <3>4, ShapeStep
  <2> QED BY <1>2, <2>1 DEF TypeInv, TypeOK, List, portal, Sessions
<1>3. CASE Leave(a)
  <2>1. node' \in [Agent -> Sessions] /\ Shape'
    <3>1. node' \in [Agent -> Sessions] /\ \A b \in Agent \ {a} : node'[b] = node[b]
      BY <1>3 DEF Leave, Off, Session, TypeInv, TypeOK, Sessions
    <3>2. /\ node'[a].pc \in {"claim", "bind"} => node'[a].token \in Row
          /\ node'[a].pc \in {"describe", "listed"} => a \in Followed
          /\ node'[a].pc = "listed" => node'[a].state \in State
          /\ node[a].pc = "listed" => node'[a].pc = "listed"
          /\ poll' = poll
      BY <1>3 DEF Leave, Off, Session, TypeInv, TypeOK, Shape, Sessions
    <3> QED BY <3>1, <3>2, ShapeStep
  <2> QED BY <1>3, <2>1 DEF TypeInv, TypeOK, Leave, portal, Sessions
<1>4. CASE Change(a)
  <2>1. node' \in [Agent -> Sessions] /\ Shape'
    <3>1. node' \in [Agent -> Sessions] /\ \A b \in Agent \ {a} : node'[b] = node[b]
      BY <1>4 DEF Change, TypeInv, TypeOK, Sessions
    <3>2. /\ node'[a].pc \in {"claim", "bind"} => node'[a].token \in Row
          /\ node'[a].pc \in {"describe", "listed"} => a \in Followed
          /\ node'[a].pc = "listed" => node'[a].state \in State
          /\ node[a].pc = "listed" => node'[a].pc = "listed"
          /\ poll' = poll
      BY <1>4 DEF Change, TypeInv, TypeOK, Shape, Sessions
    <3> QED BY <3>1, <3>2, ShapeStep
  <2> QED BY <1>4, <2>1 DEF TypeInv, TypeOK, Change, portal, Sessions
<1>5. CASE Close(a)
  <2>1. a \in Followed /\ node[a].state \in State
    BY <1>5 DEF Close, TypeInv, Shape
  <2>2. node' \in [Agent -> Sessions] /\ Shape'
    <3>1. /\ node' \in [Agent -> Sessions] /\ node'[a] = Off
          /\ \A b \in Agent \ {a} : node'[b] = node[b]
      BY <1>5 DEF Close, Off, Session, TypeInv, TypeOK, Sessions
    <3>2. /\ \A b \in Followed : poll'.visit[b] = "node" => poll.visit[b] = "node"
          /\ poll'.visit[a] # "node"
      BY <1>5, <2>1, ServersAssumption DEF Close, TypeInv, TypeOK
    <3>3. Fetched'
      <4>1. /\ poll'.got = poll.got
            /\ \A b \in Followed : poll.visit[b] # "no" => poll'.visit[b] # "no"
        BY <1>5, <2>1, ServersAssumption DEF Close, TypeInv, TypeOK
      <4>2. \A g \in poll.got : g.agent \in Followed
        BY DEF TypeInv, TypeOK
      <4> QED BY <4>1, <4>2 DEF TypeInv, Shape, Fetched
    <3> QED BY <3>1, <3>2, <3>3, ShapeStep DEF Off, Session
  <2>3. cache' \in [Followed -> State \cup {None}]
    BY <1>5 DEF Close, Forgotten, TypeInv, TypeOK
  <2>4. sent' \subseteq Reports /\ hit' \subseteq Followed
    BY <1>5, <2>1 DEF Close, Send, Reports, TypeInv, TypeOK
  <2>5. poll' \in Polls
    BY <1>5, <2>1 DEF Close, Polls, Reads, TypeInv, TypeOK
  <2> QED BY <1>5, <2>2, <2>3, <2>4, <2>5
         DEF TypeInv, TypeOK, Close, portal, Sessions, Reports, Polls, Reads
<1> QED BY <1>1, <1>2, <1>3, <1>4, <1>5

\* So do the fates of a report.
LEMMA ReportTyped ==
  ASSUME TypeInv, NEW m \in sent, Apply(m) \/ Lose(m) \/ TimeOut(m)
  PROVE  TypeInv'
<1>1. m \in Reports
  BY DEF TypeInv, TypeOK, Reports
<1>2. poll' \in Polls /\ Shape'
  <2>1. poll' = poll \/ poll' = [poll EXCEPT !.wait = None]
    BY DEF Apply, Lose, TimeOut, Return
  <2>2. poll' \in Polls /\ poll'.visit = poll.visit /\ poll'.got = poll.got
    BY <2>1 DEF TypeInv, TypeOK, Polls, Reads
  <2>3. node' = node
    BY DEF Apply, Lose, TimeOut
  <2> QED BY <2>2, <2>3 DEF TypeInv, Shape, Fetched
<1>3. CASE Apply(m)
  <2>1. shown' \in [Row -> State \cup {"offline", None}]
    BY <1>1, <1>3 DEF Apply, TypeInv, TypeOK, Reports
  <2> QED BY <1>2, <1>3, <2>1 DEF Apply, TypeInv, TypeOK, Polls, Reads
<1>4. CASE Lose(m)
  BY <1>1, <1>2, <1>4 DEF Lose, TypeInv, TypeOK, portal, Polls, Reads, Reports
<1>5. CASE TimeOut(m)
  <2>1. [m EXCEPT !.by = "late"] \in Reports
    BY <1>1 DEF Reports
  <2>2. sent' \subseteq Reports /\ hit' \subseteq Followed
    BY <1>1, <1>5, <2>1 DEF TimeOut, TypeInv, TypeOK, Reports
  <2> QED BY <1>2, <1>5, <2>2 DEF TimeOut, TypeInv, TypeOK, portal, Polls, Reads, Reports
<1> QED BY <1>3, <1>4, <1>5

\* So do the poller and a restart.
LEMMA PollTyped ==
  ASSUME TypeInv,
         \/ \E answered \in BOOLEAN : Tick(answered)
         \/ \E a \in Followed, orgs \in SUBSET Org : Fetch(a, orgs)
         \/ \E g \in poll.got : Visit(g)
         \/ Restart
  PROVE  TypeInv'
<1>1. ASSUME NEW answered \in BOOLEAN, Tick(answered) PROVE TypeInv'
  <2>1. poll' \in Polls
    BY <1>1 DEF Tick, Polls, Reads, Resting, TypeInv, TypeOK
  <2>2. known' \in BOOLEAN
    BY <1>1 DEF Tick
  <2> QED BY <1>1, <2>1, <2>2 DEF Tick, Resting, TypeInv, TypeOK, Shape, Fetched, portal, Polls, Reads
<1>2. ASSUME NEW a \in Followed, NEW orgs \in SUBSET Org, Fetch(a, orgs) PROVE TypeInv'
  <2> DEFINE got == {[agent |-> a, orgs |-> orgs]}
  <2>1. got \in SUBSET Reads
    BY DEF Reads
  <2>2. \A g \in got : poll.visit[g.agent] # "no"
    BY <1>2 DEF Fetch
  <2>3. poll' = [poll EXCEPT !.got = got] /\ poll \in Polls
    BY <1>2 DEF Fetch, TypeInv, TypeOK, Polls, Reads
  <2>4. UNCHANGED <<api, known, portal, node, cache, sent, hit>>
    BY <1>2 DEF Fetch
  <2> HIDE DEF got
  <2>5. poll' \in Polls /\ poll'.visit = poll.visit /\ poll'.got = got
    BY <2>1, <2>3 DEF Polls
  <2>6. TypeOK'
    BY <2>4, <2>5 DEF TypeInv, TypeOK, portal, Polls, Reads
  <2>7. Shape'
    BY <2>2, <2>4, <2>5 DEF TypeInv, Shape, Fetched
  <2> QED BY <2>6, <2>7 DEF TypeInv
<1>3. ASSUME NEW g \in poll.got, Visit(g) PROVE TypeInv'
  <2> DEFINE a == g.agent
             alive == poll.visit[a] = "node"
             state == IF alive THEN node[a].state ELSE poll.visit[a]
  <2>1. g \in Reads /\ a \in Followed /\ a \in Agent /\ node[a] \in Sessions
    BY ServersAssumption DEF TypeInv, TypeOK, Sessions, Reads
  <2>2. poll.visit[a] # "no"
    BY DEF TypeInv, Shape, Fetched
  <2>3. state \in State
    BY <2>1, <2>2, ServersAssumption DEF TypeInv, TypeOK, Shape
  <2>4. node' \in [Agent -> Sessions] /\ Shape'
    <3>1. node' = node \/ node' = [node EXCEPT ![a].orgs = g.orgs]
      BY <1>3 DEF Visit, Refreshed
    <3>2. /\ node' \in [Agent -> Sessions] /\ \A b \in Agent \ {a} : node'[b] = node[b]
          /\ node'[a].pc = node[a].pc /\ node'[a].token = node[a].token /\ node'[a].state = node[a].state
      BY <2>1, <3>1 DEF TypeInv, TypeOK, Sessions, Reads
    <3>3. /\ \A b \in Followed : poll'.visit[b] = "node" => poll.visit[b] = "node"
          /\ poll'.got = {}
      BY <1>3 DEF Visit, TypeInv, TypeOK
    <3>4. Fetched'
      BY <3>3 DEF Fetched
    <3> QED BY <2>1, <3>2, <3>3, <3>4, ShapeStep DEF TypeInv, Shape
  <2>5. poll' \in Polls
    BY <1>3, <2>1 DEF Visit, TypeInv, TypeOK, Polls, Reads
  <2>6. cache' \in [Followed -> State \cup {None}] /\ sent' \subseteq Reports /\ hit' \subseteq Followed
    <3>1. \/ /\ cache' = [cache EXCEPT ![a] = state]
             /\ Send(a, state, "poll", alive)
          \/ UNCHANGED <<cache, sent, hit>>
      BY <1>3 DEF Visit
    <3> HIDE DEF state, alive
    <3> QED BY <2>1, <2>3, <3>1 DEF Send, Reports, TypeInv, TypeOK
  <2> QED BY <1>3, <2>4, <2>5, <2>6 DEF Visit, TypeInv, TypeOK, portal, Sessions, Polls, Reads, Reports
<1>4. CASE Restart
  <2>1. node' \in [Agent -> Sessions]
    BY <1>4 DEF Restart, Off, Session, Sessions
  <2>2. Shape'
    BY <1>4, ServersAssumption DEF Restart, Resting, Off, Session, Shape, Fetched
  <2> QED BY <1>4, <2>1, <2>2 DEF Restart, Resting, TypeInv, TypeOK, portal, Sessions
<1> QED BY <1>1, <1>2, <1>3, <1>4

\* Every step is one of the steps above.
LEMMA StepTyped == TypeInv /\ [Next]_vars => TypeInv'
<1> SUFFICES ASSUME TypeInv, [Next]_vars PROVE TypeInv'
  OBVIOUS
<1>1. CASE UNCHANGED vars
  BY <1>1 DEF vars, portal, TypeInv, TypeOK, Shape, Fetched
<1>2. ASSUME NEW a \in Agent PROVE Orgs(a) \in SUBSET Org /\ {} \in SUBSET Org
  BY OrgsTyped DEF TypeInv
<1>3. Followed \subseteq Agent
  BY ServersAssumption
<1> QED BY <1>1, <1>2, <1>3, OwnerTyped, ClaimTyped, SessionTyped, ReportTyped, PollTyped DEF Next

\* The rows, the sessions, the reports and the poller always have their types.
THEOREM TypeCorrect == Spec => []TypeOK
<1>1. TypeInv => TypeOK
  BY DEF TypeInv
<1> QED BY <1>1, InitTyped, StepTyped, PTL DEF Spec

\* The stronger invariant, for the proofs below.
LEMMA SpecTyped == Spec => []TypeInv
BY InitTyped, StepTyped, PTL DEF Spec

----------------------------------------------------------------------------
(* Claims *)

\* The agent has read the row's token and has not written yet.
HasRead(a, r) == node[a].pc = "bind" /\ node[a].token = r

\* By HTTP nobody is between the two; with the file, two agents that are have met, and
\* so have an agent that is and a row that is bound.
ReadersMet ==
  /\ api => \A a \in Agent : node[a].pc # "bind"
  /\ \A r \in Row, a \in Agent :
       HasRead(a, r) => row[r] # "unmade" /\ (row[r] \in Agent => r \in contested)
  /\ \A r \in Row : \A a, b \in Agent :
       a # b /\ HasRead(a, r) /\ HasRead(b, r) => r \in contested

\* A step that makes no reader, binds no row and forgets no contest keeps that.
LEMMA ReadersStay ==
  ASSUME ReadersMet, api' = api,
         \A a \in Agent, r \in Row : HasRead(a, r)' => HasRead(a, r),
         api => \A a \in Agent : node'[a].pc # "bind",
         contested \subseteq contested',
         \A r \in Row : row'[r] = row[r] \/ (row'[r] \notin Agent \cup {"unmade"}) \/ r \in contested'
                         \/ \A a \in Agent : ~ HasRead(a, r)',
         \A r \in Row : row[r] # "unmade" => row'[r] # "unmade"
  PROVE  ReadersMet'
BY DEF ReadersMet

\* A row changes its agent by a claim's write only.
LEMMA ReadersKept == TypeInv /\ ReadersMet /\ [Next]_vars => ReadersMet'
<1> SUFFICES ASSUME TypeInv, ReadersMet, [Next]_vars PROVE ReadersMet'
  OBVIOUS
<1>1. CASE UNCHANGED vars
  BY <1>1 DEF vars, portal, ReadersMet, HasRead
<1>2. ASSUME NEW r \in Row, Make(r) \/ Delete(r) \/ Share(r) PROVE ReadersMet'
  <2>1. UNCHANGED <<api, node, contested>>
    BY <1>2 DEF Make, Delete, Share
  <2>2. \/ row' = row
        \/ row[r] = "unmade" /\ row' = [row EXCEPT ![r] = "open"]
        \/ row[r] # "unmade" /\ row' = [row EXCEPT ![r] = "deleted"]
    BY <1>2 DEF Make, Delete, Share
  <2>3. "open" \notin Agent /\ "deleted" \notin Agent
    BY ServersAssumption
  <2> QED BY <2>1, <2>2, <2>3 DEF ReadersMet, HasRead, TypeInv, TypeOK
<1>3. ASSUME NEW a \in Agent, ClaimRead(a) PROVE ReadersMet'
  <2> DEFINE t == node[a].token
  <2>1. t \in Row /\ ~ api /\ UNCHANGED <<api, row>>
    BY <1>3 DEF ClaimRead, TypeInv, Shape
  <2>2. /\ node'[a].token = t
        /\ \A b \in Agent \ {a} : node'[b] = node[b]
        /\ node'[a].pc = "bind" => Claimable(t)
    BY <1>3 DEF ClaimRead, Goes, TypeInv, TypeOK
  <2>3. contested \subseteq contested'
    BY <1>3 DEF ClaimRead
  <2>4. \A b \in Agent \ {a} : node'[a].pc = "bind" /\ HasRead(b, t) => t \in contested'
    BY <1>3, <2>2 DEF ClaimRead, HasRead
  <2>5. node'[a].pc = "bind" => row[t] = "open" /\ row[t] \notin Agent
    BY <2>2, ServersAssumption DEF Claimable
  <2>6. \A r \in Row, b \in Agent : HasRead(b, r)' => HasRead(b, r) \/ (b = a /\ r = t)
    BY <2>2 DEF HasRead
  <2>7. \A r \in Row, b \in Agent :
          HasRead(b, r)' => row'[r] # "unmade" /\ (row'[r] \in Agent => r \in contested')
    <3> HIDE DEF t
    <3> SUFFICES ASSUME NEW r \in Row, NEW b \in Agent, HasRead(b, r)'
                 PROVE  row'[r] # "unmade" /\ (row'[r] \in Agent => r \in contested')
      OBVIOUS
    <3>1. CASE HasRead(b, r)
      BY <2>1, <2>3, <3>1 DEF ReadersMet
    <3>2. CASE b = a /\ r = t
      BY <2>1, <2>5, <3>2 DEF HasRead
    <3> QED BY <2>6, <3>1, <3>2
  <2>8. \A r \in Row : \A b, c \in Agent :
          b # c /\ HasRead(b, r)' /\ HasRead(c, r)' => r \in contested'
    BY <2>2, <2>3, <2>4, <2>6 DEF ReadersMet, HasRead
  <2> QED BY <2>1, <2>7, <2>8 DEF ReadersMet
<1>4. ASSUME NEW a \in Agent, ClaimWrite(a) \/ ClaimCall(a) \/ ClaimFails(a) PROVE ReadersMet'
  <2>0. node[a].token \in Row
    BY <1>4 DEF ClaimWrite, ClaimCall, ClaimFails, TypeInv, Shape
  <2> PICK t \in Row : t = node[a].token
    BY <2>0
  <2>1. UNCHANGED <<api, contested>>
    BY <1>4 DEF ClaimWrite, ClaimCall, ClaimFails, portal
  <2>2. node'[a].pc = "ask" /\ \A b \in Agent \ {a} : node'[b] = node[b]
    BY <1>4 DEF ClaimWrite, ClaimCall, ClaimFails, Goes, TypeInv, TypeOK
  <2>3. \A b \in Agent, r \in Row : HasRead(b, r)' => b # a /\ HasRead(b, r)
    BY <2>2 DEF HasRead
  <2>4. \A r \in Row \ {t} : row'[r] = row[r]
    BY <1>4, <2>1 DEF ClaimWrite, ClaimCall, ClaimFails, Bound, portal, TypeInv, TypeOK
  <2>5. row[t] # "unmade" => row'[t] # "unmade"
    BY <1>4, <2>1, ServersAssumption
       DEF ClaimWrite, ClaimCall, ClaimFails, Bound, portal, TypeInv, TypeOK
  <2>6. row'[t] = row[t] \/ t \in contested' \/ \A b \in Agent : ~ HasRead(b, t)'
    <3>1. CASE ClaimWrite(a)
      BY <2>1, <2>3, <3>1 DEF ClaimWrite, ReadersMet, HasRead
    <3>2. CASE ClaimCall(a)
      BY <2>3, <3>2 DEF ClaimCall, ReadersMet, HasRead
    <3>3. CASE ClaimFails(a)
      BY <3>3 DEF ClaimFails, portal
    <3> QED BY <1>4, <3>1, <3>2, <3>3
  <2>7. api => \A b \in Agent : node'[b].pc # "bind"
    BY <2>2 DEF ReadersMet
  <2> QED BY <2>1, <2>3, <2>4, <2>5, <2>6, <2>7, ReadersStay
<1>5. ASSUME UNCHANGED <<api, portal>>, NEW a \in Agent, node'[a].pc # "bind",
             \A b \in Agent \ {a} : node'[b].pc = node[b].pc /\ node'[b].token = node[b].token
      PROVE  ReadersMet'
  BY <1>5 DEF ReadersMet, HasRead, portal
<1>6. ASSUME NEW a \in Agent,
             \/ Connect(a) \/ (\E orgs \in {Orgs(a), {}} : Ask(a, orgs))
             \/ List(a) \/ Leave(a) \/ Change(a) \/ Close(a)
      PROVE  ReadersMet'
  <2>1. UNCHANGED <<api, portal>>
    BY <1>6 DEF Connect, Ask, List, Leave, Change, Close
  <2>2. node'[a].pc # "bind" /\ \A b \in Agent \ {a} : node'[b] = node[b]
    <3>1. CASE Connect(a)
      <4>1. PICK token : node' = [node EXCEPT ![a] =
                                    Session(IF token = None THEN "ask" ELSE "claim", token, None, {})]
        BY <3>1 DEF Connect
      <4>2. node'[a] = Session(IF token = None THEN "ask" ELSE "claim", token, None, {})
        BY <4>1 DEF TypeInv, TypeOK
      <4> QED BY <4>1, <4>2 DEF Session, TypeInv, TypeOK
    <3>2. CASE \E orgs \in {Orgs(a), {}} : Ask(a, orgs)
      <4>1. PICK orgs : node' = [node EXCEPT ![a] = Session("describe", None, None, orgs)]
        BY <3>2 DEF Ask
      <4> QED BY <4>1 DEF Session, TypeInv, TypeOK
    <3>3. CASE List(a)
      <4>1. PICK s \in State : node' = [node EXCEPT ![a] = Session("listed", None, s, node[a].orgs)]
        BY <3>3 DEF List
      <4> QED BY <4>1 DEF Session, TypeInv, TypeOK
    <3>4. CASE Leave(a) \/ Change(a) \/ Close(a)
      <4>1. node[a].pc # "bind"
        BY <3>4 DEF Leave, Change, Close
      <4>2. node' = [node EXCEPT ![a] = Off] \/ \E s \in State : node' = [node EXCEPT ![a].state = s]
        BY <3>4 DEF Leave, Change, Close
      <4> QED BY <4>1, <4>2 DEF Off, Session, TypeInv, TypeOK
    <3> QED BY <1>6, <3>1, <3>2, <3>3, <3>4
  <2> QED BY <1>5, <2>1, <2>2
<1>7. ASSUME NEW m \in sent, Apply(m) \/ Lose(m) \/ TimeOut(m) PROVE ReadersMet'
  BY <1>7 DEF Apply, Lose, TimeOut, portal, ReadersMet, HasRead
<1>8. ASSUME NEW answered \in BOOLEAN, Tick(answered) PROVE ReadersMet'
  BY <1>8 DEF Tick, portal, ReadersMet, HasRead
<1>9. ASSUME NEW g \in poll.got, Visit(g) PROVE ReadersMet'
  <2>1. node' = node \/ node' = [node EXCEPT ![g.agent].orgs = g.orgs]
    BY <1>9 DEF Visit, Refreshed
  <2>2. \A b \in Agent : node'[b].pc = node[b].pc /\ node'[b].token = node[b].token
    BY <2>1 DEF TypeInv, TypeOK
  <2>3. UNCHANGED <<api, portal>>
    BY <1>9 DEF Visit
  <2> QED BY <2>2, <2>3 DEF ReadersMet, HasRead, portal
<1>11. ASSUME NEW a \in Followed, NEW orgs, Fetch(a, orgs) PROVE ReadersMet'
  BY <1>11 DEF Fetch, portal, ReadersMet, HasRead
<1>10. CASE Restart
  BY <1>10 DEF Restart, Off, Session, portal, ReadersMet, HasRead
<1> QED BY <1>1, <1>2, <1>3, <1>4, <1>6, <1>7, <1>8, <1>9, <1>10, <1>11 DEF Next

\* A token is used once, but by two claims that have met.
THEOREM TokenUsedOnce == Spec => ClaimedOnce
<1> DEFINE Once ==
      \A r \in Row : row[r] \in Agent => row'[r] \in {row[r], "deleted"} \/ (~ api /\ r \in contested)
<1>1. Init => ReadersMet
  BY DEF Init, ReadersMet, HasRead, Off, Session
<1>2. TypeInv /\ ReadersMet /\ [Next]_vars => [Once]_vars
  <2> SUFFICES ASSUME TypeInv, ReadersMet, Next PROVE Once
    BY DEF vars
  <2>1. ASSUME NEW x \in Row, Make(x) \/ Delete(x) \/ Share(x) PROVE Once
    BY <2>1, ServersAssumption DEF Make, Delete, Share, TypeInv, TypeOK
  <2>2. ASSUME NEW a \in Agent, ClaimWrite(a) PROVE Once
    <3>1. node[a].token \in Row /\ HasRead(a, node[a].token) /\ ~ api
      BY <2>2 DEF ClaimWrite, HasRead, TypeInv, Shape, ReadersMet
    <3>2. \A r \in Row \ {node[a].token} : row'[r] = row[r]
      BY <2>2, <3>1 DEF ClaimWrite, Bound, TypeInv, TypeOK
    <3> QED BY <3>1, <3>2 DEF ReadersMet
  <2>3. ASSUME NEW a \in Agent, ClaimCall(a) PROVE Once
    BY <2>3, ServersAssumption DEF ClaimCall, Claimable, Bound, TypeInv, TypeOK, Shape
  <2>4. ASSUME NEW a \in Agent,
               \/ Connect(a) \/ ClaimRead(a) \/ ClaimFails(a)
               \/ (\E orgs \in {Orgs(a), {}} : Ask(a, orgs))
               \/ List(a) \/ Leave(a) \/ Change(a) \/ Close(a)
        PROVE  row' = row
    BY <2>4 DEF Connect, ClaimRead, ClaimFails, Ask, List, Leave, Change, Close, portal
  <2>5. ASSUME NEW m \in sent, Apply(m) \/ Lose(m) \/ TimeOut(m) PROVE row' = row
    BY <2>5 DEF Apply, Lose, TimeOut, portal
  <2>6. ASSUME \/ \E answered \in BOOLEAN : Tick(answered)
               \/ \E a \in Followed : \E orgs \in {Orgs(a), {}} : Fetch(a, orgs)
               \/ \E g \in poll.got : Visit(g)
               \/ Restart
        PROVE  row' = row
    BY <2>6 DEF Tick, Fetch, Visit, Restart, portal
  <2> QED BY <2>1, <2>2, <2>3, <2>4, <2>5, <2>6 DEF Next
<1> QED BY <1>1, <1>2, ReadersKept, SpecTyped, PTL DEF Spec, ClaimedOnce

----------------------------------------------------------------------------
(* Reports *)

Listed(a) == node[a].pc = "listed"

\* What the portal shows of an agent's server once no report is under way.
Shows(a, r) == IF Listed(a) THEN cache[a] \in {None, shown[r]} ELSE shown[r] \in {None, "offline"}

\* At most one report is under way, and it says what is remembered, or that a node has gone;
\* nothing is remembered of a node that has.
ReportsAgree(a) ==
  /\ ~ Listed(a) => cache[a] = None
  /\ UnderWay(a) = {} => \A r \in Row : row[r] = a => Shows(a, r)
  /\ \A m \in UnderWay(a) :
       /\ \A q \in UnderWay(a) : q = m
       /\ IF Listed(a) THEN cache[a] \in {None, m.state} ELSE m.state = "offline"

\* By HTTP a report reaches every row of its agent, as they are all the gateway's.
RowsInReach == api => \A r \in Row : row[r] \in Agent => Home[r] = GatewayOrg

HonestReports == RowsInReach /\ \A a \in Followed \ hit : ReportsAgree(a)

\* A step that changes nothing of an agent, and gives it no row.
LEMMA AgreesStay ==
  ASSUME NEW a \in Followed, ReportsAgree(a), Listed(a)' <=> Listed(a), cache'[a] = cache[a],
         UnderWay(a)' = UnderWay(a),
         \A r \in Row : row'[r] = a => row[r] = a /\ shown'[r] = shown[r]
  PROVE  ReportsAgree(a)'
BY DEF ReportsAgree, Shows

\* A step of the owner.
LEMMA OwnerHonest ==
  ASSUME TypeInv, HonestReports, NEW r \in Row, Make(r) \/ Delete(r) \/ Share(r)
  PROVE  HonestReports'
<1>1. UNCHANGED <<api, shown, node, cache, sent, hit>>
  BY DEF Make, Delete, Share
<1>2. \A s \in Row : row'[s] = row[s] \/ row'[s] \notin Agent
  BY ServersAssumption DEF Make, Delete, Share, TypeInv, TypeOK
<1>3. RowsInReach'
  BY <1>1, <1>2 DEF HonestReports, RowsInReach
<1>4. ASSUME NEW a \in Followed \ hit PROVE ReportsAgree(a)'
  <2>1. \A s \in Row : row'[s] = a => row[s] = a
    BY <1>2, ServersAssumption
  <2>2. UnderWay(a)' = UnderWay(a) /\ (Listed(a)' <=> Listed(a))
    BY <1>1 DEF UnderWay, Listed
  <2> QED BY <1>1, <2>1, <2>2, AgreesStay DEF HonestReports
<1> QED BY <1>1, <1>3, <1>4 DEF HonestReports

\* A claim gives a row to an agent that is not listed; if the row shows something, the
\* agent is excused.
LEMMA BoundHonest ==
  ASSUME TypeInv, HonestReports, NEW b \in Agent, NEW t \in Row,
         row' = row \/ (row' = [row EXCEPT ![t] = b] /\ (row[t] = b \/ (api => Home[t] = GatewayOrg))),
         ~ Listed(b), ~ Listed(b)', \A a \in Agent \ {b} : node'[a] = node[a],
         hit' = (IF row'[t] = b /\ row[t] # b /\ shown[t] # None THEN hit \cup ({b} \cap Followed) ELSE hit)
           \/ hit' = (IF row'[t] = b /\ shown[t] # None THEN hit \cup ({b} \cap Followed) ELSE hit),
         UNCHANGED <<api, shown, cache, sent>>
  PROVE  HonestReports'
<1>1. hit \subseteq hit'
  OBVIOUS
<1>2. RowsInReach'
  BY DEF HonestReports, RowsInReach, TypeInv, TypeOK
<1>3. ASSUME NEW a \in Followed \ hit' PROVE ReportsAgree(a)'
  <2>1. ReportsAgree(a)
    BY <1>1, <1>3 DEF HonestReports
  <2>2. UnderWay(a)' = UnderWay(a) /\ (Listed(a)' <=> Listed(a))
    BY ServersAssumption DEF UnderWay, Listed
  <2>3. \A r \in Row : row'[r] = a => row[r] = a \/ (a = b /\ r = t)
    BY DEF TypeInv, TypeOK
  <2>4. CASE a = b /\ row'[t] = b /\ row[t] # b
    <3>1. shown[t] = None
      BY <1>3, <2>4
    <3>2. \A r \in Row : row'[r] = a => Shows(a, r)' \/ (row[r] = a /\ r # t)
      BY <2>2, <2>3, <2>4, <3>1 DEF Shows
    <3>3. UnderWay(a) = {} => \A r \in Row : row[r] = a => Shows(a, r)'
      BY <2>1, <2>2 DEF ReportsAgree, Shows
    <3> QED BY <2>1, <2>2, <3>2, <3>3 DEF ReportsAgree
  <2>5. CASE ~ (a = b /\ row'[t] = b /\ row[t] # b)
    BY <2>1, <2>2, <2>3, <2>5, AgreesStay
  <2> QED BY <2>4, <2>5
<1> QED BY <1>2, <1>3 DEF HonestReports

\* A claim's steps.
LEMMA ClaimHonest ==
  ASSUME TypeInv, ReadersMet, HonestReports, NEW b \in Agent,
         Connect(b) \/ ClaimRead(b) \/ ClaimWrite(b) \/ ClaimCall(b) \/ ClaimFails(b)
  PROVE  HonestReports'
<1>1. CASE ClaimWrite(b)
  <2>1. node[b].token \in Row /\ ~ api
    BY <1>1 DEF ClaimWrite, TypeInv, Shape, ReadersMet
  <2>2. row' = row \/ row' = [row EXCEPT ![node[b].token] = b]
    BY <1>1 DEF ClaimWrite, Bound
  <2>3. ~ Listed(b) /\ ~ Listed(b)' /\ \A a \in Agent \ {b} : node'[a] = node[a]
    BY <1>1 DEF ClaimWrite, Goes, Listed, TypeInv, TypeOK
  <2>4. hit' = IF row'[node[b].token] = b /\ shown[node[b].token] # None
                 THEN hit \cup ({b} \cap Followed) ELSE hit
    BY <1>1 DEF ClaimWrite
  <2>5. UNCHANGED <<api, shown, cache, sent>>
    BY <1>1 DEF ClaimWrite
  <2> QED BY <2>1, <2>2, <2>3, <2>4, <2>5, BoundHonest
<1>2. CASE ClaimCall(b)
  <2>1. node[b].token \in Row
    BY <1>2 DEF ClaimCall, TypeInv, Shape
  <2>2. \/ row' = row
        \/ row' = [row EXCEPT ![node[b].token] = b] /\ Home[node[b].token] = GatewayOrg
    BY <1>2 DEF ClaimCall, Bound
  <2>3. ~ Listed(b) /\ ~ Listed(b)' /\ \A a \in Agent \ {b} : node'[a] = node[a]
    BY <1>2 DEF ClaimCall, Goes, Listed, TypeInv, TypeOK
  <2>4. hit' = IF row'[node[b].token] = b /\ row[node[b].token] # b /\ shown[node[b].token] # None
                 THEN hit \cup ({b} \cap Followed) ELSE hit
    BY <1>2 DEF ClaimCall
  <2>5. UNCHANGED <<api, shown, cache, sent>>
    BY <1>2 DEF ClaimCall
  <2> QED BY <2>1, <2>2, <2>3, <2>4, <2>5, BoundHonest
<1>3. CASE Connect(b) \/ ClaimRead(b) \/ ClaimFails(b)
  <2>1. UNCHANGED <<api, row, shown, cache, sent, hit>>
    BY <1>3 DEF Connect, ClaimRead, ClaimFails, portal
  <2>2. \A a \in Agent \ {b} : node'[a] = node[a]
    BY <1>3 DEF Connect, ClaimRead, ClaimFails, Goes, TypeInv, TypeOK
  <2>3. ~ Listed(b) /\ ~ Listed(b)'
    <3>1. CASE Connect(b)
      <4>1. PICK token : node' = [node EXCEPT ![b] =
                                    Session(IF token = None THEN "ask" ELSE "claim", token, None, {})]
        BY <3>1 DEF Connect
      <4>2. node'[b] = Session(IF token = None THEN "ask" ELSE "claim", token, None, {})
        BY <4>1 DEF TypeInv, TypeOK
      <4> QED BY <3>1, <4>2 DEF Connect, Off, Session, Listed
    <3>2. CASE ClaimRead(b) \/ ClaimFails(b)
      BY <3>2 DEF ClaimRead, ClaimFails, Goes, Listed, TypeInv, TypeOK
    <3> QED BY <1>3, <3>1, <3>2
  <2>4. \A a \in Followed \ hit : ReportsAgree(a)'
    BY <2>1, <2>2, <2>3, AgreesStay, ServersAssumption DEF HonestReports, UnderWay, Listed
  <2> QED BY <2>1, <2>4 DEF HonestReports, RowsInReach
<1> QED BY <1>1, <1>2, <1>3

\* The other steps of a session: a node that is listed is one nothing is remembered of.
LEMMA SessionHonest ==
  ASSUME TypeInv, HonestReports, NEW b \in Agent,
         \/ \E orgs : Ask(b, orgs)
         \/ List(b) \/ Leave(b) \/ Change(b) \/ Close(b)
  PROVE  HonestReports'
<1>1. UNCHANGED <<api, row, shown>>
  BY DEF Ask, List, Leave, Change, Close, portal
<1>2. \A a \in Agent \ {b} : node'[a] = node[a]
  <2>1. \E new : node' = [node EXCEPT ![b] = new]
    <3>1. CASE Change(b)
      <4>1. PICK s \in State : node' = [node EXCEPT ![b].state = s]
        BY <3>1 DEF Change
      <4> QED BY <4>1
    <3> QED BY <3>1 DEF Ask, List, Leave, Close
  <2> QED BY <2>1 DEF TypeInv, TypeOK
<1>3. RowsInReach'
  BY <1>1 DEF HonestReports, RowsInReach
<1>4. CASE \E orgs : Ask(b, orgs)
  <2>1. PICK orgs : Ask(b, orgs)
    BY <1>4
  <2>2. UNCHANGED <<cache, sent, hit>> /\ ~ Listed(b)
    BY <2>1 DEF Ask, Listed
  <2>3. node' = [node EXCEPT ![b] = Session("describe", None, None, orgs)]
    BY <2>1 DEF Ask
  <2>4. ~ Listed(b)'
    BY <2>3 DEF Session, Listed, TypeInv, TypeOK
  <2>5. \A a \in Followed \ hit : ReportsAgree(a)'
    BY <1>1, <1>2, <2>2, <2>4, AgreesStay, ServersAssumption DEF HonestReports, UnderWay, Listed
  <2> QED BY <1>3, <2>2, <2>5 DEF HonestReports
<1>5. CASE Leave(b)
  <2>1. UNCHANGED <<cache, sent, hit>> /\ ~ Listed(b) /\ ~ Listed(b)'
    BY <1>5 DEF Leave, Off, Session, Listed, TypeInv, TypeOK
  <2>2. \A a \in Followed \ hit : ReportsAgree(a)'
    BY <1>1, <1>2, <2>1, AgreesStay, ServersAssumption DEF HonestReports, UnderWay, Listed
  <2> QED BY <1>3, <2>1, <2>2 DEF HonestReports
<1>6. CASE Change(b)
  <2>1. UNCHANGED <<cache, sent, hit>> /\ Listed(b)
    BY <1>6 DEF Change, Listed
  <2>2. PICK s \in State : node' = [node EXCEPT ![b].state = s]
    BY <1>6 DEF Change
  <2>3. Listed(b)'
    BY <2>1, <2>2 DEF Listed, TypeInv, TypeOK
  <2>4. \A a \in Followed \ hit : ReportsAgree(a)'
    BY <1>1, <1>2, <2>1, <2>3, AgreesStay, ServersAssumption DEF HonestReports, UnderWay, Listed
  <2> QED BY <1>3, <2>1, <2>4 DEF HonestReports
<1>7. CASE List(b)
  <2>1. UNCHANGED <<cache, sent, hit>> /\ ~ Listed(b)
    BY <1>7 DEF List, Listed
  <2>2. ASSUME NEW a \in Followed \ hit PROVE ReportsAgree(a)'
    <3>1. ReportsAgree(a) /\ UnderWay(a)' = UnderWay(a)
      BY <2>1 DEF HonestReports, UnderWay
    <3>2. CASE a = b
      <4>1. cache'[a] = None
        BY <2>1, <3>1, <3>2 DEF ReportsAgree
      <4>2. PICK s \in State : node' = [node EXCEPT ![b] = Session("listed", None, s, node[b].orgs)]
        BY <1>7 DEF List
      <4>3. Listed(a)'
        BY <3>2, <4>2 DEF Session, Listed, TypeInv, TypeOK
      <4> QED BY <3>1, <4>1, <4>3 DEF ReportsAgree, Shows
    <3>3. CASE a # b
      BY <1>1, <1>2, <2>1, <3>1, <3>3, AgreesStay, ServersAssumption DEF Listed
    <3> QED BY <3>2, <3>3
  <2> QED BY <1>3, <2>1, <2>2 DEF HonestReports
<1>8. CASE Close(b)
  <2> DEFINE new == [agent |-> b, state |-> "offline", by |-> "close"]
  <2>1. b \in Followed /\ ~ Listed(b)'
    BY <1>8 DEF Close, Off, Session, Listed, TypeInv, TypeOK, Shape
  <2>2. /\ cache' = [cache EXCEPT ![b] = None]
        /\ sent' = sent \cup {new}
        /\ hit' = IF UnderWay(b) = {} THEN hit \ {b} ELSE hit \cup {b}
    BY <1>8 DEF Close, Forgotten, Send
  <2>3. ASSUME NEW a \in Followed \ hit' PROVE ReportsAgree(a)'
    <3>1. CASE a = b
      <4>1. UnderWay(b) = {}
        BY <2>2, <2>3, <3>1
      <4>2. UnderWay(b)' = {new}
        BY <2>2, <4>1 DEF UnderWay
      <4>3. cache'[b] = None
        BY <2>1, <2>2 DEF TypeInv, TypeOK
      <4>4. new.state = "offline"
        OBVIOUS
      <4> HIDE DEF new
      <4> QED BY <2>1, <3>1, <4>2, <4>3, <4>4 DEF ReportsAgree
    <3>2. CASE a # b
      <4>1. a \notin hit /\ ReportsAgree(a)
        BY <2>2, <2>3, <3>2 DEF HonestReports
      <4>2. UnderWay(a)' = UnderWay(a) /\ cache'[a] = cache[a]
        BY <2>2, <3>2 DEF UnderWay, TypeInv, TypeOK
      <4> QED BY <1>1, <1>2, <3>2, <4>1, <4>2, AgreesStay, ServersAssumption DEF Listed
    <3> QED BY <3>1, <3>2
  <2> QED BY <1>3, <2>3 DEF HonestReports
<1> QED BY <1>4, <1>5, <1>6, <1>7, <1>8

\* A report that arrives in its turn makes the portal agree; one that is lost or late
\* excuses its agent.
LEMMA ReportHonest ==
  ASSUME TypeInv, HonestReports, NEW m \in sent, Apply(m) \/ Lose(m) \/ TimeOut(m)
  PROVE  HonestReports'
<1>1. UNCHANGED <<api, row, node, cache>>
  BY DEF Apply, Lose, TimeOut, portal
<1>2. RowsInReach'
  BY <1>1 DEF HonestReports, RowsInReach
<1>3. m.agent \in Followed
  BY DEF TypeInv, TypeOK
<1>4. \A a \in Followed : a # m.agent => UnderWay(a)' = UnderWay(a)
  <2>1. \/ sent' = sent \ {m}
        \/ sent' = (sent \ {m}) \cup {[m EXCEPT !.by = "late"]}
    BY DEF Apply, Lose, TimeOut
  <2>2. [m EXCEPT !.by = "late"].agent = m.agent
    BY DEF TypeInv, TypeOK
  <2> QED BY <2>1, <2>2 DEF UnderWay
<1>5. \A r \in Row : row[r] # m.agent => shown'[r] = shown[r]
  BY DEF Apply, Lose, TimeOut, portal, RowsOf, TypeInv, TypeOK
<1>6. hit \subseteq hit'
  BY DEF Apply, Lose, TimeOut
<1>7. ASSUME NEW a \in Followed \ hit' PROVE ReportsAgree(a)'
  <2>1. ReportsAgree(a)
    BY <1>6, <1>7 DEF HonestReports
  <2>2. CASE a # m.agent
    BY <1>1, <1>4, <1>5, <2>1, <2>2, AgreesStay DEF Listed
  <2>3. CASE a = m.agent
    <3>1. Apply(m)
      BY <1>7, <2>3 DEF Lose, TimeOut
    <3>2. m \in UnderWay(a) /\ UnderWay(a)' = UnderWay(a) \ {m}
      BY <2>3, <3>1 DEF Apply, UnderWay
    <3>3. UnderWay(a)' = {}
      BY <2>1, <3>2 DEF ReportsAgree
    <3>4. \A r \in Row : row[r] = a => shown'[r] = m.state
      <4>1. \A r \in Row : row[r] = a => (api => Home[r] = GatewayOrg)
        BY ServersAssumption DEF HonestReports, RowsInReach
      <4> QED BY <2>3, <3>1, <4>1 DEF Apply, RowsOf
    <3>5. IF Listed(a) THEN cache[a] \in {None, m.state} ELSE m.state = "offline"
      BY <2>1, <3>2 DEF ReportsAgree
    <3>6. (Listed(a)' <=> Listed(a)) /\ cache'[a] = cache[a] /\ row' = row
      BY <1>1 DEF Listed
    <3> QED BY <2>1, <3>3, <3>4, <3>5, <3>6 DEF ReportsAgree, Shows
  <2> QED BY <2>2, <2>3
<1> QED BY <1>2, <1>7 DEF HonestReports

\* The poller reports what it remembers of a listed node, or excuses the agent.
LEMMA VisitHonest ==
  ASSUME TypeInv, HonestReports, NEW g \in poll.got, Visit(g)
  PROVE  HonestReports'
<1> DEFINE b == g.agent
           alive == poll.visit[b] = "node"
           state == IF alive THEN node[b].state ELSE poll.visit[b]
           new == [agent |-> b, state |-> state, by |-> "poll"]
<1>1. UNCHANGED <<api, row, shown>>
  BY DEF Visit, portal
<1>2. RowsInReach'
  BY <1>1 DEF HonestReports, RowsInReach
<1>0. b \in Followed
  BY DEF TypeInv, TypeOK
<1>3. \A a \in Followed : Listed(a)' <=> Listed(a)
  <2>1. node' = node \/ node' = [node EXCEPT ![b].orgs = g.orgs]
    BY DEF Visit, Refreshed
  <2> QED BY <2>1, ServersAssumption DEF Listed, TypeInv, TypeOK
<1>4. \/ UNCHANGED <<cache, sent, hit>>
      \/ /\ cache' = [cache EXCEPT ![b] = state]
         /\ sent' = sent \cup {new}
         /\ hit' = IF alive /\ UnderWay(b) = {} THEN hit \ {b} ELSE hit \cup {b}
  BY DEF Visit, Send
<1>5. alive => Listed(b)
  BY <1>0 DEF TypeInv, Shape, Listed
<1>6. new.state = state /\ new.agent = b
  OBVIOUS
<1> HIDE DEF new, alive, state, b
<1>7. ASSUME NEW a \in Followed \ hit' PROVE ReportsAgree(a)'
  <2>1. CASE UNCHANGED <<cache, sent, hit>>
    BY <1>1, <1>3, <1>7, <2>1, AgreesStay DEF HonestReports, UnderWay
  <2>2. CASE ~ UNCHANGED <<cache, sent, hit>>
    <3>1. CASE a = b
      <4>1. alive /\ UnderWay(b) = {}
        BY <1>4, <1>7, <2>2, <3>1
      <4>2. UnderWay(b)' = {new}
        BY <1>4, <1>6, <2>2, <4>1 DEF UnderWay
      <4>3. cache'[b] = state
        BY <1>0, <1>4, <2>2 DEF TypeInv, TypeOK
      <4>4. Listed(b)'
        BY <1>0, <1>3, <1>5, <4>1
      <4> QED BY <1>6, <3>1, <4>2, <4>3, <4>4 DEF ReportsAgree
    <3>2. CASE a # b
      <4>1. a \notin hit /\ ReportsAgree(a)
        BY <1>4, <1>7, <2>2, <3>2 DEF HonestReports
      <4>2. UnderWay(a)' = UnderWay(a) /\ cache'[a] = cache[a]
        BY <1>4, <1>6, <2>2, <3>2 DEF UnderWay, TypeInv, TypeOK
      <4> QED BY <1>1, <1>3, <4>1, <4>2, AgreesStay
    <3> QED BY <3>1, <3>2
  <2> QED BY <2>1, <2>2
<1> QED BY <1>2, <1>7 DEF HonestReports

\* Every step keeps the reports honest.
LEMMA HonestKept == TypeInv /\ ReadersMet /\ HonestReports /\ [Next]_vars => HonestReports'
<1> SUFFICES ASSUME TypeInv, ReadersMet, HonestReports, [Next]_vars PROVE HonestReports'
  OBVIOUS
<1>1. ASSUME NEW answered \in BOOLEAN, Tick(answered) PROVE HonestReports'
  <2>1. UNCHANGED <<api, row, shown, node, cache, sent, hit>>
    BY <1>1 DEF Tick, portal
  <2> QED BY <2>1 DEF HonestReports, RowsInReach, ReportsAgree, Shows, Listed, UnderWay
<1>5. ASSUME NEW a \in Followed, NEW orgs, Fetch(a, orgs) PROVE HonestReports'
  <2>1. UNCHANGED <<api, row, shown, node, cache, sent, hit>>
    BY <1>5 DEF Fetch, portal
  <2> QED BY <2>1 DEF HonestReports, RowsInReach, ReportsAgree, Shows, Listed, UnderWay
<1>2. CASE UNCHANGED vars
  BY <1>2 DEF vars, portal, HonestReports, RowsInReach, ReportsAgree, Shows, Listed, UnderWay
<1>3. CASE Restart
  <2>1. UNCHANGED <<api, row, shown>> /\ sent' = {} /\ hit \subseteq hit'
    BY <1>3 DEF Restart, portal
  <2>2. \A a \in Followed : ~ Listed(a)' /\ cache'[a] = None /\ UnderWay(a)' = {}
    BY <1>3, ServersAssumption DEF Restart, Off, Session, Listed, UnderWay
  <2>3. ASSUME NEW a \in Followed \ hit' PROVE ReportsAgree(a)'
    <3>1. ReportsAgree(a) /\ ~ Listed(a) /\ UnderWay(a) = {}
      BY <1>3, <2>1, <2>3 DEF Restart, HonestReports, Listed
    <3> QED BY <2>1, <2>2, <3>1 DEF ReportsAgree, Shows
  <2> QED BY <2>1, <2>3 DEF HonestReports, RowsInReach
<1>4. Followed \subseteq Agent
  BY ServersAssumption
<1> QED BY <1>1, <1>2, <1>3, <1>4, <1>5, OwnerHonest, ClaimHonest, SessionHonest, ReportHonest, VisitHonest
       DEF Next

\* Once every report has arrived in its turn, the portal shows what the gateway remembers.
THEOREM PortalShowsReports == Spec => []PortalAgrees
<1>1. Init => ReadersMet /\ HonestReports
  <2> SUFFICES ASSUME Init PROVE ReadersMet /\ HonestReports
    OBVIOUS
  <2>1. \A a \in Agent : node[a].pc = "off"
    BY DEF Init, Off, Session
  <2>2. ReadersMet
    BY <2>1 DEF ReadersMet, HasRead
  <2>3. RowsInReach
    BY ServersAssumption DEF Init, RowsInReach
  <2>4. ASSUME NEW a \in Followed PROVE ReportsAgree(a)
    <3>1. ~ Listed(a) /\ UnderWay(a) = {}
      BY <2>1, ServersAssumption DEF Init, Listed, UnderWay
    <3> QED BY <3>1 DEF Init, ReportsAgree, Shows
  <2> QED BY <2>2, <2>3, <2>4 DEF HonestReports
<1>2. HonestReports => PortalAgrees
  <2> SUFFICES ASSUME HonestReports, NEW r \in Row, NEW a \in Followed,
                      row[r] = a, UnderWay(a) = {}, a \notin hit
               PROVE  Shows(a, r)
    BY DEF PortalAgrees, Shows, Listed
  <2> QED BY DEF HonestReports, ReportsAgree
<1> QED BY <1>1, <1>2, HonestKept, ReadersKept, SpecTyped, PTL DEF Spec
=============================================================================
