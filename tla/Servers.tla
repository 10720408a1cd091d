------------------------------- MODULE Servers -------------------------------
(***************************************************************************)
(* The servers of the portal and what a gateway does to them: claim tokens, *)
(* the organizations a server may serve, and the state the portal shows of  *)
(* it.  src/portal/db.py and src/portal/app.py keep the rows;               *)
(* src/portal_link.py is the gateway's side, by file or by HTTP;            *)
(* src/gateway.py calls it when a node registers, when its session ends and *)
(* from the poller.                                                        *)
(*                                                                         *)
(* Every call runs in a thread, is awaited, and fails without a word.  The  *)
(* poller goes through a copy of the registry, so it may visit a Node whose *)
(* session has ended; a state is remembered as reported before it is sent.  *)
(* The sessions of one agent do not overlap, and a connection is not lost   *)
(* between REGISTER and REGISTERED (Gateway looks at those).                *)
(***************************************************************************)
CONSTANTS
  Agent,
  Followed,     \* the agents whose sessions go on after the claim
  Row,          \* server rows that can be made
  Org,
  Home,         \* row -> the organization it is made for
  GatewayOrg,   \* in API mode: the organization of the gateway's token
  State,        \* what a connected node may be: available, busy, paused ...
  None

ASSUME ServersAssumption ==
  /\ Followed \subseteq Agent
  /\ Home \in [Row -> Org] /\ GatewayOrg \in Org
  /\ Agent \cap {"unmade", "open", "deleted"} = {}
  /\ State \cap {"offline", "node", "no"} = {} /\ None \notin State \cup Agent \cup Row

VARIABLES
  api,        \* the portal is reached over HTTP, not by its database file
  known,      \* API mode: a heartbeat has told the gateway its organization
  row,        \* row -> "unmade", "open" for a token to claim, "deleted", or its agent
  shares,     \* row -> the organizations it is shared with
  shown,      \* row -> its state column
  node,       \* agent -> its session
  cache,      \* _node_state: agent -> the state last reported
  sent,       \* reports under way
  poll,       \* the poller: the Nodes it still has to visit, the organizations it has
              \* just read for one of them, the agent whose report it waits for
  hit,        \* history: agents a report of which was lost, late or overtaken
  contested   \* history: rows whose token two claims have read before either wrote

portal == <<row, shares, shown, contested>>
vars == <<api, known, portal, node, cache, sent, poll, hit>>

Session(pc, token, state, orgs) == [pc |-> pc, token |-> token, state |-> state, orgs |-> orgs]

Off == Session("off", None, None, {})

Resting == [visit |-> [a \in Followed |-> "no"], got |-> {}, wait |-> None]

Init ==
  /\ api \in BOOLEAN
  /\ known = FALSE
  /\ row = [r \in Row |-> "unmade"]
  /\ shares = [r \in Row |-> {}]
  /\ shown = [r \in Row |-> None]
  /\ node = [a \in Agent |-> Off]
  /\ cache = [a \in Followed |-> None]
  /\ sent = {}
  /\ poll = Resting
  /\ hit = {}
  /\ contested = {}

RowsOf(a) == {r \in Row : row[r] = a}

\* org_ids_for_fingerprint: by HTTP the gateway's own organization or none.
Orgs(a) ==
  IF api
    THEN {o \in {GatewayOrg} : known /\ \E r \in RowsOf(a) : Home[r] = o}
    ELSE UNION {{Home[r]} \cup shares[r] : r \in RowsOf(a)}

----------------------------------------------------------------------------
(* The owner, in the browser *)

Make(r) ==
  /\ row[r] = "unmade"
  /\ row' = [row EXCEPT ![r] = "open"]
  /\ UNCHANGED <<api, known, shares, shown, contested, node, cache, sent, poll, hit>>

Delete(r) ==
  /\ row[r] \notin {"unmade", "deleted"}
  /\ row' = [row EXCEPT ![r] = "deleted"]
  /\ UNCHANGED <<api, known, shares, shown, contested, node, cache, sent, poll, hit>>

\* server_share and server_unshare
Share(r) ==
  /\ row[r] \notin {"unmade", "deleted"}
  /\ \E o \in Org :
       \/ shares' = [shares EXCEPT ![r] = @ \cup {o}]
       \/ shares' = [shares EXCEPT ![r] = @ \ {o}]
  /\ UNCHANGED <<api, known, row, shown, contested, node, cache, sent, poll, hit>>

----------------------------------------------------------------------------
(* A node registers *)

Goes(a, pc) == node' = [node EXCEPT ![a].pc = pc]

Connect(a) ==
  /\ node[a] = Off
  /\ \E token \in {r \in Row : row[r] # "unmade"} \cup {None} :
       node' = [node EXCEPT ![a] = Session(IF token = None THEN "ask" ELSE "claim", token, None, {})]
  /\ UNCHANGED <<api, known, portal, cache, sent, poll, hit>>

\* A mutant of Claimable: the token is left on the row.
MutClaimable(r) == row[r] \notin {"unmade", "deleted"}

\* The row a token is read from: it is cleared when the row is claimed.
Claimable(r) == row[r] = "open"

\* UPDATE servers SET fingerprint: no row is left if it was deleted, and a fingerprint is
\* on one row only.
Bound(r, a) ==
  IF row[r] \in {"unmade", "deleted"} \/ RowsOf(a) \ {r} # {} THEN row ELSE [row EXCEPT ![r] = a]

\* claim_server reads the row.
ClaimRead(a) ==
  LET r == node[a].token IN
  /\ node[a].pc = "claim" /\ ~ api
  /\ Goes(a, IF Claimable(r) THEN "bind" ELSE "ask")
  /\ contested' = IF Claimable(r) /\ \E b \in Agent \ {a} : node[b].pc = "bind" /\ node[b].token = r
                    THEN contested \cup {r}
                    ELSE contested
  /\ UNCHANGED <<api, known, row, shares, shown, cache, sent, poll, hit>>

\* claim_server writes it, whoever has done so meanwhile.
ClaimWrite(a) ==
  LET r == node[a].token IN
  /\ node[a].pc = "bind"
  /\ row' = Bound(r, a)
  /\ Goes(a, "ask")
  /\ hit' = IF row'[r] = a /\ shown[r] # None THEN hit \cup ({a} \cap Followed) ELSE hit
  /\ UNCHANGED <<api, known, shares, shown, contested, cache, sent, poll>>

\* gw_claim: a coroutine that does not await between the two.
ClaimCall(a) ==
  LET r == node[a].token IN
  /\ node[a].pc = "claim" /\ api
  /\ row' = IF Claimable(r) /\ Home[r] = GatewayOrg THEN Bound(r, a) ELSE row
  /\ Goes(a, "ask")
  /\ hit' = IF row'[r] = a /\ row[r] # a /\ shown[r] # None THEN hit \cup ({a} \cap Followed) ELSE hit
  /\ UNCHANGED <<api, known, shares, shown, contested, cache, sent, poll>>

\* The call fails, or what it asks for is refused.
ClaimFails(a) ==
  /\ node[a].pc \in {"claim", "bind"}
  /\ Goes(a, "ask")
  /\ UNCHANGED <<api, known, portal, cache, sent, poll, hit>>

\* The organizations are read, report_node is awaited, and the Node is listed.
Ask(a, orgs) ==
  /\ node[a].pc = "ask" /\ a \in Followed
  /\ node' = [node EXCEPT ![a] = Session("describe", None, None, orgs)]
  /\ UNCHANGED <<api, known, portal, cache, sent, poll, hit>>

List(a) ==
  /\ node[a].pc = "describe"
  /\ \E s \in State : node' = [node EXCEPT ![a] = Session("listed", None, s, node[a].orgs)]
  /\ UNCHANGED <<api, known, portal, cache, sent, poll, hit>>

\* An agent that is not followed leaves: its session could change nothing more here.
Leave(a) ==
  /\ node[a].pc = "ask" /\ a \notin Followed
  /\ node' = [node EXCEPT ![a] = Off]
  /\ UNCHANGED <<api, known, portal, cache, sent, poll, hit>>

Change(a) ==
  /\ node[a].pc = "listed"
  /\ \E s \in State \ {node[a].state} : node' = [node EXCEPT ![a].state = s]
  /\ UNCHANGED <<api, known, portal, cache, sent, poll, hit>>

----------------------------------------------------------------------------
(* Reports *)

UnderWay(a) == {m \in sent : m.agent = a}

\* A report leaves; it puts an earlier mishap right unless it may be overtaken itself.
Send(a, state, by, alive) ==
  /\ sent' = sent \cup {[agent |-> a, state |-> state, by |-> by]}
  /\ hit' = IF alive /\ UnderWay(a) = {} THEN hit \ {a} ELSE hit \cup {a}

\* A mutant of Forgotten: what was reported is remembered for ever.
MutForgotten(a) == cache[a]

\* The entry of _node_state once the node is gone.
Forgotten(a) == None

\* The session ends: the Node is taken off, and "offline" reported at once.  The poller
\* may still hold the Node, as it was.  (One such report at a time, to bound the model.)
Close(a) ==
  /\ node[a].pc = "listed"
  /\ \A m \in UnderWay(a) : m.by # "close"
  /\ node' = [node EXCEPT ![a] = Off]
  /\ cache' = [cache EXCEPT ![a] = Forgotten(a)]
  /\ Send(a, "offline", "close", TRUE)
  /\ poll' = [poll EXCEPT !.visit[a] = IF @ = "node" THEN node[a].state ELSE @]
  /\ UNCHANGED <<api, known, portal>>

\* The caller of a report goes on.
Return(m) == poll' = IF m.by = "poll" THEN [poll EXCEPT !.wait = None] ELSE poll

\* set_server_state: in API mode for a row of the gateway's organization.
Apply(m) ==
  LET mine == {r \in RowsOf(m.agent) : api => Home[r] = GatewayOrg} IN
  /\ m \in sent
  /\ sent' = sent \ {m}
  /\ shown' = [r \in Row |-> IF r \in mine THEN m.state ELSE shown[r]]
  /\ Return(m)
  /\ UNCHANGED <<api, known, row, shares, contested, node, cache, hit>>

Lose(m) ==
  /\ m \in sent
  /\ sent' = sent \ {m}
  /\ hit' = hit \cup {m.agent}
  /\ Return(m)
  /\ UNCHANGED <<api, known, portal, node, cache>>

\* The caller gives up on an HTTP request the portal will still serve.  (One at a time.)
TimeOut(m) ==
  /\ api /\ m \in sent /\ m.by # "late"
  /\ \A q \in UnderWay(m.agent) : q.by # "late"
  /\ sent' = (sent \ {m}) \cup {[m EXCEPT !.by = "late"]}
  /\ hit' = hit \cup {m.agent}
  /\ Return(m)
  /\ UNCHANGED <<api, known, portal, node, cache>>

----------------------------------------------------------------------------
(* The poller *)

\* A mutant of Due: a node is reported once.
MutDue(a, state) == cache[a] = None

\* Only a change is reported.
Due(a, state) == cache[a] # state

\* A mutant of Refreshed: a node serves the organizations it registered with.
MutRefreshed(a, orgs) == node

\* The Node's organizations as they are now.
Refreshed(a, orgs) == [node EXCEPT ![a].orgs = orgs]

\* A tick: the heartbeat, and a copy of the registry.
Tick(answered) ==
  /\ poll = Resting
  /\ known' = (known \/ (api /\ answered))
  /\ poll' = [poll EXCEPT !.visit = [a \in Followed |-> IF node[a].pc = "listed" THEN "node" ELSE "no"]]
  /\ UNCHANGED <<api, portal, node, cache, sent, hit>>

\* A Node's organizations are read, in a thread that is awaited.
Fetch(a, orgs) ==
  /\ poll.wait = None /\ poll.got = {} /\ poll.visit[a] # "no"
  /\ poll' = [poll EXCEPT !.got = {[agent |-> a, orgs |-> orgs]}]
  /\ UNCHANGED <<api, known, portal, node, cache, sent, hit>>

\* They are set on the Node, and its state is reported if it has changed.
Visit(g) ==
  LET a == g.agent
      alive == poll.visit[a] = "node"
      state == IF alive THEN node[a].state ELSE poll.visit[a]
  IN
  /\ g \in poll.got
  /\ node' = IF alive THEN Refreshed(a, g.orgs) ELSE node
  /\ poll' = [visit |-> [poll.visit EXCEPT ![a] = "no"], got |-> {}, wait |-> IF Due(a, state) THEN a ELSE None]
  /\ IF Due(a, state)
       THEN cache' = [cache EXCEPT ![a] = state] /\ Send(a, state, "poll", alive)
       ELSE UNCHANGED <<cache, sent, hit>>
  /\ UNCHANGED <<api, known, portal>>

\* The gateway stops and starts again: what it kept in memory is gone.
Restart ==
  /\ node' = [a \in Agent |-> Off]
  /\ cache' = [a \in Followed |-> None]
  /\ sent' = {}
  /\ poll' = Resting
  /\ known' = FALSE
  /\ hit' = hit \cup {a \in Followed : node[a].pc = "listed" \/ UnderWay(a) # {}}
  /\ UNCHANGED <<api, portal>>

----------------------------------------------------------------------------
(* Specification *)

Next ==
  \/ \E r \in Row : Make(r) \/ Delete(r) \/ Share(r)
  \/ \E a \in Agent :
       \/ Connect(a) \/ ClaimRead(a) \/ ClaimWrite(a) \/ ClaimCall(a) \/ ClaimFails(a)
       \/ \E orgs \in {Orgs(a), {}} : Ask(a, orgs)    \* {} if the call fails
       \/ List(a) \/ Leave(a) \/ Change(a) \/ Close(a)
  \/ \E m \in sent : Apply(m) \/ Lose(m) \/ TimeOut(m)
  \/ \E answered \in BOOLEAN : Tick(answered)
  \/ \E a \in Followed : \E orgs \in {Orgs(a), {}} : Fetch(a, orgs)
  \/ \E g \in poll.got : Visit(g)
  \/ Restart

Spec == Init /\ [][Next]_vars

\* The poller never rests for good, and not every one of its calls fails.
FairSpec ==
  /\ Spec
  /\ SF_vars(Tick(TRUE))
  /\ \A a \in Followed : SF_vars(Fetch(a, Orgs(a)))
  /\ WF_vars(\E g \in poll.got : Visit(g))
  /\ \A a \in Followed, s \in State :
       WF_vars(Apply([agent |-> a, state |-> s, by |-> "poll"]))

----------------------------------------------------------------------------
(* Properties *)

TypeOK ==
  /\ api \in BOOLEAN /\ known \in BOOLEAN
  /\ row \in [Row -> Agent \cup {"unmade", "open", "deleted"}]
  /\ shares \in [Row -> SUBSET Org]
  /\ shown \in [Row -> State \cup {"offline", None}]
  /\ node \in [Agent -> [pc : {"off", "claim", "bind", "ask", "describe", "listed"},
                         token : Row \cup {None}, state : State \cup {None}, orgs : SUBSET Org]]
  /\ cache \in [Followed -> State \cup {None}]
  /\ sent \subseteq [agent : Followed, state : State \cup {"offline"}, by : {"poll", "close", "late"}]
  /\ poll \in [visit : [Followed -> State \cup {"no", "node"}],
              got : SUBSET [agent : Followed, orgs : SUBSET Org],
              wait : Followed \cup {None}]
  /\ hit \subseteq Followed /\ contested \subseteq Row

\* A claim token is used once (db.py:541): a server goes over to another agent only where
\* two claims have read the same token before either was written, which the HTTP interface
\* rules out (db.py:546, portal_link.py:109, app.py:621).
ClaimedOnce ==
  [][\A r \in Row : row[r] \in Agent => row'[r] \in {row[r], "deleted"} \/ (~ api /\ r \in contested)]_vars

\* "Pushed on change and on disconnect, so the portal never has to guess"
\* (portal_link.py:169): once every report has arrived in its turn, the portal shows what
\* the gateway remembers to have reported, and a node that has gone as offline.
PortalAgrees ==
  \A r \in Row, a \in Followed :
    row[r] = a /\ UnderWay(a) = {} /\ a \notin hit =>
      IF node[a].pc = "listed" THEN cache[a] \in {None, shown[r]} ELSE shown[r] \in {None, "offline"}

\* The agent's session and its server are there for good.
Stays(a, r) == <>[](row[r] = a /\ node[a].pc = "listed")

\* A node that stays as it is is shown so in the end, whatever it was before, if its
\* reports are not lost or overtaken for ever (gateway.py:775, "only sends when it changes").
StateArrives ==
  \A r \in Row, a \in Followed :
    Stays(a, r) /\ <>[][node'[a].state = node[a].state]_vars /\ <>[](a \notin hit)
      => <>[](shown[r] = node[a].state)

\* A connected node comes to serve exactly the organizations its server is in, as the
\* comment at gateway.py:770 says, although every call may fail and then reads as none.
RoutingFollows ==
  \A r \in Row, a \in Followed :
    Stays(a, r) /\ <>[][Orgs(a)' = Orgs(a)]_vars => []<>(node[a].orgs = Orgs(a))
=============================================================================
