------------------------------ MODULE Keystore ------------------------------
(***************************************************************************)
(* The approved keys of the secure mode: the handshake of src/gateway.py,   *)
(* the key file of src/identity.py and the tool src/authctl.py that the     *)
(* administrator runs on it.                                                *)
(*                                                                         *)
(* The file is read whole and replaced whole.  A session reads it at HELLO, *)
(* awaits the answer to its challenge and may then write back the copy it   *)
(* read; the tool reads and writes in a process of its own.  Whatever       *)
(* happened to the file in between is overwritten.                          *)
(*                                                                         *)
(* A role belongs to a connection, not to a key: agent.py and client.py both *)
(* use ~/.aicn/identity.key unless told otherwise, so one key may come as a  *)
(* node and as a requester.                                                 *)
(***************************************************************************)
CONSTANTS
  Keys,
  Session,    \* places for connections that are open at the same time
  KeyOf,      \* session -> the key its peer holds
  Roles,      \* session -> the roles its peer may name, in HELLO and in REGISTER
  Tool,       \* runs of authctl.py that may overlap
  Faulty      \* a read of the file may fail, which is taken for an empty file

Role == {"node", "requester"}

ASSUME KeysAssumption == KeyOf \in [Session -> Keys]
ASSUME RolesAssumption == Roles \in [Session -> SUBSET Role]
ASSUME FaultyAssumption == Faulty \in BOOLEAN

VARIABLES
  file,       \* key -> its status in the file, "none" if it is not listed
  session,    \* session -> how far it is, the role it named last, its copy of the file
  tool,       \* run of the tool -> the key it changes and its copy of the file
  open,       \* --auto-approve-nodes
  stopped,    \* where an agent has given up because the gateway rejected it
  vouched,    \* history: the keys an administrator has ever approved
  enrolled    \* history: the keys proved by a peer that said it was a node, while open

vars == <<file, session, tool, open, stopped, vouched, enrolled>>

Status == {"none", "pending", "approved", "revoked"}

Empty == [k \in Keys |-> "none"]
Idle == [pc |-> "idle", role |-> "none", seen |-> Empty]
Unused == [key |-> "none", copy |-> Empty]

\* The file a deployment starts with holds nobody.
Init ==
  /\ file = Empty
  /\ session = [s \in Session |-> Idle]
  /\ tool = [t \in Tool |-> Unused]
  /\ open \in BOOLEAN
  /\ stopped = {}
  /\ vouched = {}
  /\ enrolled = {}

\* load_keystore, on a file that can be read.
Loaded == file

\* load_keystore: a file that cannot be read or parsed counts as empty.
Misread == IF Faulty THEN {Empty} ELSE {}

\* A mutant of Entered: a file of the one entry.
MutEntered(copy, k, status) == [Empty EXCEPT ![k] = status]

\* The copy with the entry of one key set.
Entered(copy, k, status) == [copy EXCEPT ![k] = status]

----------------------------------------------------------------------------
(* The handshake *)

\* A mutant of IsFinal: an agent gives up whatever the reason.
MutIsFinal(reason) == TRUE

\* The agent retries unless the reason says that its key is revoked.
IsFinal(reason) == reason = "revoked"

\* UNAUTHORIZED: the session is over, and an agent may stop for good.
Reject(s, role, reason) ==
  /\ session' = [session EXCEPT ![s] = Idle]
  /\ stopped' = IF role = "node" /\ IsFinal(reason) THEN stopped \cup {s} ELSE stopped

Advance(s, pc, role, copy) ==
  /\ session' = [session EXCEPT ![s] = [pc |-> pc, role |-> role, seen |-> copy]]
  /\ UNCHANGED stopped

\* HELLO: the file is read, and the key challenged unless it is revoked.
Greet(s, role, copy) ==
  /\ session[s].pc = "idle"
  /\ s \notin stopped
  /\ IF copy[KeyOf[s]] = "revoked"
       THEN Reject(s, role, "revoked")
       ELSE Advance(s, "challenged", role, copy)
  /\ UNCHANGED <<file, tool, open, vouched, enrolled>>

Hello(s) == \E role \in Roles[s] : Greet(s, role, Loaded)

HelloMisread(s) == \E role \in Roles[s], copy \in Misread : Greet(s, role, copy)

\* A mutant of Enrols: whoever proves a key is enrolled.
MutEnrols(role) == open

\* Open enrollment is for whoever says in HELLO that it is a node.
Enrols(role) == open /\ role = "node"

\* AUTH with a good signature: decided on the copy read at HELLO, which is written
\* back when the key is new or is enrolled.
Decide(s) ==
  LET k == KeyOf[s]
      role == session[s].role
      seen == session[s].seen
      was == seen[k]
      is == IF was \in {"none", "pending"}
              THEN IF Enrols(role) THEN "approved" ELSE "pending"
              ELSE was
  IN
  /\ session[s].pc = "challenged"
  /\ file' = IF was # is THEN Entered(seen, k, is) ELSE file
  /\ IF is = "approved" THEN Advance(s, "admitted", role, Empty) ELSE Reject(s, role, "pending")
  /\ enrolled' = IF open /\ role = "node" THEN enrolled \cup {k} ELSE enrolled
  /\ UNCHANGED <<tool, open, vouched>>

\* REGISTER: a session begins, of the role named in it; it is compared neither with the
\* role of HELLO nor with the entry, and the file is not read again.
Register(s) ==
  /\ session[s].pc = "admitted"
  /\ \E role \in Roles[s] : Advance(s, "served", role, Empty)
  /\ UNCHANGED <<file, tool, open, vouched, enrolled>>

\* The connection is lost, a recv times out, the signature is bad, a write of the file
\* fails, or the session has ended.
Drop(s) ==
  /\ session[s].pc # "idle"
  /\ session' = [session EXCEPT ![s] = Idle]
  /\ UNCHANGED <<file, tool, open, stopped, vouched, enrolled>>

\* The owner, or systemd, starts an agent that had stopped.
Restart(s) ==
  /\ s \in stopped
  /\ stopped' = stopped \ {s}
  /\ UNCHANGED <<file, session, tool, open, vouched, enrolled>>

----------------------------------------------------------------------------
(* The administrator's tool *)

\* approve and revoke look the key up in the copy and exit if it is not there.
Resolves(k, copy) == copy[k] # "none"

\* main: the copy is read and the entry of one key changed in it.
Take(t, copy) ==
  /\ tool[t] = Unused
  /\ \E k \in Keys, new \in {"pending", "approved", "revoked"} :
       /\ new = "revoked" => Resolves(k, copy)    \* add sets the other two for any key
       /\ tool' = [tool EXCEPT ![t] = [key |-> k, copy |-> Entered(copy, k, new)]]
  /\ UNCHANGED <<file, session, open, stopped, vouched, enrolled>>

Load(t) == Take(t, Loaded)

LoadMisread(t) == \E copy \in Misread : Take(t, copy)

Vouches(t) == tool[t].copy[tool[t].key] = "approved"

\* save_keystore: the whole copy.
Save(t) ==
  /\ tool[t] # Unused
  /\ file' = tool[t].copy
  /\ vouched' = IF Vouches(t) THEN vouched \cup {tool[t].key} ELSE vouched
  /\ tool' = [tool EXCEPT ![t] = Unused]
  /\ UNCHANGED <<session, open, stopped, enrolled>>

----------------------------------------------------------------------------
(* Specification *)

Next ==
  \/ \E s \in Session :
       Hello(s) \/ HelloMisread(s) \/ Decide(s) \/ Register(s) \/ Drop(s) \/ Restart(s)
  \/ \E t \in Tool : Load(t) \/ LoadMisread(t) \/ Save(t)

Spec == Init /\ [][Next]_vars

\* A peer tries again for ever, and not every connection is lost at the same point.
FairSpec ==
  Spec /\ \A s \in Session : SF_vars(Hello(s)) /\ SF_vars(Decide(s)) /\ SF_vars(Register(s))

----------------------------------------------------------------------------
(* Properties *)

TypeOK ==
  /\ file \in [Keys -> Status]
  /\ session \in [Session -> [pc : {"idle", "challenged", "admitted", "served"},
                              role : Role \cup {"none"},
                              seen : [Keys -> Status]]]
  /\ tool \in [Tool -> {Unused} \cup [key : Keys, copy : [Keys -> Status]]]
  /\ open \in BOOLEAN
  /\ stopped \subseteq Session
  /\ vouched \subseteq Keys
  /\ enrolled \subseteq Keys

\* Nobody is served but a key that an administrator has approved, or one that was proved
\* by a peer saying it was a node while enrollment is open (gateway.py:531): not through a
\* copy of the file, however old, nor through a file that could not be read.
ServedIsApproved ==
  \A s \in Session : session[s].pc \in {"admitted", "served"} => KeyOf[s] \in vouched \cup enrolled

\* "Requesters still need manual approval" under open enrollment (gateway.py:1088-1089,
\* 1137-1138): whoever is served as a requester has a key an administrator has approved.
\* The code violates it, as the entry a node's first contact makes serves both roles.
RequestersAreVouched ==
  \A s \in Session :
    session[s].pc = "served" /\ session[s].role = "requester" => KeyOf[s] \in vouched

\* A revocation has settled when nobody holds an older copy of the file any more and the
\* key has no session left.
Settled(k) ==
  /\ file[k] = "revoked"
  /\ \A s \in Session : session[s].pc = "challenged" => session[s].seen[k] = "revoked"
  /\ \A t \in Tool : tool[t] # Unused => tool[t].copy[k] = "revoked"
  /\ \A s \in Session : KeyOf[s] = k => session[s].pc = "idle"

\* "Revoke a bad node any time" (SELF_HOSTING.md:161): a revocation that has settled is
\* lifted by an administrator or by a read of the file that failed, and the key is not
\* served before; sessions and tools of other keys may write the file meanwhile.
SettledRevocationHolds ==
  [][\A k \in Keys : Settled(k) =>
       \/ Settled(k)'
       \/ \E s \in Session : HelloMisread(s)
       \/ \E t \in Tool : LoadMisread(t) \/ (Load(t) /\ tool'[t].key = k)]_vars

\* "in on their next reconnect (no gateway restart)" (authctl.py:13, README.md:517): a key
\* that is never revoked and stays approved gets in, whatever it was told before.
ApprovedGetsIn ==
  \A s \in Session :
    [](file[KeyOf[s]] # "revoked") =>
      ((file[KeyOf[s]] = "approved") ~> (session[s].pc = "served" \/ file[KeyOf[s]] # "approved"))
=============================================================================
