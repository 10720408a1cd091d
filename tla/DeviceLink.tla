----------------------------- MODULE DeviceLink -----------------------------
(***************************************************************************)
(* Where gateway and agents meet: what the gateway may rely on of a device *)
(* and a device of the gateway, without queue, channels or tasks.  A       *)
(* device that is up is offered jobs while it lends itself, one at a time  *)
(* and each job once; it answers for the job it has, once, or is lost with *)
(* it.  Gateway and Agent both implement this specification (their         *)
(* property ImplementsLink): Gateway takes from its agents only what Agent *)
(* does, and the other way round.                                          *)
(***************************************************************************)

CONSTANTS Peer, Job

VARIABLES
  up,         \* the devices whose messages the gateway reads
  available,  \* those of them that lend themselves, as far as it knows
  held,       \* the jobs each of them has and has not answered for
  given       \* the jobs each device has been given, on any connection

vars == <<up, available, held, given>>

Init ==
  /\ up = {}
  /\ available = {}
  /\ held = [p \in Peer |-> {}]
  /\ given = [p \in Peer |-> {}]

Register(p) ==
  /\ p \notin up
  /\ up' = up \cup {p}
  /\ available' \in {available, available \cup {p}}
  /\ UNCHANGED <<held, given>>

Report(p) ==
  /\ p \in up
  /\ available' \in {available \ {p}, available \cup {p}}
  /\ UNCHANGED <<up, held, given>>

Assign(p, j) ==
  /\ p \in available /\ held[p] = {}
  /\ j \notin given[p]
  /\ held' = [held EXCEPT ![p] = {j}]
  /\ given' = [given EXCEPT ![p] = @ \cup {j}]
  /\ UNCHANGED <<up, available>>

\* The connection is gone, and the gateway has not noticed.
AssignInVain(p, j) ==
  /\ j \notin given[p]
  /\ given' = [given EXCEPT ![p] = @ \cup {j}]
  /\ UNCHANGED <<up, available, held>>

\* One that gives its job back as evicted does not lend itself for now.
Answer(p) ==
  /\ p \in up /\ held[p] # {}
  /\ held' = [held EXCEPT ![p] = {}]
  /\ available' \in {available, available \ {p}}
  /\ UNCHANGED <<up, given>>

Lose(p) ==
  /\ p \in up
  /\ up' = up \ {p}
  /\ available' = available \ {p}
  /\ held' = [held EXCEPT ![p] = {}]
  /\ UNCHANGED given

Next ==
  \E p \in Peer :
    \/ Register(p) \/ Report(p) \/ Answer(p) \/ Lose(p)
    \/ \E j \in Job : Assign(p, j) \/ AssignInVain(p, j)

Spec == Init /\ [][Next]_vars
=============================================================================
