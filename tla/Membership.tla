----------------------------- MODULE Membership -----------------------------
(***************************************************************************)
(* The members of one organization in the portal: src/portal/app.py (invite *)
(* links, roles, removal, leaving) over src/portal/db.py.                  *)
(*                                                                         *)
(* A handler is a plain function that the web server runs in a pool of     *)
(* threads, and every call into db.py is a transaction of its own: between *)
(* what a handler reads and what it writes the handlers of other requests  *)
(* run.  A request is one step per call that reads or writes memberships   *)
(* or invites.  A denied request changes nothing and is not begun.         *)
(***************************************************************************)
EXTENDS FiniteSets, Naturals

CONSTANTS
  Users,
  Requests,   \* places for requests that run at the same time
  Tokens,     \* the invite links that can be made
  None        \* no user, token or role

ASSUME UsersAssumption == Users # {} /\ IsFiniteSet(Users) /\ None \notin Users

VARIABLES
  role,       \* memberships: user -> "admin", "member", or "none" for no row
  invite,     \* token -> "unused", the role it gives, or "revoked"
  req,        \* the requests being served
  overtaken   \* history: those begun before another's write to memberships

memberVars == <<role, invite, req, overtaken>>

ROLES == {"admin", "member"}
Asked == ROLES \cup {"other"}   \* what the form of a role may hold

Idle == [op |-> "none", target |-> None, arg |-> None, pc |-> "idle"]

MembersInit ==
  /\ \E founder \in Users : role = [u \in Users |-> IF u = founder THEN "admin" ELSE "none"]
  /\ invite = [t \in Tokens |-> "unused"]
  /\ req = [r \in Requests |-> Idle]
  /\ overtaken = {}

Admins == {u \in Users : role[u] = "admin"}

----------------------------------------------------------------------------
(* Who asks, and the first look at their membership *)

Serve(r, op, target, arg, pc) ==
  /\ req[r] = Idle
  /\ req' = [req EXCEPT ![r] = [op |-> op, target |-> target, arg |-> arg, pc |-> pc]]
  /\ UNCHANGED <<role, invite, overtaken>>

\* org_invite, org_invite_revoke, member_set_role, member_remove: by an admin.
AdminAsks(r) ==
  /\ Admins # {}
  /\ \/ \E asked \in Asked : Serve(r, "invite", None, asked, "write")
     \/ \E t \in Tokens : Serve(r, "revoke", None, t, "write")
     \/ \E u \in Users, asked \in Asked : Serve(r, "role", u, asked, "look")
     \/ \E u \in Users : Serve(r, "remove", u, None, "look")

\* org_leave: one's own membership is already read.
Leaves(r) ==
  \E u \in Users :
    /\ role[u] # "none"
    /\ Serve(r, "leave", u, None, IF role[u] = "admin" THEN "count" ELSE "write")

\* invite_accept: the link is good, and what it gives is read.
Accepts(r) ==
  \E u \in Users, t \in Tokens :
    /\ invite[t] \in ROLES
    /\ Serve(r, "accept", u, invite[t], "look")

----------------------------------------------------------------------------
(* Check *)

Done(r) == req' = [req EXCEPT ![r] = Idle] /\ overtaken' = overtaken \ {r}

Proceed(r, pc) == req' = [req EXCEPT ![r].pc = pc] /\ UNCHANGED overtaken

\* The request would take an admin's role away.
Demotes(r) == req[r].op = "remove" \/ req[r].arg # "admin"

\* get_membership of the one the request is about.
Look(r) ==
  LET seen == role[req[r].target] IN
  /\ req[r].pc = "look"
  /\ IF req[r].op = "accept"
       THEN IF seen = "none" THEN Proceed(r, "write") ELSE Done(r)
       ELSE IF seen = "none" \/ req[r].arg = "other"
              THEN Done(r)
              ELSE Proceed(r, IF seen = "admin" /\ Demotes(r) THEN "count" ELSE "write")
  /\ UNCHANGED <<role, invite>>

\* A mutant of Count: one admin is thought to be one to spare.
MutCount(r) ==
  /\ req[r].pc = "count"
  /\ IF Cardinality(Admins) <= 0 THEN Done(r) ELSE Proceed(r, "write")
  /\ UNCHANGED <<role, invite>>

\* count_admins: the last one stays.
Count(r) ==
  /\ req[r].pc = "count"
  /\ IF Cardinality(Admins) <= 1 THEN Done(r) ELSE Proceed(r, "write")
  /\ UNCHANGED <<role, invite>>

----------------------------------------------------------------------------
(* Write *)

Writes(r, ops) == req[r].pc = "write" /\ req[r].op \in ops

\* The row of the request's target becomes `new`; every other request is overtaken.
Put(r, new) ==
  /\ role' = [role EXCEPT ![req[r].target] = new]
  /\ req' = [req EXCEPT ![r] = Idle]
  /\ overtaken' = {q \in Requests \ {r} : q \in overtaken \/ (role' # role /\ req[q] # Idle)}
  /\ UNCHANGED invite

\* A mutant of SetRole: a row is made where there is none.
MutSetRole(r) == Writes(r, {"role"}) /\ Put(r, req[r].arg)

\* set_member_role: an UPDATE, which finds no row if the member is gone.
SetRole(r) ==
  /\ Writes(r, {"role"})
  /\ Put(r, IF role[req[r].target] = "none" THEN "none" ELSE req[r].arg)

\* remove_member
Remove(r) == Writes(r, {"remove", "leave"}) /\ Put(r, "none")

\* add_member: an INSERT, which fails if there is a row by now.
AddMember(r) ==
  /\ Writes(r, {"accept"})
  /\ Put(r, IF role[req[r].target] = "none" THEN req[r].arg ELSE role[req[r].target])

\* A role nobody knows is a member's.
Normal(asked) == IF asked \in ROLES THEN asked ELSE "member"

\* create_invite
CreateInvite(r) ==
  /\ Writes(r, {"invite"})
  /\ \E t \in Tokens :
       /\ invite[t] = "unused"
       /\ invite' = [invite EXCEPT ![t] = Normal(req[r].arg)]
  /\ Done(r)
  /\ UNCHANGED role

\* revoke_invite: an UPDATE, which may find no such token.
RevokeInvite(r) ==
  /\ Writes(r, {"revoke"})
  /\ invite' = [invite EXCEPT ![req[r].arg] = IF @ = "unused" THEN @ ELSE "revoked"]
  /\ Done(r)
  /\ UNCHANGED role

\* No link is left to make: the bound of the model, not the code.
OutOfTokens(r) ==
  /\ Writes(r, {"invite"})
  /\ \A t \in Tokens : invite[t] # "unused"
  /\ Done(r)
  /\ UNCHANGED <<role, invite>>

----------------------------------------------------------------------------
(* Specification *)

MembersNext ==
  \E r \in Requests :
    \/ AdminAsks(r) \/ Leaves(r) \/ Accepts(r)
    \/ Look(r) \/ Count(r)
    \/ SetRole(r) \/ Remove(r) \/ AddMember(r)
    \/ CreateInvite(r) \/ RevokeInvite(r) \/ OutOfTokens(r)

MembersSpec == MembersInit /\ [][MembersNext]_memberVars

----------------------------------------------------------------------------
(* Properties *)

\* Every variable has its type; an idle request is not overtaken.
MembersTypeOK ==
  /\ role \in [Users -> ROLES \cup {"none"}]
  /\ invite \in [Tokens -> ROLES \cup {"unused", "revoked"}]
  /\ req \in [Requests ->
       [op : {"none", "invite", "revoke", "role", "remove", "leave", "accept"},
        target : Users \cup {None}, arg : Asked \cup Tokens \cup {None},
        pc : {"idle", "look", "count", "write"}]]
  /\ overtaken \subseteq {r \in Requests : req[r] # Idle}

\* An organization loses its last admin only to a request whose reads another's
\* write has overtaken: by itself, every way of losing an admin is refused to the
\* last (app.py:445, 459, 470), whatever requests came before.
LastAdminLostInARaceOnly ==
  [][Admins # {} /\ Admins' = {} => \E r \in overtaken : req[r].pc = "write"]_memberVars

\* Nobody becomes a member but through a link of their own: a role given to a member
\* who was removed meanwhile does not bring the row back (db.py:395-398).
JoinsByInviteOnly ==
  [][\A u \in Users : role[u] = "none" /\ role'[u] # "none" =>
       \E r \in Requests : Writes(r, {"accept"}) /\ req[r].target = u /\ req'[r] = Idle]_memberVars

\* A link never changes the role of one who is a member already, not even when two
\* links are followed at once (app.py:431, db.py:374-375).
InviteKeepsRole ==
  [][\A r \in Requests : Writes(r, {"accept"}) /\ req'[r] = Idle =>
       \A u \in Users : role[u] # "none" => role'[u] = role[u]]_memberVars

\* A link lets its follower in and does nothing else, and nothing else lets anyone in.
InvitesOnlyAdmit == JoinsByInviteOnly /\ InviteKeepsRole
=============================================================================
