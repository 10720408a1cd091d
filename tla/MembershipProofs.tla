-------------------------- MODULE MembershipProofs --------------------------
(***************************************************************************)
(* Theorems about the memberships of src/portal, for any number of users,  *)
(* of requests at a time and of links.                                     *)
(***************************************************************************)
EXTENDS Membership, TLAPS, FiniteSetTheorems

----------------------------------------------------------------------------
(* Type correctness *)

\* What a request is about, by its operation and where it is.
Shape ==
  \A r \in Requests :
    /\ req[r].op \in {"role", "remove", "leave", "accept"} => req[r].target \in Users
    /\ req[r].op = "accept" => req[r].arg \in ROLES
    /\ req[r].op = "role" => req[r].arg \in Asked
    /\ req[r].op = "role" /\ req[r].pc # "look" => req[r].arg \in ROLES
    /\ req[r].op = "revoke" => req[r].arg \in Tokens
    /\ req[r].pc = "look" => req[r].op \in {"role", "remove", "accept"}

TypeInv == MembersTypeOK /\ Shape

\* Initially all is well typed.
LEMMA InitTyped == MembersInit => TypeInv
<1> SUFFICES ASSUME MembersInit PROVE TypeInv
  OBVIOUS
<1>1. PICK founder \in Users :
        role = [u \in Users |-> IF u = founder THEN "admin" ELSE "none"]
  BY DEF MembersInit
<1>2. role \in [Users -> ROLES \cup {"none"}]
  BY <1>1 DEF ROLES
<1> QED BY <1>2 DEF MembersInit, TypeInv, MembersTypeOK, Shape, Idle, Asked

\* Beginning a request of a known form keeps the types.
LEMMA BeginTyped ==
  ASSUME TypeInv, NEW r \in Requests, NEW op, NEW target, NEW arg, NEW pc,
         Serve(r, op, target, arg, pc),
         op \in {"invite", "revoke", "role", "remove", "leave", "accept"},
         target \in Users \cup {None}, arg \in Asked \cup Tokens \cup {None},
         pc \in {"look", "count", "write"},
         op \in {"role", "remove", "leave", "accept"} => target \in Users,
         op = "accept" => arg \in ROLES,
         op = "role" => pc = "look" /\ arg \in Asked,
         op = "revoke" => arg \in Tokens,
         pc = "look" => op \in {"role", "remove", "accept"}
  PROVE  TypeInv'
<1>1. MembersTypeOK'
  BY DEF TypeInv, MembersTypeOK, Serve, Idle
<1>2. Shape'
  BY DEF TypeInv, MembersTypeOK, Shape, Serve, Idle
<1> QED BY <1>1, <1>2 DEF TypeInv

\* Ending a request keeps the types.
LEMMA DoneTyped ==
  ASSUME TypeInv, NEW r \in Requests, Done(r), role' = role,
         invite' \in [Tokens -> ROLES \cup {"unused", "revoked"}]
  PROVE  TypeInv'
<1>1. MembersTypeOK'
  BY DEF TypeInv, MembersTypeOK, Done, Idle, Asked
<1>2. Shape'
  BY DEF TypeInv, MembersTypeOK, Shape, Done, Idle
<1> QED BY <1>1, <1>2 DEF TypeInv

\* So does going on from "look" or "count".
LEMMA ProceedTyped ==
  ASSUME TypeInv, NEW r \in Requests, NEW pc \in {"count", "write"}, Proceed(r, pc),
         req[r].pc \in {"look", "count"}, UNCHANGED <<role, invite>>,
         req[r].op = "role" => req[r].arg \in ROLES
  PROVE  TypeInv'
<1>1. MembersTypeOK'
  BY DEF TypeInv, MembersTypeOK, Proceed, Idle
<1>2. Shape'
  BY DEF TypeInv, MembersTypeOK, Shape, Proceed
<1> QED BY <1>1, <1>2 DEF TypeInv

\* And so does a write of a role.
LEMMA PutTyped ==
  ASSUME TypeInv, NEW r \in Requests, NEW new \in ROLES \cup {"none"}, Put(r, new)
  PROVE  TypeInv'
<1>1. role' \in [Users -> ROLES \cup {"none"}]
  BY DEF TypeInv, MembersTypeOK, Put
<1>2. MembersTypeOK'
  <2>1. req' = [req EXCEPT ![r] = Idle] /\ UNCHANGED invite
    BY DEF Put
  <2>2. overtaken' \subseteq {q \in Requests : req'[q] # Idle}
    BY <2>1 DEF Put, TypeInv, MembersTypeOK
  <2> QED BY <1>1, <2>1, <2>2 DEF TypeInv, MembersTypeOK, Idle, Asked
<1>3. Shape'
  BY DEF TypeInv, MembersTypeOK, Shape, Put, Idle
<1> QED BY <1>2, <1>3 DEF TypeInv

\* Every step keeps the types.
LEMMA NextTyped == TypeInv /\ [MembersNext]_memberVars => TypeInv'
<1> SUFFICES ASSUME TypeInv, [MembersNext]_memberVars PROVE TypeInv'
  OBVIOUS
<1>1. CASE UNCHANGED memberVars
  BY <1>1 DEF memberVars, TypeInv, MembersTypeOK, Shape
<1>2. ASSUME NEW r \in Requests, AdminAsks(r) PROVE TypeInv'
  <2>1. CASE \E asked \in Asked : Serve(r, "invite", None, asked, "write")
    BY <2>1, BeginTyped
  <2>2. CASE \E t \in Tokens : Serve(r, "revoke", None, t, "write")
    BY <2>2, BeginTyped
  <2>3. CASE \E u \in Users, asked \in Asked : Serve(r, "role", u, asked, "look")
    BY <2>3, BeginTyped
  <2>4. CASE \E u \in Users : Serve(r, "remove", u, None, "look")
    BY <2>4, BeginTyped
  <2> QED BY <1>2, <2>1, <2>2, <2>3, <2>4 DEF AdminAsks
<1>3. ASSUME NEW r \in Requests, Leaves(r) PROVE TypeInv'
  <2>1. PICK u \in Users : Serve(r, "leave", u, None, IF role[u] = "admin" THEN "count" ELSE "write")
    BY <1>3 DEF Leaves
  <2> QED BY <2>1, BeginTyped
<1>4. ASSUME NEW r \in Requests, Accepts(r) PROVE TypeInv'
  <2>1. PICK u \in Users, t \in Tokens : invite[t] \in ROLES /\ Serve(r, "accept", u, invite[t], "look")
    BY <1>4 DEF Accepts
  <2>2. invite[t] \in Asked
    BY <2>1 DEF Asked
  <2> QED BY <2>1, <2>2, BeginTyped
<1>5. ASSUME NEW r \in Requests, Look(r) PROVE TypeInv'
  <2>1. CASE Done(r)
    BY <1>5, <2>1, DoneTyped DEF Look, TypeInv, MembersTypeOK
  <2>2. ASSUME NEW pc \in {"count", "write"}, Proceed(r, pc),
               req[r].op # "accept" => req[r].arg # "other"
        PROVE  TypeInv'
    <3>1. req[r].op = "role" => req[r].arg \in ROLES
      BY <2>2 DEF TypeInv, Shape, Asked
    <3>2. req[r].pc = "look" /\ UNCHANGED <<role, invite>>
      BY <1>5 DEF Look
    <3> QED BY <2>2, <3>1, <3>2, ProceedTyped
  <2> QED BY <1>5, <2>1, <2>2 DEF Look
<1>6. ASSUME NEW r \in Requests, Count(r) PROVE TypeInv'
  BY <1>6, DoneTyped, ProceedTyped DEF Count, TypeInv, MembersTypeOK, Shape
<1>7. ASSUME NEW r \in Requests, SetRole(r) PROVE TypeInv'
  BY <1>7, PutTyped DEF SetRole, Writes, TypeInv, Shape
<1>8. ASSUME NEW r \in Requests, Remove(r) PROVE TypeInv'
  BY <1>8, PutTyped DEF Remove
<1>9. ASSUME NEW r \in Requests, AddMember(r) PROVE TypeInv'
  BY <1>9, PutTyped DEF AddMember, Writes, TypeInv, MembersTypeOK, Shape
<1>10. ASSUME NEW r \in Requests, CreateInvite(r) PROVE TypeInv'
  <2>1. \A asked : Normal(asked) \in ROLES
    BY DEF Normal, ROLES
  <2> QED BY <1>10, <2>1, DoneTyped DEF CreateInvite, TypeInv, MembersTypeOK
<1>11. ASSUME NEW r \in Requests, RevokeInvite(r) PROVE TypeInv'
  BY <1>11, DoneTyped DEF RevokeInvite, TypeInv, MembersTypeOK
<1>12. ASSUME NEW r \in Requests, OutOfTokens(r) PROVE TypeInv'
  BY <1>12, DoneTyped DEF OutOfTokens, TypeInv, MembersTypeOK
<1> QED BY <1>1, <1>2, <1>3, <1>4, <1>5, <1>6, <1>7, <1>8, <1>9, <1>10, <1>11, <1>12 DEF MembersNext

LEMMA SpecTyped == MembersSpec => []TypeInv
  BY InitTyped, NextTyped, PTL DEF MembersSpec

\* Every reachable state has the declared types, and no idle request is overtaken.
THEOREM TypeCorrect == MembersSpec => []MembersTypeOK
<1>1. TypeInv => MembersTypeOK
  BY DEF TypeInv
<1> QED BY <1>1, SpecTyped, PTL

----------------------------------------------------------------------------
(* How a step changes a role *)

\* A role changes only where a request writes it.
LEMMA RoleChanges ==
  ASSUME TypeInv, MembersNext, role' # role
  PROVE  \E r \in Requests : SetRole(r) \/ Remove(r) \/ AddMember(r)
BY DEF MembersNext, AdminAsks, Leaves, Accepts, Serve, Look, Count, CreateInvite, RevokeInvite, OutOfTokens

\* Only AddMember makes a row, and it changes no other.
LEMMA WriteEffects ==
  ASSUME TypeInv, NEW r \in Requests, NEW u \in Users
  PROVE  /\ SetRole(r) \/ Remove(r) => (role[u] = "none" => role'[u] = "none")
         /\ AddMember(r) => (role[u] # "none" => role'[u] = role[u])
         /\ SetRole(r) \/ Remove(r) \/ AddMember(r) =>
              req'[r] = Idle /\ (u # req[r].target => role'[u] = role[u])
BY DEF TypeInv, MembersTypeOK, Shape, SetRole, Remove, AddMember, Put, Writes

\* Nobody becomes a member but through a link (db.py:374-375, 395-398).
THEOREM JoinsByInvite == MembersSpec => JoinsByInviteOnly
<1> DEFINE Joins == \A u \in Users : role[u] = "none" /\ role'[u] # "none" =>
             \E r \in Requests : Writes(r, {"accept"}) /\ req[r].target = u /\ req'[r] = Idle
<1>1. TypeInv /\ [MembersNext]_memberVars => [Joins]_memberVars
  <2> SUFFICES ASSUME TypeInv, MembersNext, NEW u \in Users, role[u] = "none", role'[u] # "none"
               PROVE  \E r \in Requests :
                        Writes(r, {"accept"}) /\ req[r].target = u /\ req'[r] = Idle
    BY DEF memberVars
  <2>1. PICK r \in Requests : SetRole(r) \/ Remove(r) \/ AddMember(r)
    BY RoleChanges
  <2>2. AddMember(r) /\ req[r].target = u /\ req'[r] = Idle
    BY <2>1, WriteEffects
  <2> QED BY <2>2 DEF AddMember
<1> QED BY <1>1, SpecTyped, PTL DEF MembersSpec, JoinsByInviteOnly

\* A step of another request leaves this one where it is.
LEMMA OthersStay ==
  ASSUME TypeInv, NEW q \in Requests, NEW r \in Requests, q # r,
         \/ AdminAsks(q) \/ Leaves(q) \/ Accepts(q)
         \/ Look(q) \/ Count(q)
         \/ SetRole(q) \/ Remove(q) \/ AddMember(q)
         \/ CreateInvite(q) \/ RevokeInvite(q) \/ OutOfTokens(q)
  PROVE  req'[r] = req[r]
BY DEF TypeInv, MembersTypeOK, AdminAsks, Leaves, Accepts, Serve, Look, Count, Done, Proceed,
       SetRole, Remove, AddMember, Put, CreateInvite, RevokeInvite, OutOfTokens

\* A link never changes the role of one who is a member already (app.py:431).
THEOREM InviteKeeps == MembersSpec => InviteKeepsRole
<1> DEFINE Keeps == \A r \in Requests : Writes(r, {"accept"}) /\ req'[r] = Idle =>
                      \A u \in Users : role[u] # "none" => role'[u] = role[u]
<1>1. TypeInv /\ [MembersNext]_memberVars => [Keeps]_memberVars
  <2> SUFFICES ASSUME TypeInv, MembersNext, NEW r \in Requests, Writes(r, {"accept"}), req'[r] = Idle,
                      NEW u \in Users, role[u] # "none", role' # role
               PROVE  role'[u] = role[u]
    BY DEF memberVars
  <2>1. PICK q \in Requests : SetRole(q) \/ Remove(q) \/ AddMember(q)
    BY RoleChanges
  <2>2. q = r
    <3> SUFFICES ASSUME q # r PROVE FALSE
      OBVIOUS
    <3>1. req'[r] = req[r]
      BY <2>1, OthersStay
    <3> QED BY <3>1 DEF Writes, Idle
  <2>3. AddMember(r)
    BY <2>1, <2>2 DEF SetRole, Remove, Writes
  <2> QED BY <2>3, WriteEffects
<1> QED BY <1>1, SpecTyped, PTL DEF MembersSpec, InviteKeepsRole

\* The two together: links only let people in, and only links do.
THEOREM InvitesAdmit == MembersSpec => InvitesOnlyAdmit
BY JoinsByInvite, InviteKeeps DEF InvitesOnlyAdmit

----------------------------------------------------------------------------
(* The last admin *)

\* The request is about to take the role of an admin.
AboutToDemote(r) ==
  /\ req[r].pc = "write"
  /\ req[r].op \in {"remove", "leave"} \/ (req[r].op = "role" /\ req[r].arg # "admin")
  /\ role[req[r].target] = "admin"

\* What the handlers' count is for: while nobody else writes, one admin is to spare.
OneToSpare == \A r \in Requests \ overtaken : AboutToDemote(r) => Cardinality(Admins) > 1

\* With an admin to spare there is one besides any user.
LEMMA AnotherAdmin ==
  ASSUME NEW u, Cardinality(Admins) > 1
  PROVE  \E a \in Admins : a # u
<1> SUFFICES ASSUME Admins \subseteq {u} PROVE FALSE
  OBVIOUS
<1>1. IsFiniteSet({u}) /\ Cardinality({u}) = 1
  BY FS_Singleton
<1>2. IsFiniteSet(Admins) /\ Cardinality(Admins) \in Nat /\ Cardinality(Admins) <= 1
  BY <1>1, FS_Subset, FS_CardinalityType
<1> QED BY <1>2

\* A step that writes no role keeps OneToSpare if it makes nobody about to demote.
LEMMA QuietKeeps ==
  ASSUME OneToSpare, role' = role,
         \A q \in Requests \ overtaken' :
           AboutToDemote(q)' => (q \notin overtaken /\ AboutToDemote(q)) \/ Cardinality(Admins) > 1
  PROVE  OneToSpare'
<1>1. Admins' = Admins
  BY DEF Admins
<1> QED BY <1>1 DEF OneToSpare

\* Every step keeps OneToSpare: Count reads what the write relies on, and another's
\* write in between makes the request one that was overtaken.
LEMMA SpareKept == TypeInv /\ OneToSpare /\ [MembersNext]_memberVars => OneToSpare'
<1> SUFFICES ASSUME TypeInv, OneToSpare, [MembersNext]_memberVars PROVE OneToSpare'
  OBVIOUS
<1>1. CASE UNCHANGED memberVars
  BY <1>1 DEF memberVars, OneToSpare, AboutToDemote, Admins
<1>2. ASSUME NEW r \in Requests, AdminAsks(r) \/ Leaves(r) \/ Accepts(r) PROVE OneToSpare'
  <2>1. role' = role /\ overtaken' = overtaken /\ ~ AboutToDemote(r)'
    BY <1>2 DEF TypeInv, MembersTypeOK, AdminAsks, Leaves, Accepts, Serve, AboutToDemote
  <2>2. \A q \in Requests \ {r} : req'[q] = req[q]
    BY <1>2, OthersStay
  <2> QED BY <2>1, <2>2, QuietKeeps DEF AboutToDemote
<1>3. ASSUME NEW r \in Requests, Look(r) \/ Count(r) PROVE OneToSpare'
  <2>1. role' = role /\ overtaken \ {r} \subseteq overtaken'
    BY <1>3 DEF Look, Count, Done, Proceed
  <2>2. \A q \in Requests \ {r} : req'[q] = req[q]
    BY <1>3, OthersStay
  <2>3. AboutToDemote(r)' => Cardinality(Admins) > 1
    <3>1. CASE Done(r)
      BY <3>1 DEF TypeInv, MembersTypeOK, Done, Idle, AboutToDemote
    <3>2. CASE Look(r) /\ ~ Done(r)
      BY <3>2 DEF TypeInv, MembersTypeOK, Shape, Look, Proceed, Demotes, AboutToDemote
    <3>3. CASE Count(r) /\ ~ Done(r)
      <4>1. ~ (Cardinality(Admins) <= 1)
        BY <3>3 DEF Count
      <4>2. Cardinality(Admins) \in Nat
        <5>1. Admins \subseteq Users
          BY DEF Admins
        <5> QED BY <5>1, UsersAssumption, FS_Subset, FS_CardinalityType
      <4> QED BY <4>1, <4>2
    <3> QED BY <1>3, <3>1, <3>2, <3>3
  <2> QED BY <2>1, <2>2, <2>3, QuietKeeps DEF AboutToDemote
<1>4. ASSUME NEW r \in Requests, CreateInvite(r) \/ RevokeInvite(r) \/ OutOfTokens(r)
      PROVE OneToSpare'
  <2>1. role' = role /\ overtaken' = overtaken \ {r} /\ req'[r] = Idle
    BY <1>4 DEF TypeInv, MembersTypeOK, CreateInvite, RevokeInvite, OutOfTokens, Done
  <2>2. \A q \in Requests \ {r} : req'[q] = req[q]
    BY <1>4, OthersStay
  <2> QED BY <2>1, <2>2, QuietKeeps DEF AboutToDemote, Idle
<1>5. ASSUME NEW r \in Requests, NEW new, Put(r, new) PROVE OneToSpare'
  <2>1. req'[r] = Idle /\ \A q \in Requests \ {r} : req'[q] = req[q]
    BY <1>5 DEF TypeInv, MembersTypeOK, Put
  <2>2. CASE role' = role
    <3>1. overtaken \ {r} \subseteq overtaken'
      BY <1>5 DEF Put, TypeInv, MembersTypeOK
    <3> QED BY <2>1, <2>2, <3>1, QuietKeeps DEF AboutToDemote, Idle
  <2>3. CASE role' # role
    <3>1. \A q \in Requests \ overtaken' : req'[q] = Idle
      BY <1>5, <2>1, <2>3 DEF Put
    <3> QED BY <3>1 DEF OneToSpare, AboutToDemote, Idle
  <2> QED BY <2>2, <2>3
<1>6. ASSUME NEW r \in Requests, SetRole(r) \/ Remove(r) \/ AddMember(r) PROVE OneToSpare'
  BY <1>5, <1>6 DEF SetRole, Remove, AddMember
<1> QED BY <1>1, <1>2, <1>3, <1>4, <1>6 DEF MembersNext

\* The last admin is lost only to a request another's write has overtaken.
THEOREM LastAdmin == MembersSpec => LastAdminLostInARaceOnly
<1> DEFINE Raced == Admins # {} /\ Admins' = {} => \E r \in overtaken : req[r].pc = "write"
<1>1. MembersInit => OneToSpare
  BY DEF MembersInit, OneToSpare, AboutToDemote, Idle
<1>2. TypeInv /\ OneToSpare /\ [MembersNext]_memberVars => [Raced]_memberVars
  <2> SUFFICES ASSUME TypeInv, OneToSpare, MembersNext, Admins # {}, Admins' = {}
               PROVE  \E r \in overtaken : req[r].pc = "write"
    BY DEF memberVars
  <2>1. role' # role
    BY DEF Admins
  <2>2. PICK r \in Requests : SetRole(r) \/ Remove(r) \/ AddMember(r)
    BY <2>1, RoleChanges
  <2>3. \A u \in Users \ {req[r].target} : role'[u] = role[u]
    BY <2>2, WriteEffects
  <2>4. Admins = {req[r].target}
    BY <2>3 DEF Admins
  <2>5. AboutToDemote(r)
    BY <2>2, <2>4 DEF TypeInv, MembersTypeOK, Shape, SetRole, Remove, AddMember, Put, Writes,
                      Admins, AboutToDemote
  <2>6. r \in overtaken
    BY <2>4, <2>5, AnotherAdmin DEF OneToSpare
  <2> QED BY <2>5, <2>6 DEF AboutToDemote
<1> QED BY <1>1, <1>2, SpareKept, SpecTyped, PTL DEF MembersSpec, LastAdminLostInARaceOnly
=============================================================================
