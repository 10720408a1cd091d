--------------------------- MODULE KeystoreProofs ---------------------------
(***************************************************************************)
(* Theorems about the approved keys, for any keys, any number of sessions   *)
(* at a time and any number of tools running at once.                      *)
(***************************************************************************)
EXTENDS Keystore, TLAPS

Copies == [Keys -> Status]

\* The states of a session.
Places == [pc : {"idle", "challenged", "admitted", "served"}, role : Role \cup {"none"}, seen : Copies]

----------------------------------------------------------------------------
(* Type correctness *)

\* What a read of the file may return is a file, and so is a copy with one entry set.
LEMMA ReadsTyped ==
  ASSUME TypeOK
  PROVE  /\ Loaded \in Copies
         /\ Misread \subseteq Copies
         /\ Empty \in Copies
         /\ \A copy \in Copies, k \in Keys, status \in Status : Entered(copy, k, status) \in Copies
BY DEF TypeOK, Loaded, Misread, Empty, Entered, Copies, Status

\* The steps of a session that end in a rejection or go on keep the type of sessions.
LEMMA MovesTyped ==
  ASSUME TypeOK, NEW s \in Session, NEW copy \in Copies,
         NEW pc \in {"challenged", "admitted", "served"}, NEW role \in Role \cup {"none"},
         NEW reason, Reject(s, role, reason) \/ Advance(s, pc, role, copy)
  PROVE  /\ session' \in [Session -> Places]
         /\ stopped' \subseteq Session
<1>1. CASE Reject(s, role, reason)
  <2>1. Idle \in Places
    BY ReadsTyped DEF Idle, Places
  <2>2. session' = [session EXCEPT ![s] = Idle] /\ stopped' \subseteq stopped \cup {s}
    BY <1>1 DEF Reject
  <2>3. session \in [Session -> Places] /\ stopped \subseteq Session
    BY DEF TypeOK, Places, Copies
  <2> QED BY <2>1, <2>2, <2>3
<1>2. CASE Advance(s, pc, role, copy)
  <2>1. [pc |-> pc, role |-> role, seen |-> copy] \in Places
    BY DEF Places
  <2>2. session' = [session EXCEPT ![s] = [pc |-> pc, role |-> role, seen |-> copy]]
        /\ stopped' = stopped
    BY <1>2 DEF Advance
  <2>3. session \in [Session -> Places] /\ stopped \subseteq Session
    BY DEF TypeOK, Places, Copies
  <2> QED BY <2>1, <2>2, <2>3
<1> QED BY <1>1, <1>2

\* Every reachable state of the key file and its users has the declared types.
LEMMA StepTyped == TypeOK /\ [Next]_vars => TypeOK'
<1> SUFFICES ASSUME TypeOK, [Next]_vars PROVE TypeOK'
  OBVIOUS
<1> USE ReadsTyped
<1>1. CASE UNCHANGED vars
  BY <1>1 DEF vars, TypeOK
<1>2. ASSUME NEW s \in Session, NEW role \in Roles[s], NEW copy \in Copies, Greet(s, role, copy)
      PROVE  TypeOK'
  <2>1. Reject(s, role, "revoked") \/ Advance(s, "challenged", role, copy)
    BY <1>2 DEF Greet
  <2>2. role \in Role
    BY RolesAssumption
  <2>3. session' \in [Session -> Places] /\ stopped' \subseteq Session
    BY <2>1, <2>2, MovesTyped
  <2> QED BY <1>2, <2>3 DEF Greet, TypeOK, Places, Copies
<1>3. ASSUME NEW s \in Session, Hello(s) \/ HelloMisread(s) PROVE TypeOK'
  BY <1>2, <1>3 DEF Hello, HelloMisread
<1>4. ASSUME NEW s \in Session, Decide(s) PROVE TypeOK'
  <2> DEFINE role == session[s].role
  <2>1. Reject(s, role, "pending") \/ Advance(s, "admitted", role, Empty)
    BY <1>4 DEF Decide
  <2>2. session[s].seen \in Copies /\ KeyOf[s] \in Keys /\ role \in Role \cup {"none"}
    BY KeysAssumption DEF TypeOK, Copies
  <2>3. file' \in Copies
    <3>1. file \in Copies /\ session[s].seen[KeyOf[s]] \in Status
      BY <2>2 DEF TypeOK, Copies
    <3> QED BY <1>4, <2>2, <3>1 DEF Decide, Status
  <2>4. session' \in [Session -> Places] /\ stopped' \subseteq Session
    <3> HIDE DEF role
    <3> QED BY <2>1, <2>2, MovesTyped
  <2>5. enrolled' \subseteq Keys /\ UNCHANGED <<tool, open, vouched>>
    BY <1>4, <2>2 DEF Decide, TypeOK
  <2> QED BY <2>3, <2>4, <2>5 DEF TypeOK, Places, Copies
<1>5. ASSUME NEW s \in Session, Register(s) PROVE TypeOK'
  <2>1. PICK role \in Role : Advance(s, "served", role, Empty)
    BY <1>5, RolesAssumption DEF Register
  <2>2. session' \in [Session -> Places] /\ stopped' \subseteq Session
    BY <2>1, MovesTyped
  <2> QED BY <1>5, <2>2 DEF Register, TypeOK, Places, Copies
<1>6. ASSUME NEW s \in Session, Drop(s) PROVE TypeOK'
  BY <1>6 DEF Drop, Idle, TypeOK, Copies
<1>7. ASSUME NEW s \in Session, Restart(s) PROVE TypeOK'
  BY <1>7 DEF Restart, TypeOK
<1>8. ASSUME NEW t \in Tool, NEW copy \in Copies, Take(t, copy) PROVE TypeOK'
  <2>1. PICK k \in Keys, new \in Status :
          tool' = [tool EXCEPT ![t] = [key |-> k, copy |-> Entered(copy, k, new)]]
    BY <1>8 DEF Take, Status
  <2>2. tool' \in [Tool -> {Unused} \cup [key : Keys, copy : Copies]]
    BY <2>1 DEF TypeOK, Copies
  <2> QED BY <1>8, <2>2 DEF Take, TypeOK, Copies
<1>9. ASSUME NEW t \in Tool, Load(t) \/ LoadMisread(t) PROVE TypeOK'
  BY <1>8, <1>9 DEF Load, LoadMisread
<1>10. ASSUME NEW t \in Tool, Save(t) PROVE TypeOK'
  <2>1. file' \in Copies /\ tool' \in [Tool -> {Unused} \cup [key : Keys, copy : Copies]]
    BY <1>10 DEF Save, Unused, TypeOK, Copies
  <2>2. vouched' \subseteq Keys
    <3>1. tool[t].key \in Keys
      BY <1>10 DEF Save, Vouches, TypeOK
    <3> QED BY <1>10, <3>1 DEF Save, TypeOK
  <2> QED BY <1>10, <2>1, <2>2 DEF Save, TypeOK, Copies
<1> QED BY <1>1, <1>3, <1>4, <1>5, <1>6, <1>7, <1>9, <1>10 DEF Next

\* The key file, the copies of it and the histories always have their types.
THEOREM TypeCorrect == Spec => []TypeOK
<1>1. Init => TypeOK
  BY DEF Init, TypeOK, Empty, Idle, Unused, Status
<1> QED BY <1>1, StepTyped, PTL DEF Spec

----------------------------------------------------------------------------
(* Who is served *)

\* An administrator has approved the key, or it was proved by a peer that said it was a
\* node, under open enrollment.
Entitled(k) == k \in vouched \cup enrolled

\* The copy approves no key that is not entitled.
Honest(copy) == \A k \in Keys : copy[k] = "approved" => Entitled(k)

\* Every copy of the file is honest, but for the entry a tool is about to vouch for.
HonestCopies ==
  /\ Honest(file)
  /\ \A s \in Session : Honest(session[s].seen)
  /\ \A t \in Tool, k \in Keys :
       tool[t].copy[k] = "approved" => Entitled(k) \/ (tool[t] # Unused /\ k = tool[t].key)

ServedInv == TypeOK /\ HonestCopies /\ ServedIsApproved

\* An entitled key stays entitled.
LEMMA EntitledStays ==
  ASSUME [Next]_vars, NEW k, Entitled(k)
  PROVE  Entitled(k)'
<1>1. enrolled \subseteq enrolled' /\ vouched \subseteq vouched'
  <2>1. ASSUME NEW s \in Session, Hello(s) \/ HelloMisread(s) \/ Decide(s) \/ Register(s) \/ Drop(s)
        PROVE  enrolled \subseteq enrolled' /\ vouched' = vouched
    BY <2>1 DEF Hello, HelloMisread, Greet, Decide, Register, Drop
  <2>2. ASSUME NEW s \in Session, Restart(s) PROVE enrolled' = enrolled /\ vouched' = vouched
    BY <2>2 DEF Restart
  <2>3. ASSUME NEW t \in Tool, Load(t) \/ LoadMisread(t) \/ Save(t)
        PROVE  enrolled' = enrolled /\ vouched \subseteq vouched'
    BY <2>3 DEF Load, LoadMisread, Take, Save
  <2> QED BY <2>1, <2>2, <2>3 DEF Next, vars
<1> QED BY <1>1 DEF Entitled

\* What a read returns is honest, and an honest copy stays so with an entry set that
\* is not an approval or is one of an entitled key.
LEMMA ReadsHonest ==
  ASSUME TypeOK, HonestCopies
  PROVE  /\ Honest(Loaded)
         /\ Honest(Empty)
         /\ \A copy \in Misread : Honest(copy)
BY DEF HonestCopies, Honest, Loaded, Misread, Empty

\* Honesty is kept by a step that leaves a copy alone.
LEMMA HonestStays ==
  ASSUME [Next]_vars, NEW copy, Honest(copy)
  PROVE  \A k \in Keys : copy[k] = "approved" => Entitled(k)'
BY EntitledStays DEF Honest

\* A step that gives a session an honest copy, leaves an honest file and has nothing to
\* do with the tools keeps the invariant.
LEMMA SessionStep ==
  ASSUME ServedInv, [Next]_vars, TypeOK', NEW s \in Session, NEW copy \in Copies, Honest(copy),
         NEW pc \in {"idle", "challenged", "admitted", "served"}, NEW role,
         session' = [session EXCEPT ![s] = [pc |-> pc, role |-> role, seen |-> copy]],
         pc \in {"admitted", "served"} => Entitled(KeyOf[s])',
         Honest(file)', tool' = tool
  PROVE  ServedInv'
<1>1. session'[s] = [pc |-> pc, role |-> role, seen |-> copy] /\ \A q \in Session \ {s} : session'[q] = session[q]
  BY DEF ServedInv, TypeOK
<1>2. \A q \in Session : Honest(session'[q].seen)
  BY <1>1 DEF ServedInv, HonestCopies
<1>3. HonestCopies'
  <2>1. \A q \in Session : Honest(session[q].seen)'
    BY <1>2, HonestStays DEF ServedInv, HonestCopies, Honest
  <2> QED BY <2>1, EntitledStays DEF ServedInv, HonestCopies
<1>4. ServedIsApproved'
  <2>1. \A q \in Session \ {s} : session'[q].pc \in {"admitted", "served"} => Entitled(KeyOf[q])
    BY <1>1 DEF ServedInv, ServedIsApproved, Entitled
  <2>2. \A q \in Session : session'[q].pc \in {"admitted", "served"} => Entitled(KeyOf[q])'
    BY <1>1, <2>1, EntitledStays
  <2> QED BY <2>2 DEF ServedIsApproved, Entitled
<1> QED BY <1>3, <1>4 DEF ServedInv

\* The file stays honest where nobody writes it.
LEMMA FileStays ==
  ASSUME ServedInv, [Next]_vars, file' = file
  PROVE  Honest(file)'
BY EntitledStays DEF ServedInv, HonestCopies, Honest

\* A step of a session keeps the invariant.
LEMMA SessionServed ==
  ASSUME ServedInv, [Next]_vars, TypeOK', NEW s \in Session,
         Hello(s) \/ HelloMisread(s) \/ Decide(s) \/ Register(s) \/ Drop(s)
  PROVE  ServedInv'
<1> USE ReadsTyped, ReadsHonest DEF ServedInv
<1>1. ASSUME Idle = [pc |-> "idle", role |-> "none", seen |-> Empty],
             NEW role, NEW copy \in Copies, Honest(copy), Greet(s, role, copy)
      PROVE  ServedInv'
  <2>1. file' = file /\ tool' = tool
    BY <1>1 DEF Greet
  <2>2. CASE Reject(s, role, "revoked")
    BY <1>1, <2>1, <2>2, FileStays, SessionStep DEF Reject
  <2>3. CASE Advance(s, "challenged", role, copy)
    BY <1>1, <2>1, <2>3, FileStays, SessionStep DEF Advance
  <2> QED BY <1>1, <2>2, <2>3 DEF Greet
<1>2. CASE Hello(s) \/ HelloMisread(s)
  BY <1>1, <1>2 DEF Hello, HelloMisread, Idle
<1>3. CASE Decide(s)
  <2> DEFINE k == KeyOf[s]
             role == session[s].role
             seen == session[s].seen
             is == IF seen[k] \in {"none", "pending"}
                     THEN IF Enrols(role) THEN "approved" ELSE "pending"
                     ELSE seen[k]
  <2>1. k \in Keys /\ seen \in Copies /\ Honest(seen) /\ seen[k] \in Status
    BY KeysAssumption DEF TypeOK, Copies, HonestCopies
  <2>2. is = "approved" => Entitled(k)'
    <3>1. Enrols(role) => Entitled(k)'
      BY <1>3 DEF Decide, Enrols, Entitled
    <3>2. seen[k] = "approved" => Entitled(k)'
      BY <2>1, EntitledStays DEF Honest
    <3> QED BY <3>1, <3>2
  <2>3. file' = IF seen[k] # is THEN Entered(seen, k, is) ELSE file
    BY <1>3 DEF Decide
  <2>4. Honest(file)'
    <3> HIDE DEF is
    <3>1. CASE seen[k] = is
      BY <2>3, <3>1, FileStays
    <3>2. CASE seen[k] # is
      <4>1. \A x \in Keys : file'[x] = IF x = k THEN is ELSE seen[x]
        BY <2>1, <2>3, <3>2 DEF Entered, Copies
      <4>2. \A x \in Keys : file'[x] = "approved" => Entitled(x)'
        BY <2>1, <2>2, <4>1, EntitledStays DEF Honest
      <4> QED BY <4>2 DEF Honest
    <3> QED BY <3>1, <3>2
  <2>5. tool' = tool
    BY <1>3 DEF Decide
  <2>6. CASE is = "approved"
    <3>1. Advance(s, "admitted", role, Empty)
      BY <1>3, <2>6 DEF Decide
    <3> HIDE DEF is, role
    <3>2. session' = [session EXCEPT ![s] = [pc |-> "admitted", role |-> role, seen |-> Empty]]
      BY <3>1 DEF Advance
    <3> QED BY <2>2, <2>4, <2>5, <2>6, <3>2, SessionStep
  <2>7. CASE is # "approved"
    <3>1. Reject(s, role, "pending")
      BY <1>3, <2>7 DEF Decide
    <3>2. session' = [session EXCEPT ![s] = [pc |-> "idle", role |-> "none", seen |-> Empty]]
      BY <3>1 DEF Reject, Idle
    <3> QED BY <2>4, <2>5, <3>2, SessionStep
  <2> QED BY <2>6, <2>7
<1>4. CASE Register(s)
  <2>1. PICK role : session' = [session EXCEPT ![s] = [pc |-> "served", role |-> role, seen |-> Empty]]
    BY <1>4 DEF Register, Advance
  <2>2. Entitled(KeyOf[s])'
    BY <1>4, EntitledStays DEF Register, ServedIsApproved, Entitled
  <2>3. file' = file /\ tool' = tool
    BY <1>4 DEF Register
  <2> QED BY <2>1, <2>2, <2>3, FileStays, SessionStep
<1>5. CASE Drop(s)
  <2>1. session' = [session EXCEPT ![s] = [pc |-> "idle", role |-> "none", seen |-> Empty]]
    BY <1>5 DEF Drop, Idle
  <2>2. file' = file /\ tool' = tool
    BY <1>5 DEF Drop
  <2> QED BY <2>1, <2>2, FileStays, SessionStep
<1> QED BY <1>2, <1>3, <1>4, <1>5

\* A step that leaves the sessions alone keeps those that are served entitled.
LEMMA SessionsStay ==
  ASSUME ServedInv, [Next]_vars, session' = session
  PROVE  ServedIsApproved' /\ \A s \in Session : Honest(session[s].seen)'
<1>1. \A s \in Session : session[s].pc \in {"admitted", "served"} => Entitled(KeyOf[s])'
  BY EntitledStays DEF ServedInv, ServedIsApproved, Entitled
<1>2. \A s \in Session : Honest(session[s].seen)'
  BY EntitledStays DEF ServedInv, HonestCopies, Honest
<1> QED BY <1>1, <1>2 DEF ServedIsApproved, Entitled

\* A step of a tool keeps the invariant.
LEMMA ToolServed ==
  ASSUME ServedInv, [Next]_vars, TypeOK', NEW t \in Tool,
         Load(t) \/ LoadMisread(t) \/ Save(t)
  PROVE  ServedInv'
<1> USE ReadsTyped, ReadsHonest DEF ServedInv
<1>1. ASSUME NEW copy \in Copies, Honest(copy), Take(t, copy) PROVE ServedInv'
  <2>1. PICK k \in Keys, new \in Status :
          tool' = [tool EXCEPT ![t] = [key |-> k, copy |-> Entered(copy, k, new)]]
    BY <1>1 DEF Take, Status
  <2>2. session' = session /\ file' = file
    BY <1>1 DEF Take
  <2>3. tool'[t].key = k /\ \A x \in Keys \ {k} : tool'[t].copy[x] = copy[x]
    BY <1>1, <2>1 DEF TypeOK, Entered, Copies
  <2>4. tool'[t] # Unused \/ \A x \in Keys : tool'[t].copy[x] # "approved"
    BY DEF Unused, Empty
  <2>5. \A x \in Keys : tool'[t].copy[x] = "approved" =>
          Entitled(x)' \/ (tool'[t] # Unused /\ x = tool'[t].key)
    BY <1>1, <2>3, <2>4, EntitledStays DEF Honest
  <2>6. \A r \in Tool \ {t} : tool'[r] = tool[r]
    BY <2>1 DEF TypeOK
  <2>7. \A r \in Tool, x \in Keys : tool'[r].copy[x] = "approved" =>
          Entitled(x)' \/ (tool'[r] # Unused /\ x = tool'[r].key)
    BY <2>5, <2>6, EntitledStays DEF HonestCopies
  <2> QED BY <2>2, <2>7, FileStays, SessionsStay DEF HonestCopies
<1>2. CASE Load(t) \/ LoadMisread(t)
  BY <1>1, <1>2 DEF Load, LoadMisread
<1>3. CASE Save(t)
  <2>1. session' = session /\ file' = tool[t].copy /\ tool' = [tool EXCEPT ![t] = Unused]
    BY <1>3 DEF Save
  <2>2. ASSUME NEW x, x = tool[t].key, tool[t].copy[x] = "approved" PROVE Entitled(x)'
    BY <1>3, <2>2 DEF Save, Vouches, Entitled
  <2>3. Honest(file)'
    <3>1. \A x \in Keys : tool[t].copy[x] = "approved" => Entitled(x)'
      BY <2>2, EntitledStays DEF HonestCopies
    <3> QED BY <2>1, <3>1 DEF Honest
  <2>4. tool'[t] = Unused /\ \A r \in Tool \ {t} : tool'[r] = tool[r]
    BY <2>1 DEF TypeOK
  <2>5. \A r \in Tool, x \in Keys : tool'[r].copy[x] = "approved" =>
          Entitled(x)' \/ (tool'[r] # Unused /\ x = tool'[r].key)
    BY <2>4, EntitledStays DEF HonestCopies, Unused, Empty
  <2> QED BY <2>1, <2>3, <2>5, SessionsStay DEF HonestCopies
<1> QED BY <1>2, <1>3

\* Nobody is served but a key an administrator has approved, or one that was proved by a
\* peer saying it was a node, under open enrollment: through no copy of the file, however
\* old.  (In which role it is then served is another matter: RequestersAreVouched.)
THEOREM OnlyApproved == Spec => []ServedIsApproved
<1>1. Init => ServedInv
  <2>1. Init => TypeOK
    BY DEF Init, TypeOK, Empty, Idle, Unused, Status
  <2>2. Init => HonestCopies /\ ServedIsApproved
    BY DEF Init, HonestCopies, Honest, ServedIsApproved, Empty, Idle, Unused
  <2> QED BY <2>1, <2>2 DEF ServedInv
<1>2. ServedInv /\ [Next]_vars => ServedInv'
  <2> SUFFICES ASSUME ServedInv, [Next]_vars PROVE ServedInv'
    OBVIOUS
  <2>1. TypeOK'
    BY StepTyped DEF ServedInv
  <2>2. CASE UNCHANGED <<file, session, tool>>
    BY <2>1, <2>2, FileStays, SessionsStay, EntitledStays DEF ServedInv, HonestCopies
  <2>3. ASSUME NEW s \in Session, Restart(s) PROVE UNCHANGED <<file, session, tool>>
    BY <2>3 DEF Restart
  <2> QED BY <2>1, <2>2, <2>3, SessionServed, ToolServed DEF Next, vars
<1>3. ServedInv => ServedIsApproved
  BY DEF ServedInv
<1> QED BY <1>1, <1>2, <1>3, PTL DEF Spec

----------------------------------------------------------------------------
(* Revocation *)

\* What may lift a settled revocation of a key.
Lifts(k) ==
  \/ \E s \in Session : HelloMisread(s)
  \/ \E t \in Tool : LoadMisread(t) \/ (Load(t) /\ tool'[t].key = k)

\* A session cannot lift a settled revocation.
LEMMA SessionKeepsSettled ==
  ASSUME TypeOK, NEW k \in Keys, Settled(k), NEW s \in Session,
         Hello(s) \/ Decide(s) \/ Register(s) \/ Drop(s)
  PROVE  Settled(k)'
<1>1. CASE Hello(s)
  <2>1. KeyOf[s] = k => session' = [session EXCEPT ![s] = Idle]
    BY <1>1 DEF Hello, Greet, Loaded, Reject, Settled
  <2>2. \/ session' = [session EXCEPT ![s] = Idle]
        \/ \E role : session' = [session EXCEPT ![s] = [pc |-> "challenged", role |-> role, seen |-> file]]
    BY <1>1 DEF Hello, Greet, Loaded, Reject, Advance
  <2>3. UNCHANGED <<file, tool>>
    BY <1>1 DEF Hello, Greet
  <2>4. \A q \in Session \ {s} : session'[q] = session[q]
    BY <2>2 DEF TypeOK
  <2>5. session'[s].pc = "challenged" => session'[s].seen[k] = "revoked"
    BY <2>2 DEF TypeOK, Idle, Settled
  <2>6. KeyOf[s] = k => session'[s].pc = "idle"
    BY <2>1 DEF TypeOK, Idle
  <2> QED BY <2>3, <2>4, <2>5, <2>6 DEF Settled
<1>2. CASE Decide(s)
  <2>1. KeyOf[s] # k /\ session[s].seen[k] = "revoked"
    BY <1>2 DEF Decide, Settled
  <2>2. file'[k] = "revoked"
    <3>1. file' = file \/ \E is : file' = Entered(session[s].seen, KeyOf[s], is)
      BY <1>2 DEF Decide
    <3>2. session[s].seen \in Copies
      BY DEF TypeOK, Copies
    <3> QED BY <2>1, <3>1, <3>2 DEF Settled, Entered, Copies
  <2>3. \/ session' = [session EXCEPT ![s] = Idle]
        \/ \E role : session' = [session EXCEPT ![s] = [pc |-> "admitted", role |-> role, seen |-> Empty]]
    <3>1. \E role : Reject(s, role, "pending") \/ Advance(s, "admitted", role, Empty)
      BY <1>2 DEF Decide
    <3> QED BY <3>1 DEF Reject, Advance
  <2>4. tool' = tool
    BY <1>2 DEF Decide
  <2>5. session'[s].pc # "challenged" /\ \A q \in Session \ {s} : session'[q] = session[q]
    BY <2>3 DEF TypeOK, Idle
  <2> QED BY <2>1, <2>2, <2>4, <2>5 DEF Settled
<1>3. CASE Register(s)
  BY <1>3 DEF Register, Advance, Settled, TypeOK
<1>4. CASE Drop(s)
  BY <1>4 DEF Drop, Settled, TypeOK, Idle
<1> QED BY <1>1, <1>2, <1>3, <1>4

\* A tool can, if it is told to change that key.
LEMMA ToolKeepsSettled ==
  ASSUME TypeOK, NEW k \in Keys, Settled(k), NEW t \in Tool,
         Save(t) \/ (Load(t) /\ tool'[t].key # k)
  PROVE  Settled(k)'
<1>1. CASE Save(t)
  BY <1>1 DEF Save, Settled, TypeOK, Unused
<1>2. CASE Load(t) /\ tool'[t].key # k
  <2>1. PICK x \in Keys, new \in Status :
          tool' = [tool EXCEPT ![t] = [key |-> x, copy |-> Entered(file, x, new)]]
    BY <1>2 DEF Load, Take, Loaded, Status
  <2>2. tool'[t].key = x /\ tool'[t].copy = Entered(file, x, new)
        /\ \A r \in Tool \ {t} : tool'[r] = tool[r]
    BY <2>1 DEF TypeOK
  <2>3. tool'[t].copy[k] = "revoked"
    BY <1>2, <2>2 DEF Entered, Settled, TypeOK
  <2>4. UNCHANGED <<file, session>>
    BY <1>2 DEF Load, Take
  <2> QED BY <2>2, <2>3, <2>4 DEF Settled
<1> QED BY <1>1, <1>2

\* A revocation that has settled is lifted by an administrator or by a read that failed.
THEOREM RevocationHolds == Spec => SettledRevocationHolds
<1> DEFINE Holds ==
      \A k \in Keys : Settled(k) =>
        \/ Settled(k)'
        \/ \E s \in Session : HelloMisread(s)
        \/ \E t \in Tool : LoadMisread(t) \/ (Load(t) /\ tool'[t].key = k)
<1>1. TypeOK /\ [Next]_vars => [Holds]_vars
  <2> SUFFICES ASSUME TypeOK, Next, NEW k \in Keys, Settled(k), ~ Lifts(k) PROVE Settled(k)'
    BY DEF vars, Lifts
  <2>1. ASSUME NEW s \in Session, Restart(s) PROVE Settled(k)'
    BY <2>1 DEF Restart, Settled
  <2> QED BY <2>1, SessionKeepsSettled, ToolKeepsSettled DEF Next, Lifts
<1> QED BY <1>1, TypeCorrect, PTL DEF Spec, SettledRevocationHolds
=============================================================================
