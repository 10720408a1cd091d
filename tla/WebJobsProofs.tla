---------------------------- MODULE WebJobsProofs ----------------------------
(***************************************************************************)
(* Theorems about browser jobs, for any number of rows, jobs, faults and    *)
(* restarts and any limit of the query: what the portal shows has happened, *)
(* a row is run again only if a fault hit it, and a result stays.           *)
(***************************************************************************)
EXTENDS WebJobs, TLAPS, FiniteSetTheorems

Going == {"queued", "running"}

----------------------------------------------------------------------------
(* What the poller knows *)

\* A call tells of its job what was so when it was made, and an end stays true.
CallTrue(c) ==
  /\ c.row \in Row /\ c.job \in GwJob /\ c.row = web[c.job]
  /\ c.status \in Going \cup Ended
  /\ c.status = "done" => job[c.job] = "done"
  /\ c.status = "failed" =>
       job[c.job] = "failed" \/ (job[c.job] = "done" /\ c.job \notin stored)

\* A gateway job is made for a row, and is tracked until its end has been sent.
JobsTracked ==
  /\ \A g \in GwJob : job[g] = "none" => web[g] = None
  /\ \A g \in stored \cup webMap : web[g] \in Row
  /\ \A g \in stored : job[g] \in Going \cup Ended
  /\ \A g \in webMap : g \in stored \/ job[g] \in Ended

\* Where the poller is, and the call it waits for.  A job that is being picked up
\* has not been submitted yet.
PollerAt ==
  /\ pc \in {"sleep", "pick"} => call = NoCall
  /\ pc \in {"mark", "submit"} =>
       call # NoCall /\ call.status = "queued" /\ job[call.job] = "queued"
  /\ pc # "sync" => todo = {}
  /\ call # NoCall => CallTrue(call) /\ call.job \notin todo

\* A call is late only where a fault or a restart has been counted.
LateCalls == \A c \in late : CallTrue(c) /\ blame[c.row] > 0

Blamed == \A w \in Row : blame[w] <= faults + crashes

PollInv == TypeOK /\ JobsTracked /\ PollerAt /\ LateCalls /\ Blamed

\* A row that may still be picked up: it is in the batch, or waits and the call that
\* marks it is not under way.
Due(w) ==
  \/ w \in batch
  \/ row[w] \in {"absent", "pending"} /\ ~ (pc = "mark" /\ call.row = w)

\* The jobs a row has had, with the one it may still get, are one more than what hit it.
PickUpsLeft ==
  \A w \in Row : Cardinality(JobsOf(w)) + (IF Due(w) THEN 1 ELSE 0) <= 1 + blame[w]

\* The job of a row that shows its end is no longer tracked, unless a fault hit it.
Settled ==
  \A w \in Row : row[w] \in Ended /\ blame[w] = 0 => \A g \in webMap : web[g] # w

\* A call of the poller is not NoCall, whose row is not a number.
LEMMA CallIsReal ==
  \A w \in Row : \A st, g : [row |-> w, status |-> st, job |-> g] # NoCall
<1> SUFFICES ASSUME NEW w \in Row, NEW st, NEW g, [row |-> w, status |-> st, job |-> g] = NoCall
             PROVE  FALSE
  OBVIOUS
<1>1. w = None
  BY DEF NoCall
<1> QED BY <1>1, NoneAssumption, BoundsAssumption DEF Row

LEMMA NoneIsNoRow == None \notin Row /\ None \notin GwJob
BY NoneAssumption, BoundsAssumption DEF Row, GwJob

LEMMA PollInitInv == Init => PollInv /\ PickUpsLeft /\ Settled /\ RowIsTrue
<1> SUFFICES ASSUME Init PROVE PollInv /\ PickUpsLeft /\ Settled /\ RowIsTrue
  OBVIOUS
<1>1. \A w \in Row : JobsOf(w) = {}
  BY NoneIsNoRow DEF Init, JobsOf
<1>2. PickUpsLeft
  BY <1>1, FS_EmptySet DEF Init, PickUpsLeft
<1>3. TypeOK
  <2>1. 0 \in 0 .. MaxFaults + MaxCrashes /\ 0 \in 0 .. MaxFaults /\ 0 \in 0 .. MaxCrashes
    BY BoundsAssumption
  <2> QED BY <2>1 DEF Init, TypeOK
<1>4. JobsTracked /\ PollerAt /\ LateCalls /\ Blamed
  BY DEF Init, JobsTracked, PollerAt, LateCalls, Blamed
<1> QED BY <1>2, <1>3, <1>4 DEF Init, PollInv, Settled, RowIsTrue, Ended

\* What a call says stays true while no job leaves its end, changes its row or comes
\* back into the store.
LEMMA CallStaysTrue ==
  ASSUME NEW c, CallTrue(c), web'[c.job] = web[c.job],
         job[c.job] \in Ended => job'[c.job] = job[c.job],
         c.job \notin stored => c.job \notin stored'
  PROVE  CallTrue(c)'
BY DEF CallTrue, Ended

----------------------------------------------------------------------------
(* The steps keep what the poller knows *)

\* A step that changes nothing but jobs of the store, which are not being picked up.
LEMMA JobStep ==
  ASSUME PollInv, NEW g \in GwJob, JobStarts(g) \/ JobEnds(g) \/ Forget(g)
  PROVE  PollInv'
<1>1. /\ UNCHANGED <<row, web, webMap, pc, batch, todo, call, late, blame, faults, crashes>>
      /\ stored' \subseteq stored /\ g \in stored
  BY DEF JobStarts, JobEnds, Forget, Submitted, pollVars, bounds
<1>2. /\ job' \in [GwJob -> {"none", "queued", "running", "lost"} \cup Ended]
      /\ \A h \in GwJob : h # g => job'[h] = job[h]
      /\ job[g] \in Going \cup Ended /\ job'[g] \in Going \cup Ended
      /\ job[g] \in Ended => job'[g] = job[g]
  BY DEF PollInv, TypeOK, JobsTracked, JobStarts, JobEnds, Forget, Submitted, Ended, Going
<1>3. TypeOK'
  BY <1>1, <1>2 DEF PollInv, TypeOK
<1>4. JobsTracked'
  <2>1. \A h \in GwJob : job'[h] = "none" => web'[h] = None
    BY <1>1, <1>2 DEF PollInv, JobsTracked, Ended, Going
  <2>2. \A h \in stored' \cup webMap' : web'[h] \in Row
    BY <1>1 DEF PollInv, JobsTracked
  <2>3. \A h \in stored' : job'[h] \in Going \cup Ended
    BY <1>1, <1>2 DEF PollInv, JobsTracked, TypeOK
  <2>4. ASSUME NEW h \in webMap' PROVE h \in stored' \/ job'[h] \in Ended
    <3>1. CASE Forget(g)
      BY <1>1, <3>1 DEF PollInv, JobsTracked, Forget
    <3>2. CASE stored' = stored
      BY <1>1, <1>2, <3>2 DEF PollInv, JobsTracked, TypeOK
    <3> QED BY <3>1, <3>2 DEF JobStarts, JobEnds
  <2> QED BY <2>1, <2>2, <2>3, <2>4 DEF JobsTracked
<1>5. ASSUME NEW c, CallTrue(c) PROVE CallTrue(c)'
  <2>1. c.job \in GwJob
    BY <1>5 DEF CallTrue
  <2> QED BY <1>1, <1>2, <1>5, <2>1, CallStaysTrue
<1>6. pc \in {"mark", "submit"} => call.job # g
  <2>1. CASE Forget(g)
    BY <2>1 DEF Forget, PollInv, PollerAt, Ended
  <2>2. CASE JobStarts(g) \/ JobEnds(g)
    BY <2>2 DEF JobStarts, JobEnds, Submitted
  <2> QED BY <2>1, <2>2
<1>7. PollerAt'
  <2>1. pc \in {"mark", "submit"} => call.job \in GwJob
    BY DEF PollInv, PollerAt, CallTrue
  <2> QED BY <1>1, <1>2, <1>5, <1>6, <2>1 DEF PollInv, PollerAt
<1>8. LateCalls' /\ Blamed'
  BY <1>1, <1>5 DEF PollInv, LateCalls, Blamed
<1> QED BY <1>3, <1>4, <1>7, <1>8 DEF PollInv

\* The portal's own steps.
LEMMA PortalStep ==
  ASSUME PollInv, BrowserSubmits \/ LateCall
  PROVE  PollInv'
<1>1. /\ UNCHANGED <<job, web, stored, webMap, pc, batch, todo, call, blame, faults, crashes>>
      /\ late' \subseteq late
  BY DEF BrowserSubmits, LateCall, pollVars, bounds
<1>2. row' \in [Row -> {"absent", "pending", "queued", "running"} \cup Ended]
  <2>1. CASE BrowserSubmits
    BY <2>1 DEF BrowserSubmits, PollInv, TypeOK
  <2>2. CASE LateCall
    <3>1. PICK c \in late : row' = [row EXCEPT ![c.row] = c.status]
      BY <2>2 DEF LateCall, Apply
    <3>2. c.status \in {"queued", "running"} \cup Ended
      BY DEF PollInv, LateCalls, CallTrue, Going
    <3> QED BY <3>1, <3>2 DEF PollInv, TypeOK
  <2> QED BY <2>1, <2>2
<1>3. TypeOK'
  BY <1>1, <1>2 DEF PollInv, TypeOK
<1>4. \A c : CallTrue(c)' <=> CallTrue(c)
  BY <1>1 DEF CallTrue
<1>5. JobsTracked' /\ PollerAt' /\ LateCalls' /\ Blamed'
  BY <1>1, <1>4 DEF PollInv, JobsTracked, PollerAt, LateCalls, Blamed
<1> QED BY <1>3, <1>5 DEF PollInv

\* Between its calls: the rows are fetched, the job that was marked is submitted, the
\* tracked jobs are listed, the tick ends.
LEMMA BetweenCalls ==
  ASSUME PollInv, Fetch \/ SubmitJob \/ StartSync \/ SyncEnds
  PROVE  PollInv'
<1>1. /\ UNCHANGED <<row, web, stored, webMap, late, blame, crashes>>
      /\ todo' \subseteq webMap /\ batch' \subseteq Row
      /\ pc' \in {"sleep", "pick", "sync"} /\ call' = NoCall
      /\ pc' # "sync" => todo' = {}
  BY DEF Fetch, SubmitJob, StartSync, SyncEnds, bounds, Oldest, Pending, PollInv, TypeOK, PollerAt
<1>2. faults' \in 0 .. MaxFaults /\ faults' >= faults
  BY BoundsAssumption DEF Fetch, SubmitJob, StartSync, SyncEnds, bounds, PollInv, TypeOK
<1>3. \/ job' = job
      \/ /\ pc = "submit" /\ job[call.job] = "queued" /\ call.job \in GwJob
         /\ \E s \in {"queued", "running", "failed"} : job' = [job EXCEPT ![call.job] = s]
  BY DEF Fetch, SubmitJob, StartSync, SyncEnds, PollInv, PollerAt, CallTrue
<1>4. /\ job' \in [GwJob -> {"none", "queued", "running", "lost"} \cup Ended]
      /\ \A g \in GwJob : /\ job[g] # "queued" => job'[g] = job[g]
                          /\ job[g] = "queued" => job'[g] \in Going \cup {"failed"}
  BY <1>3 DEF PollInv, TypeOK, Going, Ended
<1>5. TypeOK'
  BY <1>1, <1>2, <1>4 DEF PollInv, TypeOK
<1>6. JobsTracked'
  BY <1>1, <1>4 DEF PollInv, TypeOK, JobsTracked, Going, Ended
<1>7. ASSUME NEW c, CallTrue(c) PROVE CallTrue(c)'
  <2>1. c.job \in GwJob
    BY <1>7 DEF CallTrue
  <2> QED BY <1>1, <1>4, <1>7, <2>1, CallStaysTrue DEF Ended
<1>8. PollerAt'
  BY <1>1 DEF PollerAt
<1>9. LateCalls' /\ Blamed'
  <2>1. faults \in Nat /\ crashes \in Nat /\ faults' \in Nat /\ \A w \in Row : blame[w] \in Nat
    BY <1>2, BoundsAssumption DEF PollInv, TypeOK
  <2> QED BY <1>1, <1>2, <1>7, <2>1 DEF PollInv, LateCalls, Blamed
<1> QED BY <1>5, <1>6, <1>8, <1>9 DEF PollInv

LEMMA PickUpStep ==
  ASSUME PollInv, PickUp
  PROVE  PollInv'
<1>1. PICK w \in Row, g \in GwJob :
        /\ IsFirst(w, batch) /\ job[g] = "none"
        /\ job' = [job EXCEPT ![g] = "queued"]
        /\ web' = [web EXCEPT ![g] = w]
        /\ stored' = stored \cup {g}
        /\ webMap' = webMap \cup {g}
        /\ call' = [row |-> w, status |-> "queued", job |-> g]
        /\ batch' = batch \ {w}
  BY DEF PickUp
<1>2. /\ UNCHANGED <<row, todo, late, blame, faults, crashes>>
      /\ pc = "pick" /\ pc' = "mark" /\ todo = {}
  BY DEF PickUp, bounds, PollInv, PollerAt
<1>3. /\ job'[g] = "queued" /\ web'[g] = w /\ web[g] = None
      /\ \A h \in GwJob : h # g => job'[h] = job[h] /\ web'[h] = web[h]
  BY <1>1 DEF PollInv, TypeOK, JobsTracked
<1>4. call' # NoCall /\ call'.row = w /\ call'.job = g /\ call'.status = "queued"
  BY <1>1, CallIsReal
<1>5. TypeOK'
  <2>1. job' \in [GwJob -> {"none", "queued", "running", "lost"} \cup Ended]
    BY <1>1 DEF PollInv, TypeOK
  <2>2. web' \in [GwJob -> Row \cup {None}]
    BY <1>1 DEF PollInv, TypeOK
  <2>3. call'.row = web'[call'.job] /\ call'.job \in webMap'
    BY <1>1, <1>3, <1>4
  <2>4. batch' \subseteq Row /\ todo' \subseteq webMap'
    BY <1>1, <1>2 DEF PollInv, TypeOK
  <2> QED BY <1>1, <1>2, <2>1, <2>2, <2>3, <2>4 DEF PollInv, TypeOK
<1>6. JobsTracked'
  BY <1>1, <1>2, <1>3, NoneIsNoRow DEF PollInv, TypeOK, JobsTracked, Going
<1>7. ASSUME NEW c, CallTrue(c) PROVE CallTrue(c)'
  <2>1. c.job \in GwJob /\ c.job # g
    BY <1>3, <1>7, NoneIsNoRow DEF CallTrue
  <2> QED BY <1>1, <1>3, <1>7, <2>1, CallStaysTrue
<1>8. PollerAt'
  <2>1. CallTrue(call)'
    BY <1>1, <1>3, <1>4 DEF CallTrue, Going
  <2> QED BY <1>2, <1>3, <1>4, <2>1 DEF PollerAt
<1>9. LateCalls' /\ Blamed'
  BY <1>2, <1>7 DEF PollInv, LateCalls, Blamed
<1> QED BY <1>5, <1>6, <1>8, <1>9 DEF PollInv

LEMMA SyncStep ==
  ASSUME PollInv, SyncNext
  PROVE  PollInv'
<1>1. PICK g \in GwJob :
        /\ IsFirst(g, todo)
        /\ call' = [row |-> web[g], job |-> g,
                    status |-> IF g \notin stored THEN "failed" ELSE job[g]]
        /\ todo' = todo \ {g}
  BY DEF SyncNext
<1>2. UNCHANGED <<row, job, web, stored, webMap, pc, batch, late, blame, faults, crashes>> /\ pc = "sync"
  BY DEF SyncNext, bounds
<1>3. g \in todo /\ g \in webMap /\ web[g] \in Row
  BY <1>1 DEF IsFirst, PollInv, TypeOK, JobsTracked
<1>4. /\ call'.row = web[g] /\ call'.job = g
      /\ call'.status = IF g \notin stored THEN "failed" ELSE job[g]
  BY <1>1
<1>5. TypeOK'
  BY <1>1, <1>2, <1>3, <1>4 DEF PollInv, TypeOK
<1>6. \A c : CallTrue(c) => CallTrue(c)'
  BY <1>2 DEF CallTrue
<1>7. CallTrue(call)'
  BY <1>2, <1>3, <1>4 DEF PollInv, JobsTracked, CallTrue, Going, Ended
<1>8. PollerAt'
  BY <1>1, <1>2, <1>4, <1>7 DEF PollerAt
<1>9. JobsTracked' /\ LateCalls' /\ Blamed'
  BY <1>2, <1>6 DEF PollInv, JobsTracked, LateCalls, Blamed
<1> QED BY <1>5, <1>8, <1>9 DEF PollInv

\* What a call under way is, and what follows it.
LEMMA AfterCalls ==
  ASSUME PollInv, Calling
  PROVE  /\ CallTrue(call) /\ call.job \in webMap /\ call.row = web[call.job]
         /\ pc = "mark" => call.status = "queued" /\ job[call.job] = "queued"
         /\ AfterCall =>
              \/ pc = "mark" /\ pc' = "submit" /\ call' = call /\ webMap' = webMap
              \/ /\ pc = "sync" /\ pc' = "sync" /\ call' = NoCall
                 /\ webMap' = IF call.status \in Ended THEN webMap \ {call.job} ELSE webMap
BY DEF PollInv, TypeOK, PollerAt, Calling, AfterCall

LEMMA CallStep ==
  ASSUME PollInv, CallReturns \/ CallFails
  PROVE  PollInv'
<1>1. /\ UNCHANGED <<job, web, stored, batch, todo, crashes>> /\ Calling /\ AfterCall
      /\ row' = row \/ row' = [row EXCEPT ![call.row] = call.status]
  BY DEF CallReturns, CallFails, bounds, Apply
<1>2. /\ CallTrue(call) /\ call.row \in Row /\ call.job \in GwJob
      /\ call.status \in {"queued", "running"} \cup Ended
  BY <1>1, AfterCalls DEF CallTrue, Going
<1>3. \/ UNCHANGED <<late, blame, faults>>
      \/ /\ faults' \in 0 .. MaxFaults /\ faults' = faults + 1
         /\ blame' = [blame EXCEPT ![call.row] = @ + 1]
         /\ late' \subseteq late \cup {call}
  BY BoundsAssumption DEF CallReturns, CallFails, bounds, PollInv, TypeOK
<1>4. /\ faults \in 0 .. MaxFaults /\ crashes \in 0 .. MaxCrashes
      /\ MaxFaults \in Nat /\ MaxCrashes \in Nat
      /\ blame \in [Row -> 0 .. MaxFaults + MaxCrashes]
      /\ \A w \in Row : blame[w] \in Nat /\ blame[w] <= faults + crashes
  BY BoundsAssumption DEF PollInv, TypeOK, Blamed
<1>5. \A w \in Row : /\ blame'[w] \in Nat /\ blame[w] <= blame'[w]
                     /\ blame'[w] <= faults' + crashes
  BY <1>2, <1>3, <1>4
<1>6. blame' \in [Row -> 0 .. MaxFaults + MaxCrashes]
  <2>1. \A w \in Row : blame'[w] \in 0 .. MaxFaults + MaxCrashes
    <3> TAKE w \in Row
    <3>1. faults' \in 0 .. MaxFaults
      BY <1>3, <1>4
    <3>2. blame'[w] <= MaxFaults + MaxCrashes
      BY <1>4, <1>5, <3>1
    <3> QED BY <1>4, <1>5, <3>2
  <2>2. blame' = [w \in Row |-> blame'[w]]
    BY <1>3, <1>4
  <2> QED BY <2>1, <2>2
<1>7. Blamed'
  BY <1>1, <1>5 DEF Blamed
<1>8. \A c : CallTrue(c)' <=> CallTrue(c)
  BY <1>1 DEF CallTrue
<1>9. LateCalls'
  <2> SUFFICES ASSUME NEW c \in late' PROVE CallTrue(c) /\ blame'[c.row] > 0
    BY <1>8 DEF LateCalls
  <2>1. CASE c \in late
    <3>1. CallTrue(c) /\ c.row \in Row /\ blame[c.row] > 0
      BY <2>1 DEF PollInv, LateCalls, CallTrue
    <3> QED BY <1>4, <1>5, <3>1
  <2>2. CASE c \notin late
    <3>1. c = call /\ blame' = [blame EXCEPT ![call.row] = @ + 1]
      BY <1>3, <2>2
    <3>2. blame'[call.row] = blame[call.row] + 1
      BY <1>2, <1>4, <3>1
    <3> QED BY <1>2, <1>4, <3>1, <3>2
  <2> QED BY <2>1, <2>2
<1>10. webMap' \subseteq webMap /\ webMap \ webMap' \subseteq {call.job}
  BY <1>1, AfterCalls
<1>11. TypeOK'
  <2>1. row' \in [Row -> {"absent", "pending", "queued", "running"} \cup Ended]
    BY <1>1, <1>2 DEF PollInv, TypeOK
  <2>2. call' = NoCall \/ (call'.row = web'[call'.job] /\ call'.job \in webMap')
    BY <1>1, AfterCalls
  <2>3. todo' \subseteq webMap'
    <3>1. call.job \notin todo
      BY <1>1 DEF PollInv, PollerAt, Calling
    <3> QED BY <1>1, <1>10, <3>1 DEF PollInv, TypeOK
  <2>4. \A c \in late' : c.row \in Row /\ c.job \in GwJob
    BY <1>2, <1>3 DEF PollInv, TypeOK
  <2>5. faults' \in 0 .. MaxFaults /\ pc' \in {"sleep", "pick", "mark", "submit", "sync"}
    BY <1>1, <1>3, <1>4, AfterCalls
  <2> QED BY <1>1, <1>6, <1>10, <2>1, <2>2, <2>3, <2>4, <2>5 DEF PollInv, TypeOK
<1>12. JobsTracked'
  BY <1>1, <1>10 DEF PollInv, JobsTracked
<1>13. PollerAt'
  BY <1>1, <1>8, AfterCalls DEF PollInv, PollerAt, Calling
<1> QED BY <1>7, <1>9, <1>11, <1>12, <1>13 DEF PollInv

LEMMA RestartStep ==
  ASSUME PollInv, Restart
  PROVE  PollInv'
<1>1. /\ UNCHANGED <<row, web, faults>>
      /\ crashes < MaxCrashes /\ crashes' = crashes + 1
      /\ job' = [g \in GwJob |-> IF job[g] \in Going THEN "lost" ELSE job[g]]
      /\ blame' = [w \in Row |-> IF \E g \in webMap : web[g] = w THEN blame[w] + 1 ELSE blame[w]]
      /\ late' \subseteq late \cup (IF Calling THEN {call} ELSE {})
      /\ stored' = {} /\ webMap' = {} /\ batch' = {} /\ todo' = {}
      /\ pc' = "sleep" /\ call' = NoCall
  BY DEF Restart, Going
<1>2. /\ faults \in 0 .. MaxFaults /\ crashes \in 0 .. MaxCrashes
      /\ MaxFaults \in Nat /\ MaxCrashes \in Nat
      /\ \A w \in Row : blame[w] \in Nat /\ blame[w] <= faults + crashes
  BY BoundsAssumption DEF PollInv, TypeOK, Blamed
<1>3. \A w \in Row : /\ blame'[w] \in Nat /\ blame[w] <= blame'[w]
                     /\ blame'[w] <= faults + crashes + 1
                     /\ (\E g \in webMap : web[g] = w) => blame'[w] > 0
  BY <1>1, <1>2
<1>4. blame' \in [Row -> 0 .. MaxFaults + MaxCrashes]
  <2>1. \A w \in Row : blame'[w] \in 0 .. MaxFaults + MaxCrashes
    BY <1>1, <1>2, <1>3
  <2> QED BY <1>1, <2>1
<1>5. job' \in [GwJob -> {"none", "queued", "running", "lost"} \cup Ended]
  BY <1>1 DEF PollInv, TypeOK, Going
<1>6. ASSUME NEW c, CallTrue(c) PROVE CallTrue(c)'
  <2>1. c.job \in GwJob
    BY <1>6 DEF CallTrue
  <2>2. job[c.job] \in Ended => job'[c.job] = job[c.job]
    BY <1>1, <2>1 DEF Going, Ended
  <2> QED BY <1>1, <1>6, <2>2, CallStaysTrue
<1>7. LateCalls'
  <2> SUFFICES ASSUME NEW c \in late' PROVE CallTrue(c) /\ blame'[c.row] > 0
    BY <1>6 DEF LateCalls
  <2>1. CASE c \in late
    <3>1. CallTrue(c) /\ c.row \in Row /\ blame[c.row] > 0
      BY <2>1 DEF PollInv, LateCalls, CallTrue
    <3> QED BY <1>2, <1>3, <3>1
  <2>2. CASE c \notin late
    <3>1. Calling /\ c = call
      BY <1>1, <2>2
    <3>2. CallTrue(call) /\ call.job \in webMap /\ call.row = web[call.job] /\ call.row \in Row
      BY <3>1, AfterCalls DEF CallTrue
    <3> QED BY <1>3, <3>1, <3>2
  <2> QED BY <2>1, <2>2
<1>8. TypeOK'
  <2>1. \A c \in late' : c.row \in Row /\ c.job \in GwJob
    BY <1>1, AfterCalls DEF PollInv, TypeOK, CallTrue
  <2>2. crashes' \in 0 .. MaxCrashes
    BY <1>1, <1>2
  <2> QED BY <1>1, <1>4, <1>5, <2>1, <2>2 DEF PollInv, TypeOK
<1>9. JobsTracked'
  BY <1>1 DEF PollInv, JobsTracked
<1>10. PollerAt' /\ Blamed'
  BY <1>1, <1>2, <1>3 DEF PollerAt, Blamed
<1> QED BY <1>7, <1>8, <1>9, <1>10 DEF PollInv

LEMMA PollStep == PollInv /\ [Next]_vars => PollInv'
<1> SUFFICES ASSUME PollInv, [Next]_vars PROVE PollInv'
  OBVIOUS
<1>1. CASE UNCHANGED vars
  BY <1>1 DEF vars, pollVars, bounds, PollInv, TypeOK, JobsTracked, PollerAt, LateCalls, CallTrue,
              Blamed
<1>2. CASE Next
  BY <1>2, JobStep, PortalStep, BetweenCalls, PickUpStep, SyncStep, CallStep, RestartStep
     DEF Next, Poll
<1> QED BY <1>1, <1>2

\* Types, and that a call is about a job in the table (gateway.py:768-825).
THEOREM WebTypeCorrect == Spec => []TypeOK
<1>1. PollInv => TypeOK
  BY DEF PollInv
<1> QED BY <1>1, PollInitInv, PollStep, PTL DEF Spec

LEMMA SpecPollInv == Spec => []PollInv
BY PollInitInv, PollStep, PTL DEF Spec

----------------------------------------------------------------------------
(* What the portal shows *)

\* The end of a job is an end for the portal until it forgets nothing of it.
LEMMA EndStaysTrue ==
  ASSUME PollInv, [Next]_vars, NEW g \in GwJob, web[g] # None
  PROVE  /\ web'[g] = web[g]
         /\ job[g] \in Ended => job'[g] = job[g]
         /\ g \notin stored => g \notin stored'
<1>1. job[g] # "none"
  BY DEF PollInv, JobsTracked
<1>2. CASE PickUp
  BY <1>1, <1>2 DEF PickUp, PollInv, TypeOK
<1>3. CASE SubmitJob
  BY <1>3 DEF SubmitJob, PollInv, TypeOK, PollerAt, Ended
<1>4. CASE \E h \in GwJob : JobStarts(h) \/ JobEnds(h) \/ Forget(h)
  BY <1>4 DEF JobStarts, JobEnds, Forget, PollInv, TypeOK, Ended
<1>5. CASE Restart
  BY <1>5 DEF Restart, Ended
<1>6. CASE UNCHANGED <<job, web, stored>>
  BY <1>6
<1>7. CASE BrowserSubmits \/ LateCall \/ Fetch \/ StartSync \/ SyncNext \/ SyncEnds \/ CallReturns
             \/ CallFails \/ UNCHANGED vars
  BY <1>6, <1>7 DEF BrowserSubmits, LateCall, Fetch, StartSync, SyncNext, SyncEnds, CallReturns,
                    CallFails, vars
<1> QED BY <1>2, <1>3, <1>4, <1>5, <1>7 DEF Next, Poll

\* A row leaves its status only when it is submitted or when a call is applied to it.
LEMMA RowChanges ==
  ASSUME PollInv, [Next]_vars, NEW w \in Row, row'[w] # row[w]
  PROVE  \/ row'[w] = "pending" /\ row[w] = "absent"
         \/ LateCall /\ \E c \in late : c.row = w /\ row'[w] = c.status
         \/ CallReturns /\ call.row = w /\ row'[w] = call.status
<1>1. CASE BrowserSubmits
  BY <1>1 DEF BrowserSubmits, PollInv, TypeOK
<1>2. CASE LateCall
  BY <1>2 DEF LateCall, Apply, PollInv, TypeOK
<1>3. CASE CallReturns
  BY <1>3 DEF CallReturns, Apply, PollInv, TypeOK
<1>4. row' # row
  OBVIOUS
<1>5. ~ (UNCHANGED vars) /\ ~ Restart
        /\ ~ (Fetch \/ PickUp \/ SubmitJob \/ StartSync \/ SyncNext \/ SyncEnds \/ CallFails)
        /\ ~ \E g \in GwJob : JobStarts(g) \/ JobEnds(g) \/ Forget(g)
  BY <1>4 DEF vars, Restart, Fetch, PickUp, SubmitJob, StartSync, SyncNext, SyncEnds, CallFails,
              JobStarts, JobEnds, Forget
<1> QED BY <1>1, <1>2, <1>3, <1>5 DEF Next, Poll

\* What RowIsTrue asks of one row.
ShowsTruth(w) ==
  /\ row[w] = "done" => \E g \in JobsOf(w) : job[g] = "done"
  /\ row[w] = "failed" =>
       \E g \in JobsOf(w) : job[g] = "failed" \/ (job[g] = "done" /\ g \notin stored)

\* A status that is applied is true of a job of the row.
LEMMA CallShowsTruth ==
  ASSUME NEW c, CallTrue(c), row[c.row] = c.status
  PROVE  ShowsTruth(c.row)
BY DEF CallTrue, ShowsTruth, JobsOf

\* The portal never shows an end that no job of the row has had, whatever calls are
\* lost or come late and however often the gateway is restarted (gateway.py:811-825).
THEOREM RowShowsTruth == Spec => []RowIsTrue
<1>1. PollInv /\ RowIsTrue /\ [Next]_vars => RowIsTrue'
  <2> SUFFICES ASSUME PollInv, RowIsTrue, [Next]_vars, NEW w \in Row PROVE ShowsTruth(w)'
    BY DEF RowIsTrue, ShowsTruth
  <2>1. \A g \in JobsOf(w) : /\ g \in JobsOf(w)'
                             /\ job[g] \in Ended => job'[g] = job[g]
                             /\ g \notin stored => g \notin stored'
    BY EndStaysTrue, NoneIsNoRow DEF JobsOf
  <2>2. ShowsTruth(w)
    BY DEF RowIsTrue, ShowsTruth
  <2>3. CASE row'[w] = row[w]
    BY <2>1, <2>2, <2>3 DEF ShowsTruth, Ended
  <2>4. ASSUME NEW c, CallTrue(c), c.row = w, row'[w] = c.status PROVE ShowsTruth(w)'
    <3>1. /\ c.job \in JobsOf(w)
          /\ c.status = "done" => job[c.job] = "done"
          /\ c.status = "failed" => job[c.job] = "failed" \/ (job[c.job] = "done" /\ c.job \notin stored)
      BY <2>4 DEF CallTrue, JobsOf
    <3> QED BY <2>1, <2>4, <3>1 DEF ShowsTruth, Ended
  <2>5. CASE row'[w] # row[w]
    <3>1. CASE row'[w] = "pending"
      BY <3>1 DEF ShowsTruth
    <3>2. CASE \E c \in late : c.row = w /\ row'[w] = c.status
      BY <2>4, <3>2 DEF PollInv, LateCalls
    <3>3. CASE CallReturns /\ call.row = w /\ row'[w] = call.status
      BY <2>4, <3>3, AfterCalls DEF CallReturns
    <3> QED BY <2>5, <3>1, <3>2, <3>3, RowChanges
  <2> QED BY <2>3, <2>5
<1> QED BY <1>1, PollInitInv, SpecPollInv, PTL DEF Spec

----------------------------------------------------------------------------
(* How often a row is picked up *)

LEMMA JobsOfFinite == \A w : IsFiniteSet(JobsOf(w)) /\ Cardinality(JobsOf(w)) \in Nat
<1> TAKE w
<1>1. IsFiniteSet(GwJob)
  BY BoundsAssumption, FS_Interval DEF GwJob
<1>2. JobsOf(w) \in SUBSET GwJob
  BY DEF JobsOf
<1> QED BY <1>1, <1>2, FS_Subset, FS_CardinalityType

\* The other steps give no row another job, nor take a fault back.
LEMMA JobsOfStay ==
  ASSUME PollInv, [Next]_vars, ~ PickUp
  PROVE  /\ web' = web
         /\ \A w \in Row : blame[w] \in Nat /\ blame'[w] \in Nat /\ blame[w] <= blame'[w]
<1>1. \A w \in Row : blame[w] \in Nat
  BY BoundsAssumption DEF PollInv, TypeOK
<1>2. CASE CallFails
  <2>1. call.row \in Row
    BY <1>2, AfterCalls DEF CallFails, CallTrue
  <2>2. blame' = [blame EXCEPT ![call.row] = @ + 1] /\ web' = web
    BY <1>2 DEF CallFails
  <2>3. blame \in [Row -> 0 .. MaxFaults + MaxCrashes]
    BY DEF PollInv, TypeOK
  <2> QED BY <1>1, <2>1, <2>2, <2>3
<1>3. CASE Restart
  BY <1>1, <1>3 DEF Restart
<1>4. CASE UNCHANGED <<web, blame>>
  BY <1>1, <1>4
<1>5. CASE BrowserSubmits \/ LateCall \/ Fetch \/ SubmitJob \/ StartSync \/ SyncNext \/ SyncEnds
             \/ CallReturns \/ UNCHANGED vars \/ \E g \in GwJob : JobStarts(g) \/ JobEnds(g) \/ Forget(g)
  BY <1>4, <1>5 DEF BrowserSubmits, LateCall, Fetch, SubmitJob, StartSync, SyncNext, SyncEnds,
                    CallReturns, JobStarts, JobEnds, Forget, bounds, vars
<1> QED BY <1>2, <1>3, <1>5 DEF Next, Poll

\* A row becomes due only by a fault or a restart that hits it.
LEMMA DueByFault ==
  ASSUME PollInv, [Next]_vars, NEW w \in Row, ~ Due(w), Due(w)'
  PROVE  blame'[w] = blame[w] + 1
<1>1. w \notin batch /\ (row[w] \in {"absent", "pending"} => pc = "mark" /\ call.row = w)
  BY DEF Due
<1>2. row'[w] \in {"absent", "pending"} => row[w] \in {"absent", "pending"}
  <2>1. \A c : CallTrue(c) => c.status \notin {"absent", "pending"}
    BY DEF CallTrue, Going, Ended
  <2>2. LateCall => \A c \in late : CallTrue(c)
    BY DEF PollInv, LateCalls
  <2>3. CallReturns => CallTrue(call)
    BY AfterCalls DEF CallReturns
  <2> QED BY <2>1, <2>2, <2>3, RowChanges
<1>3. w \notin batch'
  <2>1. CASE Fetch
    <3>1. pc = "sleep" /\ (w \in batch' => row[w] = "pending")
      BY <2>1 DEF Fetch, Oldest, Pending
    <3> QED BY <1>1, <3>1
  <2>2. CASE batch' \subseteq batch
    BY <1>1, <2>2
  <2>3. Fetch \/ batch' \subseteq batch
    BY DEF Next, Poll, BrowserSubmits, LateCall, PickUp, SubmitJob, StartSync, SyncNext, SyncEnds,
           CallReturns, CallFails, Restart, JobStarts, JobEnds, Forget, vars, pollVars
  <2> QED BY <2>1, <2>2, <2>3
<1>4. pc = "mark" /\ call.row = w /\ ~ (pc' = "mark" /\ call'.row = w)
  BY <1>1, <1>2, <1>3 DEF Due
<1>5. CallReturns \/ CallFails \/ Restart
  BY <1>4 DEF Next, Poll, BrowserSubmits, LateCall, Fetch, PickUp, SubmitJob, StartSync, SyncNext,
              SyncEnds, JobStarts, JobEnds, Forget, vars, pollVars
<1>6. blame \in [Row -> 0 .. MaxFaults + MaxCrashes]
  BY DEF PollInv, TypeOK
<1>7. CASE CallReturns
  <2>1. row'[w] = "queued"
    BY <1>4, <1>7, AfterCalls DEF CallReturns, Apply, PollInv, TypeOK
  <2> QED BY <1>3, <2>1 DEF Due
<1>8. CASE CallFails
  BY <1>4, <1>6, <1>8 DEF CallFails
<1>9. CASE Restart
  <2>1. call.job \in webMap /\ web[call.job] = w
    BY <1>4 DEF PollInv, TypeOK, PollerAt
  <2> QED BY <1>9, <2>1 DEF Restart
<1> QED BY <1>5, <1>7, <1>8, <1>9

LEMMA PickUpsStep == PollInv /\ PickUpsLeft /\ [Next]_vars => PickUpsLeft'
<1> SUFFICES ASSUME PollInv, PickUpsLeft, [Next]_vars, NEW w \in Row
             PROVE  Cardinality(JobsOf(w)') + (IF Due(w)' THEN 1 ELSE 0) <= 1 + blame'[w]
  BY DEF PickUpsLeft
<1> DEFINE n == Cardinality(JobsOf(w))
<1>1. n + (IF Due(w) THEN 1 ELSE 0) <= 1 + blame[w] /\ n \in Nat /\ blame[w] \in Nat
  BY JobsOfFinite, BoundsAssumption DEF PickUpsLeft, PollInv, TypeOK
<1>2. CASE ~ PickUp
  <2>1. JobsOf(w)' = JobsOf(w) /\ blame'[w] \in Nat /\ blame[w] <= blame'[w]
    BY <1>2, JobsOfStay DEF JobsOf
  <2>2. Due(w)' /\ ~ Due(w) => blame'[w] = blame[w] + 1
    BY DueByFault
  <2>3. Cardinality(JobsOf(w)') = n
    BY <2>1
  <2> QED BY <1>1, <2>1, <2>2, <2>3
<1>3. CASE PickUp
  <2>1. PICK v \in Row, g \in GwJob :
          /\ IsFirst(v, batch)
          /\ web' = [web EXCEPT ![g] = v]
          /\ call' = [row |-> v, status |-> "queued", job |-> g]
          /\ batch' = batch \ {v}
    BY <1>3 DEF PickUp
  <2>2. UNCHANGED <<row, blame>> /\ pc = "pick" /\ pc' = "mark" /\ v \in batch
    BY <1>3, <2>1 DEF PickUp, bounds, IsFirst
  <2>3. CASE v = w
    <3>1. JobsOf(w)' \subseteq JobsOf(w) \cup {g}
      BY <2>1, <2>3 DEF JobsOf, PollInv, TypeOK
    <3>2. /\ IsFiniteSet(JobsOf(w) \cup {g}) /\ Cardinality(JobsOf(w) \cup {g}) \in Nat
          /\ Cardinality(JobsOf(w) \cup {g}) <= n + 1
      <4>1. IsFiniteSet(JobsOf(w))
        BY JobsOfFinite
      <4>2. /\ IsFiniteSet(JobsOf(w) \cup {g})
            /\ Cardinality(JobsOf(w) \cup {g}) = IF g \in JobsOf(w) THEN n ELSE n + 1
        BY <4>1, FS_AddElement
      <4> QED BY <1>1, <4>2
    <3>3. Cardinality(JobsOf(w)') \in Nat /\ Cardinality(JobsOf(w)') <= Cardinality(JobsOf(w) \cup {g})
      BY <3>1, <3>2, FS_Subset, FS_CardinalityType
    <3>4. Due(w) /\ ~ Due(w)'
      BY <2>1, <2>2, <2>3 DEF Due
    <3> QED BY <1>1, <2>2, <3>2, <3>3, <3>4
  <2>4. CASE v # w
    <3>1. JobsOf(w)' \in SUBSET JobsOf(w)
      BY <2>1, <2>4 DEF JobsOf, PollInv, TypeOK
    <3>2. Cardinality(JobsOf(w)') \in Nat /\ Cardinality(JobsOf(w)') <= n
      BY <3>1, JobsOfFinite, FS_Subset, FS_CardinalityType
    <3>3. Due(w)' => Due(w)
      BY <2>1, <2>2, <2>4 DEF Due
    <3> QED BY <1>1, <2>2, <3>2, <3>3
  <2> QED BY <2>3, <2>4
<1> QED BY <1>2, <1>3

LEMMA SpecPickUps == Spec => []PickUpsLeft
BY PollInitInv, PickUpsStep, SpecPollInv, PTL DEF Spec

\* A browser job is run once, and once more for each lost mark or restart that hit it,
\* whatever batches were given up halfway and whatever marks arrive late
\* (gateway.py:780-809).
THEOREM PickedUpOncePerFault == Spec => []PickedUpOnce
<1>1. PollInv /\ PickUpsLeft => PickedUpOnce
  <2> SUFFICES ASSUME PollInv, PickUpsLeft, NEW w \in Row
               PROVE  Cardinality(JobsOf(w)) <= 1 + blame[w]
    BY DEF PickedUpOnce
  <2>1. Cardinality(JobsOf(w)) + (IF Due(w) THEN 1 ELSE 0) <= 1 + blame[w]
    BY DEF PickUpsLeft
  <2>2. Cardinality(JobsOf(w)) \in Nat /\ blame[w] \in Nat
    BY JobsOfFinite, BoundsAssumption DEF PollInv, TypeOK
  <2> QED BY <2>1, <2>2
<1> QED BY <1>1, SpecPollInv, SpecPickUps, PTL

----------------------------------------------------------------------------
(* An end stays *)

\* A row no fault has touched has had one job at most, and none to come if it had one.
LEMMA OnlyJob ==
  ASSUME PollInv, PickUpsLeft, NEW w \in Row, blame[w] = 0,
         NEW g \in JobsOf(w)
  PROVE  JobsOf(w) = {g} /\ ~ Due(w)
<1>1. Cardinality(JobsOf(w)) + (IF Due(w) THEN 1 ELSE 0) <= 1 /\ Cardinality(JobsOf(w)) \in Nat
  BY JobsOfFinite DEF PickUpsLeft
<1>2. Cardinality(JobsOf(w)) # 0
  BY JobsOfFinite, FS_EmptySet
<1>3. Cardinality(JobsOf(w)) = 1 /\ ~ Due(w)
  BY <1>1, <1>2
<1>4. \E x : JobsOf(w) = {x}
  BY <1>3, JobsOfFinite, FS_Singleton
<1> QED BY <1>3, <1>4

\* A row that shows its end and no fault has touched is not changed by any call.
LEMMA EndUntouched ==
  ASSUME PollInv, Settled, [Next]_vars, NEW w \in Row, row[w] \in Ended, blame[w] = 0
  PROVE  row'[w] = row[w]
<1> SUFFICES ASSUME row'[w] # row[w] PROVE FALSE
  OBVIOUS
<1>1. ~ \E c \in late : c.row = w
  BY DEF PollInv, LateCalls
<1>2. ~ (CallReturns /\ call.row = w)
  BY AfterCalls DEF CallReturns, Settled
<1> QED BY <1>1, <1>2, RowChanges DEF Ended

LEMMA SettledStep ==
  PollInv /\ PickUpsLeft /\ RowIsTrue /\ Settled /\ [Next]_vars => Settled'
<1> SUFFICES ASSUME PollInv, PickUpsLeft, RowIsTrue, Settled, [Next]_vars, NEW w \in Row,
                    row'[w] \in Ended, blame'[w] = 0, NEW g \in webMap', web'[g] = w
             PROVE  FALSE
  BY DEF Settled
<1>1. blame[w] = 0
  <2>1. CASE PickUp
    BY <2>1 DEF PickUp, bounds
  <2>2. CASE ~ PickUp
    BY <2>2, JobsOfStay
  <2> QED BY <2>1, <2>2
\* The row showed its end before: it is not picked up again.
<1>2. CASE row[w] \in Ended
  <2>1. \A h \in webMap : web[h] # w
    BY <1>1, <1>2 DEF Settled
  <2>2. CASE PickUp
    <3>1. PICK h \in JobsOf(w) : TRUE
      BY <1>2 DEF RowIsTrue, Ended
    <3>2. ~ Due(w)
      BY <1>1, <3>1, OnlyJob
    <3>3. PICK v \in Row, i \in GwJob :
            v \in batch /\ web' = [web EXCEPT ![i] = v] /\ webMap' = webMap \cup {i}
      BY <2>2 DEF PickUp, IsFirst
    <3> QED BY <2>1, <3>2, <3>3 DEF Due, PollInv, TypeOK
  <2>3. CASE ~ PickUp
    <3>1. webMap' \subseteq webMap
      BY <2>3, AfterCalls
         DEF Next, Poll, BrowserSubmits, LateCall, Fetch, SubmitJob, StartSync, SyncNext, SyncEnds,
             CallReturns, CallFails, Restart, JobStarts, JobEnds, Forget, vars
    <3> QED BY <2>1, <2>3, <3>1, JobsOfStay
  <2> QED BY <2>2, <2>3
\* The end arrives: the call is about the row's only job, which is tracked no longer.
<1>3. CASE row[w] \notin Ended
  <2>1. ~ \E c \in late : c.row = w
    BY <1>1 DEF PollInv, LateCalls
  <2>2. CallReturns /\ call.row = w /\ call.status \in Ended
    BY <1>3, <2>1, RowChanges DEF Ended
  <2>3. /\ webMap' = webMap \ {call.job} /\ web' = web
        /\ call.job \in GwJob /\ web[call.job] = w
    BY <2>2, AfterCalls DEF CallReturns, Ended, CallTrue
  <2>4. call.job \in JobsOf(w) /\ g \in JobsOf(w) /\ g # call.job
    BY <2>3 DEF JobsOf, PollInv, TypeOK
  <2> QED BY <1>1, <2>4, OnlyJob
<1> QED BY <1>2, <1>3

\* The row of a job no fault has touched does not leave its end: no status that was read
\* before the job ended is written over the result (gateway.py:811-825).
THEOREM EndIsKept == Spec => EndStays
<1>1. PollInv /\ Settled /\ [Next]_vars
        => [\A w \in Row : row[w] \in Ended /\ blame[w] = 0 => row'[w] = row[w]]_vars
  BY EndUntouched
<1>2. Spec => []RowIsTrue
  BY RowShowsTruth
<1>3. Spec => []Settled
  BY <1>2, PollInitInv, SettledStep, SpecPollInv, SpecPickUps, PTL DEF Spec
<1> QED BY <1>1, <1>3, SpecPollInv, PTL DEF Spec, EndStays
=============================================================================
