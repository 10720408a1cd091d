------------------------------ MODULE RateLimit ------------------------------
(***************************************************************************)
(* The sliding window that bounds how often a submitter may submit:         *)
(* RateLimiter in src/reputation.py, called by _handle_submit of            *)
(* src/gateway.py before anything else.                                     *)
(***************************************************************************)
EXTENDS Integers, Sequences

CONSTANTS
  Key,        \* submitters
  Max,        \* --max-jobs-per-min; 0 switches the limiter off, and nothing is kept then
  Window,     \* its length: 60 s
  Horizon     \* the last moment of the model

ASSUME RateAssumption == Max \in Nat \ {0} /\ Window \in Nat \ {0} /\ Horizon \in Nat

VARIABLES
  now,        \* time.monotonic()
  log,        \* key -> the moments its calls were allowed at, since the gateway started
  popped,     \* key -> how many of them have left its deque
  refused     \* history: the calls refused since then, <<key, moment>>

rateVars == <<now, log, popped, refused>>

RateInit ==
  /\ now = 0
  /\ log = [k \in Key |-> <<>>]
  /\ popped = [k \in Key |-> 0]
  /\ refused = {}

\* An event as old as the window is out of it.
Old(t) == t <= now - Window

\* The loop that pops the old ones off the head of the deque leaves n popped.
Purged(k, n) ==
  /\ n \in popped[k]..Len(log[k])
  /\ \A i \in (popped[k] + 1)..n : Old(log[k][i])
  /\ n < Len(log[k]) => ~ Old(log[k][n + 1])

\* A mutant of Full: one more than the limit.
MutFull(k, n) == Len(log[k]) - n > Max

Full(k, n) == Len(log[k]) - n >= Max

Allow(k) ==
  /\ \E n \in 0..Len(log[k]) :
       /\ Purged(k, n)
       /\ popped' = [popped EXCEPT ![k] = n]
       /\ IF Full(k, n)
            THEN refused' = refused \cup {<<k, now>>} /\ log' = log
            ELSE log' = [log EXCEPT ![k] = Append(@, now)] /\ refused' = refused
  /\ now' = now

Pass ==
  /\ now < Horizon
  /\ now' = now + 1
  /\ UNCHANGED <<log, popped, refused>>

\* "In-memory (reset on restart)" (reputation.py:9)
RateRestart ==
  /\ log' = [k \in Key |-> <<>>]
  /\ popped' = [k \in Key |-> 0]
  /\ refused' = {}
  /\ now' = now

RateNext == (\E k \in Key : Allow(k)) \/ Pass \/ RateRestart

RateSpec == RateInit /\ [][RateNext]_rateVars

----------------------------------------------------------------------------
(* Properties *)

RateTypeOK ==
  /\ now \in Nat
  /\ log \in [Key -> Seq(Nat)]
  /\ popped \in [Key -> Nat]
  /\ refused \subseteq Key \X Nat

\* "At most max_per_window events per window seconds, per key" (reputation.py:77): whichever
\* window is laid over the calls that were allowed, not only those the purge looks at.
RateRespected ==
  \A k \in Key : \A i \in 1..Len(log[k]) :
    i + Max <= Len(log[k]) => log[k][i + Max] - log[k][i] >= Window

\* A call is refused only where the window that ends with it is full of allowed ones.
RefusedWhenFull ==
  \A r \in refused : \E i \in 1..Len(log[r[1]]) :
    /\ i + Max - 1 <= Len(log[r[1]])
    /\ r[2] - Window < log[r[1]][i] /\ log[r[1]][i + Max - 1] <= r[2]

\* The limit is kept and never overdone, at the edge of the window as well, where an event
\* is exactly as old as the window (reputation.py:91).
WindowExact == RateRespected /\ RefusedWhenFull
=============================================================================
