---------------------------- MODULE LimitsProofs ----------------------------
(***************************************************************************)
(* Theorems about what bounds the work a device does for others.  For every *)
(* limit, window and number of submitters: no window holds more of the      *)
(* calls allowed than the limit, and none is refused without need.  For     *)
(* every length of day and week and every schedule: a device is lent in the *)
(* hours of its windows and in no other.  For every sandbox: the processes  *)
(* of a job that is cancelled are stopped, and no kill goes unreported.     *)
(***************************************************************************)
EXTENDS RateLimit, Schedule, Sandbox, TLAPS

----------------------------------------------------------------------------
(* The rate limiter *)

\* What the deque of a key is: the newest of the calls allowed, in the order of their
\* moments, at most Max of them; those that have left it are out of the window.
DequeIsNewest ==
  \A k \in Key :
    /\ popped[k] <= Len(log[k])
    /\ Len(log[k]) - popped[k] <= Max
    /\ \A i \in 1..popped[k] : Old(log[k][i])
    /\ \A i \in 1..Len(log[k]) : log[k][i] <= now
    /\ \A i, j \in 1..Len(log[k]) : i <= j => log[k][i] <= log[k][j]

RateInv == RateTypeOK /\ DequeIsNewest

\* The limiter starts empty.
LEMMA RateInitInv == RateInit => RateInv /\ RateRespected /\ RefusedWhenFull
BY RateAssumption DEF RateInit, RateInv, RateTypeOK, DequeIsNewest, RateRespected, RefusedWhenFull

\* The limit and the window are positive.
LEMMA RateConstants == Max \in Nat /\ Max >= 1 /\ Window \in Nat /\ Window >= 1
BY RateAssumption

\* A call that is refused finds the window full.
LEMMA RateRefused ==
  ASSUME RateInv, RateRespected, RefusedWhenFull, NEW k \in Key, NEW n \in Nat,
         Purged(k, n), Full(k, n), now' = now, log' = log,
         popped' = [popped EXCEPT ![k] = n], refused' = refused \cup {<<k, now>>}
  PROVE  RateInv' /\ RateRespected' /\ RefusedWhenFull'
<1>1. /\ now \in Nat /\ log[k] \in Seq(Nat) /\ popped[k] \in Nat /\ Len(log[k]) \in Nat
      /\ popped'[k] = n /\ \A j \in Key \ {k} : popped'[j] = popped[j]
  BY DEF RateInv, RateTypeOK
<1>2. /\ n \in popped[k]..Len(log[k]) /\ Len(log[k]) - n >= Max
      /\ \A i \in (popped[k] + 1)..n : log[k][i] <= now - Window
      /\ n < Len(log[k]) => ~ (log[k][n + 1] <= now - Window)
  BY DEF Purged, Full, Old
<1>3. /\ Len(log[k]) - popped[k] <= Max
      /\ \A i \in 1..popped[k] : log[k][i] <= now - Window
      /\ \A i \in 1..Len(log[k]) : log[k][i] <= now
  BY DEF RateInv, DequeIsNewest, Old
<1>4. Len(log[k]) - n = Max
  <2>1. PICK len \in Nat, p \in Nat : len = Len(log[k]) /\ p = popped[k]
    BY <1>1
  <2>2. n \in p..len /\ len - n >= Max /\ len - p <= Max
    BY <1>2, <1>3, <2>1
  <2>3. len - n = Max
    BY <2>2, <2>1, RateConstants
  <2> QED BY <2>1, <2>3
<1>5. \A i \in 1..n : log[k][i] <= now - Window
  BY <1>1, <1>2, <1>3
<1>6. RateTypeOK'
  BY DEF RateInv, RateTypeOK
<1>7. DequeIsNewest'
  <2> SUFFICES ASSUME NEW j \in Key
               PROVE  /\ popped'[j] <= Len(log[j])
                      /\ Len(log[j]) - popped'[j] <= Max
                      /\ \A i \in 1..popped'[j] : log[j][i] <= now - Window
                      /\ \A i \in 1..Len(log[j]) : log[j][i] <= now
                      /\ \A i, h \in 1..Len(log[j]) : i <= h => log[j][i] <= log[j][h]
    BY DEF DequeIsNewest, Old
  <2>1. CASE j = k
    <3>1. n <= Len(log[k]) /\ Len(log[k]) - n <= Max
      BY <1>1, <1>2, <1>4, RateConstants
    <3> QED BY <1>1, <1>3, <1>5, <2>1, <3>1 DEF RateInv, DequeIsNewest
  <2>2. CASE j # k
    BY <1>1, <2>2 DEF RateInv, DequeIsNewest, Old
  <2> QED BY <2>1, <2>2
<1>8. \E i \in 1..Len(log[k]) :
        /\ i + Max - 1 <= Len(log[k])
        /\ now - Window < log[k][i] /\ log[k][i + Max - 1] <= now
  <2>1. n + 1 \in 1..Len(log[k]) /\ n + 1 + Max - 1 = Len(log[k])
    <3>1. PICK len \in Nat : len = Len(log[k]) /\ len - n = Max
      BY <1>1, <1>4
    <3>2. n + 1 \in 1..len /\ n + 1 + Max - 1 = len
      BY <3>1, RateConstants
    <3> QED BY <3>1, <3>2
  <2>2. log[k][n + 1] \in Nat /\ n < Len(log[k])
    BY <1>1, <2>1
  <2>3. now - Window < log[k][n + 1] /\ log[k][Len(log[k])] <= now
    <3>1. PICK t \in Nat : t = log[k][n + 1]
      BY <2>2
    <3>2. ~ (t <= now - Window)
      BY <1>2, <2>2, <3>1
    <3>3. now - Window < t
      BY <1>1, <3>1, <3>2, RateConstants
    <3>4. Len(log[k]) \in 1..Len(log[k])
      BY <1>1, <2>1
    <3> QED BY <1>3, <3>1, <3>3, <3>4
  <2> QED BY <1>1, <2>1, <2>3
<1>9. RefusedWhenFull'
  BY <1>8 DEF RefusedWhenFull
<1> QED BY <1>6, <1>7, <1>9 DEF RateInv, RateRespected

\* A call that is allowed is the newest, and the one Max before it has left the window.
LEMMA RateAllowed ==
  ASSUME RateInv, RateRespected, RefusedWhenFull, NEW k \in Key, NEW n \in Nat,
         Purged(k, n), ~ Full(k, n), now' = now,
         log' = [log EXCEPT ![k] = Append(@, now)],
         popped' = [popped EXCEPT ![k] = n], refused' = refused
  PROVE  RateInv' /\ RateRespected' /\ RefusedWhenFull'
<1>1. /\ now \in Nat /\ log[k] \in Seq(Nat) /\ popped[k] \in Nat
      /\ popped'[k] = n /\ \A j \in Key \ {k} : popped'[j] = popped[j]
      /\ log'[k] = Append(log[k], now) /\ \A j \in Key \ {k} : log'[j] = log[j]
  BY DEF RateInv, RateTypeOK
<1>2. PICK len \in Nat : len = Len(log[k])
  BY <1>1
<1>3. /\ Len(log'[k]) = len + 1 /\ log'[k][len + 1] = now
      /\ \A i \in 1..len : log'[k][i] = log[k][i] /\ log[k][i] \in Nat
  BY <1>1, <1>2
<1>4. /\ n \in popped[k]..len /\ ~ (len - n >= Max)
      /\ \A i \in (popped[k] + 1)..n : log[k][i] <= now - Window
  BY <1>2 DEF Purged, Full, Old
<1>5. /\ \A i \in 1..popped[k] : log[k][i] <= now - Window
      /\ \A i \in 1..len : log[k][i] <= now
      /\ \A i, j \in 1..len : i <= j => log[k][i] <= log[k][j]
  BY <1>2 DEF RateInv, DequeIsNewest, Old
<1>6. \A i \in 1..n : log'[k][i] <= now - Window
  <2>1. \A i \in 1..n : log[k][i] <= now - Window
    BY <1>1, <1>4, <1>5
  <2>2. 1..n \subseteq 1..len
    BY <1>1, <1>4
  <2> QED BY <1>3, <2>1, <2>2
<1>7. RateTypeOK'
  BY <1>1 DEF RateInv, RateTypeOK
<1>8. DequeIsNewest'
  <2> SUFFICES ASSUME NEW j \in Key
               PROVE  /\ popped'[j] <= Len(log'[j])
                      /\ Len(log'[j]) - popped'[j] <= Max
                      /\ \A i \in 1..popped'[j] : log'[j][i] <= now - Window
                      /\ \A i \in 1..Len(log'[j]) : log'[j][i] <= now
                      /\ \A i, h \in 1..Len(log'[j]) : i <= h => log'[j][i] <= log'[j][h]
    BY DEF DequeIsNewest, Old
  <2>1. CASE j = k
    <3>1. n <= len + 1 /\ len + 1 - n <= Max
      BY <1>1, <1>4, RateConstants
    <3>2. \A i \in 1..(len + 1) : i \in 1..len \/ i = len + 1
      OBVIOUS
    <3>3. \A i \in 1..(len + 1) : log'[k][i] <= now
      BY <1>1, <1>3, <1>5, <3>2
    <3>4. \A i, h \in 1..(len + 1) : i <= h => log'[k][i] <= log'[k][h]
      <4> SUFFICES ASSUME NEW i \in 1..(len + 1), NEW h \in 1..(len + 1), i <= h
                   PROVE  log'[k][i] <= log'[k][h]
        OBVIOUS
      <4>1. CASE h = len + 1
        BY <1>3, <3>3, <4>1
      <4>2. CASE h \in 1..len
        <5>1. i \in 1..len
          BY <4>2
        <5> QED BY <1>3, <1>5, <4>2, <5>1
      <4> QED BY <3>2, <4>1, <4>2
    <3>5. popped'[k] = n /\ Len(log'[k]) = len + 1
      BY <1>1, <1>3
    <3> QED BY <1>6, <2>1, <3>1, <3>3, <3>4, <3>5
  <2>2. CASE j # k
    BY <1>1, <2>2 DEF RateInv, DequeIsNewest, Old
  <2> QED BY <2>1, <2>2
<1>9. RateRespected'
  <2> SUFFICES ASSUME NEW i \in 1..(len + 1), i + Max <= len + 1
               PROVE  log'[k][i + Max] - log'[k][i] >= Window
    <3>1. \A i \in 1..Len(log'[k]) : i + Max <= Len(log'[k]) => log'[k][i + Max] - log'[k][i] >= Window
      BY <1>3
    <3>2. \A j \in Key \ {k} : \A i \in 1..Len(log'[j]) :
            i + Max <= Len(log'[j]) => log'[j][i + Max] - log'[j][i] >= Window
      BY <1>1 DEF RateRespected
    <3> QED BY <3>1, <3>2 DEF RateRespected
  <2>1. CASE i + Max <= len
    <3>1. i \in 1..len /\ i + Max \in 1..len
      BY <2>1, RateConstants
    <3>2. log[k][i + Max] - log[k][i] >= Window
      BY <1>2, <2>1, <3>1 DEF RateRespected
    <3>3. log'[k][i + Max] = log[k][i + Max] /\ log'[k][i] = log[k][i]
      BY <1>3, <3>1
    <3> QED BY <3>2, <3>3
  <2>2. CASE i + Max = len + 1
    <3>1. i \in 1..n /\ i \in 1..len
      BY <1>4, <2>2, RateConstants
    <3>2. log'[k][i] <= now - Window /\ log'[k][i] \in Nat
      BY <1>3, <1>6, <3>1
    <3>3. PICK t \in Nat : t = log'[k][i]
      BY <3>2
    <3>4. now \in Nat /\ t <= now - Window
      BY <1>1, <3>2, <3>3
    <3>5. now - t >= Window
      BY <3>4, RateConstants
    <3>6. log'[k][i + Max] = now
      BY <1>3, <2>2
    <3>7. PICK u \in Nat : u = log'[k][i + Max] /\ u - t >= Window
      BY <3>4, <3>5, <3>6
    <3> QED BY <3>3, <3>7
  <2>3. i + Max <= len \/ i + Max = len + 1
    BY RateConstants
  <2> QED BY <2>1, <2>2, <2>3
<1>10. RefusedWhenFull'
  <2> SUFFICES ASSUME NEW r \in refused
               PROVE  \E i \in 1..Len(log'[r[1]]) :
                        /\ i + Max - 1 <= Len(log'[r[1]])
                        /\ r[2] - Window < log'[r[1]][i] /\ log'[r[1]][i + Max - 1] <= r[2]
    BY DEF RefusedWhenFull
  <2>1. r[1] \in Key
    BY DEF RateInv, RateTypeOK
  <2>2. CASE r[1] # k
    BY <1>1, <2>1, <2>2 DEF RefusedWhenFull
  <2>3. CASE r[1] = k
    <3>1. PICK i \in 1..len :
            /\ i + Max - 1 <= len
            /\ r[2] - Window < log[k][i] /\ log[k][i + Max - 1] <= r[2]
      BY <1>2, <2>3 DEF RefusedWhenFull
    <3>2. i \in 1..(len + 1) /\ i + Max - 1 \in 1..len /\ i + Max - 1 <= len + 1
      BY <3>1, RateConstants
    <3> QED BY <1>3, <2>3, <3>1, <3>2
  <2> QED BY <2>2, <2>3
<1> QED BY <1>7, <1>8, <1>9, <1>10 DEF RateInv

\* A call, allowed or not.
LEMMA RateAllow ==
  ASSUME RateInv, RateRespected, RefusedWhenFull, NEW k \in Key, Allow(k)
  PROVE  RateInv' /\ RateRespected' /\ RefusedWhenFull'
<1>1. PICK n \in 0..Len(log[k]) :
        /\ Purged(k, n)
        /\ popped' = [popped EXCEPT ![k] = n]
        /\ IF Full(k, n)
             THEN refused' = refused \cup {<<k, now>>} /\ log' = log
             ELSE log' = [log EXCEPT ![k] = Append(@, now)] /\ refused' = refused
  BY DEF Allow
<1>2. now' = now /\ n \in Nat
  BY DEF Allow
<1>3. CASE Full(k, n)
  BY <1>1, <1>2, <1>3, RateRefused
<1>4. CASE ~ Full(k, n)
  BY <1>1, <1>2, <1>4, RateAllowed
<1> QED BY <1>3, <1>4

\* Every step keeps the deque and both properties.
LEMMA RateStep ==
  RateInv /\ RateRespected /\ RefusedWhenFull /\ [RateNext]_rateVars
    => RateInv' /\ RateRespected' /\ RefusedWhenFull'
<1> SUFFICES ASSUME RateInv, RateRespected, RefusedWhenFull, [RateNext]_rateVars
             PROVE  RateInv' /\ RateRespected' /\ RefusedWhenFull'
  OBVIOUS
<1>1. CASE Pass
  <2>1. now' = now + 1 /\ UNCHANGED <<log, popped, refused>>
    BY <1>1 DEF Pass
  <2>2. RateTypeOK'
    BY <2>1 DEF RateInv, RateTypeOK
  <2>3. DequeIsNewest'
    <3>1. \A k \in Key : log[k] \in Seq(Nat) /\ popped[k] \in Nat
      BY DEF RateInv, RateTypeOK
    <3>2. now \in Nat
      BY DEF RateInv, RateTypeOK
    <3> QED BY <2>1, <3>1, <3>2, RateAssumption DEF RateInv, DequeIsNewest, Old
  <2>4. RateRespected' /\ RefusedWhenFull'
    BY <2>1 DEF RateRespected, RefusedWhenFull
  <2> QED BY <2>2, <2>3, <2>4 DEF RateInv
<1>2. CASE RateRestart
  BY <1>2, RateAssumption
     DEF RateRestart, RateInv, RateTypeOK, DequeIsNewest, RateRespected, RefusedWhenFull
<1>3. CASE UNCHANGED rateVars
  BY <1>3 DEF rateVars, RateInv, RateTypeOK, DequeIsNewest, RateRespected, RefusedWhenFull, Old
<1> QED BY <1>1, <1>2, <1>3, RateAllow DEF RateNext

\* The types of the limiter's variables.
THEOREM RateTypeCorrect == RateSpec => []RateTypeOK
BY RateInitInv, RateStep, PTL DEF RateSpec, RateInv

\* No window holds more of the calls allowed than the limit, and no call is refused while
\* the window has room.
THEOREM RateExact == RateSpec => []WindowExact
BY RateInitInv, RateStep, PTL DEF RateSpec, WindowExact

----------------------------------------------------------------------------
(* The arithmetic of days *)

\* A whole number of days, less than one apart, is none.
LEMMA WholeDays ==
  ASSUME NEW D \in Nat \ {0}, NEW k \in Int, k * D < D, k * D > -D
  PROVE  k = 0
<1>1. CASE k >= 1
  <2>1. k * D >= D
    BY <1>1
  <2> QED BY <2>1
<1>2. CASE k <= -1
  <2>1. k * D <= -D
    BY <1>2
  <2> QED BY <2>1
<1> QED BY <1>1, <1>2

\* The remainder of a division is the one number in its range.
LEMMA RemainderIs ==
  ASSUME NEW b \in Nat \ {0}, NEW a \in Int, NEW q \in Int, NEW r \in 0..(b - 1),
         a = q * b + r
  PROVE  a % b = r
<1>1. /\ a \div b \in Int /\ a % b \in 0..(b - 1)
      /\ a = b * (a \div b) + (a % b)
  OBVIOUS
<1>2. PICK p \in Int, s \in 0..(b - 1) : p = a \div b /\ s = a % b /\ a = p * b + s
  BY <1>1
<1>3. (q - p) * b = s - r
  BY <1>2
<1>4. q - p = 0
  BY <1>2, <1>3, WholeDays
<1> QED BY <1>2, <1>3, <1>4

\* And every number has one.
LEMMA RemainderOf ==
  ASSUME NEW b \in Nat \ {0}, NEW a \in Int
  PROVE  \E q \in Int : a % b \in 0..(b - 1) /\ a = q * b + (a % b)
<1>1. /\ a \div b \in Int /\ a % b \in 0..(b - 1)
      /\ a = b * (a \div b) + (a % b)
  OBVIOUS
<1>2. PICK q \in Int : q = a \div b
  BY <1>1
<1>3. b * q = q * b
  BY <1>2
<1>4. a = q * b + (a % b)
  BY <1>1, <1>2, <1>3
<1> QED BY <1>1, <1>4

----------------------------------------------------------------------------
(* The hours of a schedule *)

ScheduleTypeOK == weekday \in Weekday /\ minute \in Minute /\ schedule \in Schedules

LEMMA ScheduleInitTyped == ScheduleInit => ScheduleTypeOK
BY DEF ScheduleInit, ScheduleTypeOK

LEMMA ScheduleStep == ScheduleTypeOK /\ [ScheduleNext]_scheduleVars => ScheduleTypeOK'
<1> SUFFICES ASSUME ScheduleTypeOK, [ScheduleNext]_scheduleVars PROVE ScheduleTypeOK'
  OBVIOUS
<1>1. CASE SetSchedule
  BY <1>1 DEF SetSchedule, ScheduleTypeOK
<1>2. CASE MinutePasses
  <2>1. \A a \in Int : a % DayLength \in Minute /\ a % WeekLength \in Weekday
    BY ScheduleAssumption DEF Minute, Weekday
  <2>2. minute + 1 \in Int /\ weekday + 1 \in Int
    BY ScheduleAssumption DEF ScheduleTypeOK, Minute, Weekday
  <2> QED BY <1>2, <2>1, <2>2 DEF MinutePasses, ScheduleTypeOK
<1>3. CASE UNCHANGED scheduleVars
  BY <1>3 DEF scheduleVars, ScheduleTypeOK
<1> QED BY <1>1, <1>2, <1>3 DEF ScheduleNext

LEMMA WindowTyped ==
  ASSUME ScheduleTypeOK, NEW w \in schedule
  PROVE  /\ w.days \subseteq Weekday
         /\ w.start \in Nat /\ w.start <= DayLength
         /\ w.end \in Nat /\ w.end <= DayLength
BY ScheduleAssumption DEF ScheduleTypeOK, Windows

\* Today is some whole number of days after the start of the window, counted round the
\* week.
LEMMA SinceSome ==
  ASSUME ScheduleTypeOK, NEW w \in schedule, NEW d \in Weekday
  PROVE  \E q \in Int :
           /\ Since(w, d) = (weekday - d - q * WeekLength) * DayLength + minute - w.start
           /\ Since(w, d) \in Nat
<1> DEFINE week == WeekLength * DayLength
           a == weekday * DayLength + minute - d * DayLength - w.start
<1>1. week \in Nat \ {0}
  BY ScheduleAssumption
<1>2. weekday \in Int /\ minute \in Int /\ d \in Int /\ w.start \in Int /\ DayLength \in Int /\ WeekLength \in Int
  BY ScheduleAssumption, WindowTyped DEF ScheduleTypeOK, Weekday, Minute
<1>3. a \in Int
  BY <1>2
<1>4. PICK q \in Int : a % week \in 0..(week - 1) /\ a = q * week + (a % week)
  BY <1>1, <1>3, RemainderOf
<1>5. PICK r \in Nat : r = Since(w, d) /\ a = q * week + r
  BY <1>1, <1>4 DEF Since
<1>6. q * week = (q * WeekLength) * DayLength
  BY <1>2
<1>7. r = (weekday - d - q * WeekLength) * DayLength + minute - w.start
  BY <1>2, <1>5, <1>6
<1> QED BY <1>5, <1>7

\* Counted from the right start, it is the time gone since.
LEMMA SinceThis ==
  ASSUME ScheduleTypeOK, NEW w \in schedule, NEW d \in Weekday, NEW q \in Int,
         NEW r \in Nat, r < DayLength,
         r = (weekday - d - q * WeekLength) * DayLength + minute - w.start
  PROVE  Since(w, d) = r
<1> DEFINE week == WeekLength * DayLength
           a == weekday * DayLength + minute - d * DayLength - w.start
<1>1. week \in Nat \ {0} /\ DayLength <= week
  BY ScheduleAssumption
<1>2. weekday \in Int /\ minute \in Int /\ d \in Int /\ w.start \in Int /\ DayLength \in Int /\ WeekLength \in Int
  BY ScheduleAssumption, WindowTyped DEF ScheduleTypeOK, Weekday, Minute
<1>3. a \in Int /\ r \in 0..(week - 1)
  BY <1>1, <1>2
<1>4. q * week = (q * WeekLength) * DayLength
  BY <1>2
<1>5. a = q * week + r
  BY <1>2, <1>4
<1>6. a % week = r
  BY <1>1, <1>3, <1>5, RemainderIs
<1> QED BY <1>6 DEF Since

\* A window that ends on the day it starts.
LEMMA DayWindow ==
  ASSUME ScheduleTypeOK, NEW w \in schedule, w.start <= w.end
  PROVE  (weekday \in w.days /\ InWindow(w)) <=> \E d \in w.days : Since(w, d) < Span(w)
<1>1. /\ weekday \in Int /\ minute \in Nat /\ minute < DayLength /\ DayLength \in Nat \ {0}
      /\ WeekLength \in Nat \ {0} /\ weekday \in Weekday
  BY ScheduleAssumption DEF ScheduleTypeOK, Weekday, Minute
<1>2. InWindow(w) <=> w.start <= minute /\ minute < w.end
  BY DEF InWindow
<1>3. Span(w) = w.end - w.start
  BY DEF Span
<1>4. ASSUME weekday \in w.days, InWindow(w)
      PROVE  Since(w, weekday) < Span(w)
  <2>1. minute - w.start \in Nat /\ minute - w.start < DayLength
    BY <1>1, <1>2, <1>4, WindowTyped
  <2>2. PICK r \in Nat, q \in Int : r = minute - w.start /\ q = 0
    BY <2>1
  <2>3. Since(w, weekday) = minute - w.start
    <3>1. (weekday - weekday - q * WeekLength) * DayLength = 0
      BY <1>1, <2>2
    <3>2. r = (weekday - weekday - q * WeekLength) * DayLength + minute - w.start
      BY <1>1, WindowTyped, <2>2, <3>1
    <3> QED BY <1>1, <2>1, <2>2, <3>2, SinceThis
  <2> QED BY <1>1, <1>2, <1>3, <1>4, <2>3, WindowTyped
<1>5. ASSUME NEW d \in w.days, Since(w, d) < Span(w)
      PROVE  weekday \in w.days /\ InWindow(w)
  <2>1. d \in Weekday /\ d \in Int
    BY WindowTyped, ScheduleAssumption DEF Weekday
  <2>2. PICK q \in Int :
          /\ Since(w, d) = (weekday - d - q * WeekLength) * DayLength + minute - w.start
          /\ Since(w, d) \in Nat
    BY <2>1, SinceSome
  <2>3. PICK k \in Int : k = weekday - d - q * WeekLength
    BY <1>1, <2>1
  <2>4. /\ k * DayLength + minute - w.start >= 0
        /\ k * DayLength + minute - w.start < w.end - w.start
    BY <1>3, <1>5, <2>2, <2>3
  <2>5. k * DayLength < DayLength /\ k * DayLength > -DayLength
    BY <1>1, <2>4, WindowTyped
  <2>6. k = 0
    BY <1>1, <2>5, WholeDays
  <2>7. InWindow(w)
    BY <1>1, <1>2, <2>4, <2>6, WindowTyped
  <2>8. q * WeekLength < WeekLength /\ q * WeekLength > -WeekLength
    BY <1>1, <2>1, <2>3, <2>6 DEF Weekday
  <2>9. q = 0
    BY <1>1, <2>8, WholeDays
  <2> QED BY <1>1, <1>5, <2>1, <2>3, <2>6, <2>7, <2>9
<1> QED BY <1>4, <1>5

\* A window round midnight, on every day of the week.
LEMMA NightWindow ==
  ASSUME ScheduleTypeOK, NEW w \in schedule, ~ (w.start <= w.end), w.days = Weekday
  PROVE  InWindow(w) <=> \E d \in Weekday : Since(w, d) < Span(w)
<1>1. /\ weekday \in Int /\ minute \in Nat /\ minute < DayLength /\ DayLength \in Nat \ {0}
      /\ WeekLength \in Nat \ {0} /\ weekday \in Weekday
  BY ScheduleAssumption DEF ScheduleTypeOK, Weekday, Minute
<1>2. /\ InWindow(w) <=> minute >= w.start \/ minute < w.end
      /\ Span(w) = w.end - w.start + DayLength
  BY DEF InWindow, Span
<1>3. w.start \in Nat /\ w.end \in Nat /\ w.end < w.start /\ w.start <= DayLength
  BY WindowTyped
\* Before midnight it began today,
<1>4. ASSUME minute >= w.start PROVE Since(w, weekday) < Span(w)
  <2>1. minute - w.start \in Nat /\ minute - w.start < DayLength
    BY <1>1, <1>3, <1>4
  <2>2. PICK r \in Nat, q \in Int : r = minute - w.start /\ q = 0
    BY <2>1
  <2>3. Since(w, weekday) = minute - w.start
    <3>1. (weekday - weekday - q * WeekLength) * DayLength = 0
      BY <1>1, <2>2
    <3>2. r = (weekday - weekday - q * WeekLength) * DayLength + minute - w.start
      BY <1>1, <1>3, <2>2, <3>1
    <3> QED BY <1>1, <2>1, <2>2, <3>2, SinceThis
  <2> QED BY <1>1, <1>2, <1>3, <2>3
\* and after midnight the day before, which is the last of the week on the first.
<1>5. ASSUME minute < w.end PROVE \E d \in Weekday : Since(w, d) < Span(w)
  <2> DEFINE r == DayLength + minute - w.start
  <2>1. r \in Nat /\ r < DayLength /\ r < Span(w)
    BY <1>1, <1>2, <1>3, <1>5
  <2>2. CASE weekday >= 1
    <3>1. weekday - 1 \in Weekday
      BY <1>1, <2>2 DEF Weekday
    <3>2. r = (weekday - (weekday - 1) - 0 * WeekLength) * DayLength + minute - w.start
      BY <1>1, <1>3
    <3>3. Since(w, weekday - 1) = r
      BY <2>1, <3>1, <3>2, SinceThis
    <3> QED BY <2>1, <3>1, <3>3
  <2>3. CASE weekday = 0
    <3>1. WeekLength - 1 \in Weekday
      BY <1>1 DEF Weekday
    <3>2. 0 - (WeekLength - 1) - (-1) * WeekLength = 1
      BY <1>1
    <3>3. r = (weekday - (WeekLength - 1) - (-1) * WeekLength) * DayLength + minute - w.start
      BY <1>1, <1>3, <2>3, <3>2
    <3>4. Since(w, WeekLength - 1) = r
      BY <2>1, <3>1, <3>3, SinceThis
    <3> QED BY <2>1, <3>1, <3>4
  <2> QED BY <1>1, <2>2, <2>3 DEF Weekday
<1>6. ASSUME NEW d \in Weekday, Since(w, d) < Span(w) PROVE InWindow(w)
  <2>1. PICK q \in Int :
          /\ Since(w, d) = (weekday - d - q * WeekLength) * DayLength + minute - w.start
          /\ Since(w, d) \in Nat
    BY SinceSome
  <2>2. PICK k \in Int : k = weekday - d - q * WeekLength
    BY <1>1 DEF Weekday
  <2>3. /\ k * DayLength + minute - w.start >= 0
        /\ k * DayLength + minute < w.end + DayLength
    BY <1>1, <1>2, <1>3, <1>6, <2>1, <2>2
  <2>4. CASE k >= 1
    <3>1. k * DayLength >= DayLength
      BY <1>1, <2>4
    <3> QED BY <1>1, <1>2, <1>3, <2>3, <3>1
  <2>5. CASE k <= 0
    <3>1. k * DayLength <= 0
      BY <1>1, <2>5
    <3> QED BY <1>1, <1>2, <1>3, <2>3, <3>1
  <2> QED BY <2>4, <2>5
<1> QED BY <1>1, <1>2, <1>4, <1>5, <1>6

\* A device is lent from the start of a window, on each of its days, for exactly its
\* length, into the next day and the next week (scheduler.py:60-81).
THEOREM HoursAreExact == ScheduleSpec => []HoursExact
<1>1. ScheduleTypeOK => HoursExact
  <2> SUFFICES ASSUME ScheduleTypeOK, NEW w \in schedule, w.start <= w.end \/ w.days = Weekday
               PROVE  (weekday \in w.days /\ InWindow(w))
                        <=> \E d \in w.days : Since(w, d) < Span(w)
    BY DEF HoursExact, WithinHours
  <2>1. CASE w.start <= w.end
    BY <2>1, DayWindow
  <2>2. CASE ~ (w.start <= w.end)
    BY <2>2, NightWindow DEF ScheduleTypeOK
  <2> QED BY <2>1, <2>2
<1> QED BY <1>1, ScheduleInitTyped, ScheduleStep, PTL DEF ScheduleSpec

----------------------------------------------------------------------------
(* The sandbox *)

\* Where the processes of a job are while its worker is at pc, and what a kill finds.
ProcessesAt ==
  /\ inst = "alive" => pc = "installing"
  /\ ref = "inst" <=> pc \in {"installing", "installed"}
  /\ pc \in {"wait", "collect"} => ref = "main"
  /\ main # "none" \/ client # "none" \/ dog # "off"
       => pc \in {"wait", "collect", "finally", "returned"}
  /\ pc \in {"wait", "collect"} => main # "none" \/ client # "none"
  /\ main = "creating" => client # "none"
  /\ Docker => ~pip /\ pc \notin {"install", "installing", "installed", "check", "publish"}
  /\ pc \in {"begin", "install"} => inst = "none"
  /\ Subprocess => main # "creating" /\ (main = "alive" => pc = "wait")

\* Whoever kills has said so before, and what has ended by itself is over.
KillsHaveReasons ==
  /\ canceller = "kill" => cancelled
  /\ dog = "kill" => oom
  /\ inst = "killed" => cancelled \/ timedOut
  /\ main = "killed" => cancelled \/ timedOut \/ oom
  /\ Subprocess /\ timedOut => inst = "killed" \/ main = "killed"
  /\ pc \in {"publish", "spawn", "wait", "collect"} => inst \in {"none", "ok"}
  /\ pc = "collect" /\ ~timedOut => Over
  /\ result \in {"ok", "error"} => Over

SandboxInv ==
  TypeOK /\ ProcessesAt /\ KillsHaveReasons /\ CancelledIsStopped /\ KillIsReported

LEMMA SandboxInit == Init => SandboxInv
BY DEF Init, SandboxInv, TypeOK, ProcessesAt, KillsHaveReasons, CancelledIsStopped, KillIsReported,
       Subprocess, Docker, Over

LEMMA SandboxStep == SandboxInv /\ [Next]_vars => SandboxInv'
<1> SUFFICES ASSUME SandboxInv, [Next]_vars PROVE SandboxInv'
  OBVIOUS
<1> USE DEF SandboxInv, TypeOK, ProcessesAt, KillsHaveReasons, CancelledIsStopped, KillIsReported,
            Subprocess, Docker, LockFree, Over, locals, processes
<1>1. CASE Cancel
  BY <1>1 DEF Cancel
<1>2. CASE CancelKills
  BY <1>2 DEF CancelKills, Kill, Stop
<1>3. CASE DogBites
  BY <1>3 DEF DogBites
<1>4. CASE DogKills
  BY <1>4 DEF DogKills, Kill, Stop
<1>5. CASE Exits
  BY <1>5 DEF Exits
<1>6. CASE ContainerStarts \/ ContainerDropped
  BY <1>6 DEF ContainerStarts, ContainerDropped
<1>7. CASE Begin
  BY <1>7 DEF Begin, Goto, Finally
<1>8. CASE Install
  BY <1>8 DEF Install, Goto, Finally
<1>9. CASE InstallReturns \/ InstallCleared
  <2>1. CASE InstallReturns /\ inst # "alive"
    BY <2>1 DEF InstallReturns, Goto
  <2>3. CASE InstallReturns /\ inst = "alive"
    <3>1. timedOut' = TRUE /\ inst' = "killed" /\ pc' = "installed"
      BY <2>3 DEF InstallReturns, Goto
    <3>2. UNCHANGED <<locals, result, cancelled, canceller, ref, main, client, dog, oom>>
      BY <2>3 DEF InstallReturns
    <3>3. pc = "installing" /\ main = "none" /\ dog = "off"
      BY <2>3 DEF InstallReturns
    <3>4. TypeOK'
      BY <3>1, <3>2, <3>3
    <3>5. ProcessesAt'
      BY <3>1, <3>2, <3>3
    <3>6. KillsHaveReasons'
      BY <3>1, <3>2, <3>3
    <3> QED BY <3>1, <3>2, <3>3, <3>4, <3>5, <3>6
  <2>2. CASE InstallCleared
    BY <2>2 DEF InstallCleared, Goto
  <2> QED BY <1>9, <2>1, <2>2, <2>3
<1>10. CASE InstallChecked
  BY <1>10 DEF InstallChecked, Goto, Finally
<1>11. CASE Publish \/ Spawn
  BY <1>11 DEF Publish, Spawn, Goto, Finally
<1>12. CASE WaitReturns
  BY <1>12 DEF WaitReturns, Goto
<1>13. CASE LimitPasses
  BY <1>13 DEF LimitPasses, Kill, Stop, Goto
<1>14. CASE Collect
  BY <1>14 DEF Collect, Goto, Finally, Outcome
<1>15. CASE Return
  BY <1>15 DEF Return, Goto
<1>16. CASE UNCHANGED vars
  BY <1>16 DEF vars
<1> QED BY <1>1, <1>2, <1>3, <1>4, <1>5, <1>6, <1>7, <1>8, <1>9, <1>10, <1>11, <1>12, <1>13,
           <1>14, <1>15, <1>16 DEF Next, Work

\* Types, and that a job has a result exactly when its worker is done with it.
THEOREM SandboxTypeCorrect == Spec => []TypeOK
BY SandboxInit, SandboxStep, PTL DEF Spec, SandboxInv

\* Once cancel() has returned, no process of a subprocess job is alive, wherever in the
\* install and the start it came (sandbox.py:173, 274).
THEOREM CancelStops == Spec => []CancelledIsStopped
BY SandboxInit, SandboxStep, PTL DEF Spec, SandboxInv

\* A job whose process was killed, by cancel(), a limit or the watchdog, is not reported
\* as one that ended by itself (sandbox.py:301-312, 347-349, 387-390).
THEOREM KillsAreReported == Spec => []KillIsReported
BY SandboxInit, SandboxStep, PTL DEF Spec, SandboxInv

\* A subprocess job leaves no process behind when run() has returned.
THEOREM NothingIsLeft == Spec => []NothingLeft
<1>1. SandboxInv => NothingLeft
  BY DEF SandboxInv, TypeOK, ProcessesAt, NothingLeft, Subprocess
<1> QED BY <1>1, SandboxInit, SandboxStep, PTL DEF Spec

\* Where the outcome is set, and what it must be for JobRun to have it too.
LEMMA OutcomeIsReported ==
  ASSUME TypeOK, NEW o \in Run!Outcome, result = "none", result' = o,
         UNCHANGED <<locals, inst, main, client, cancelled, canceller>>,
         inst # "alive", Over \/ (o = "timeout" /\ ~Subprocess),
         o \in Run!OwnEnd => /\ inst # "killed" /\ main # "killed"
                            /\ (~cancelled \/ (main = "none" /\ client = "none")),
         o = "ok" => main # "none",
         o = "cancelled" => cancelled,
         o = "timeout" /\ Subprocess => inst = "killed" \/ main = "killed"
  PROVE  Run!Next
<1>1. Run!Report(o)
  BY DEF Run!Report, Subprocess, LockFree, Over, locals, TypeOK
<1> QED BY <1>1 DEF Run!Next

\* Where a process is started, and what has gone before.
LEMMA LaunchIsLaunch ==
  ASSUME result = "none", ~cancelled, UNCHANGED <<backend, result, cancelled>>,
         inst \notin {"alive", "killed"}, main = "none", client = "none",
         inst' # "killed", main' # "killed",
         \/ Subprocess /\ (inst' = "alive" \/ main' = "alive")
         \/ ~Subprocess /\ inst' # "alive" /\ main' = "creating"
  PROVE  Run!Next
<1>1. Run!Launch
  BY DEF Run!Launch, Subprocess
<1> QED BY <1>1 DEF Run!Next

\* A step that shows neither in a process nor in cancellation and result.
LEMMA UnseenByJobRun ==
  ASSUME UNCHANGED <<locals, inst, main, cancelled, canceller, result>>,
         main' # "none" \/ client' # "none" <=> main # "none" \/ client # "none"
  PROVE  UNCHANGED Run!vars
BY DEF Run!vars, Subprocess, LockFree, locals

\* What the steps of the sandbox are to the abstract job, one by one.
LEMMA StepIsJobRun ==
  ASSUME SandboxInv, [Next]_vars
  PROVE  Run!Next \/ UNCHANGED Run!vars
<1> USE DEF SandboxInv, TypeOK, ProcessesAt, KillsHaveReasons, Subprocess, Docker, LockFree, Over,
            locals, processes
<1>1. CASE Cancel
  BY <1>1 DEF Cancel, Run!Ask, Run!Next
<1>2. CASE CancelKills
  <2>1. CASE inst # "alive" /\ main # "alive"
    BY <1>2, <2>1 DEF CancelKills, Kill, Stop, Run!StopIt, Run!Next
  <2>2. CASE inst = "alive"
    BY <1>2, <2>2 DEF CancelKills, Kill, Stop, Run!StopIt, Run!Next
  <2>3. CASE main = "alive" /\ inst # "alive"
    BY <1>2, <2>3 DEF CancelKills, Kill, Stop, Run!StopIt, Run!Next
  <2> QED BY <2>1, <2>2, <2>3
<1>3. CASE DogKills
  BY <1>3 DEF DogKills, Kill, Stop, Run!Terminate, Run!Next, Run!vars
<1>4. CASE Exits
  BY <1>4 DEF Exits, Run!Terminate, Run!Next
<1>5. CASE ContainerStarts \/ ContainerDropped
  BY <1>5 DEF ContainerStarts, ContainerDropped, Run!Appear, Run!Next
<1>6. CASE Begin
  <2>1. CASE result' \in {"error", "raised"}
    BY <1>6, <2>1, OutcomeIsReported DEF Begin, Run!Outcome, Run!OwnEnd
  <2>2. CASE UNCHANGED result
    BY <1>6, <2>2, UnseenByJobRun DEF Begin
  <2> QED BY <1>6, <2>1, <2>2 DEF Begin
<1>7. CASE Install
  <2>1. CASE Finally("cancelled") /\ cancelled
    BY <1>7, <2>1, OutcomeIsReported DEF Install, Finally, Goto, Run!Outcome, Run!OwnEnd
  <2>3. CASE Finally("raised")
    BY <1>7, <2>3, OutcomeIsReported DEF Install, Finally, Goto, Run!Outcome, Run!OwnEnd
  <2>2. CASE ~cancelled /\ Goto("installing")
    <3>1. pc = "install" /\ inst = "none" /\ main = "none" /\ client = "none" /\ result = "none"
      BY <1>7 DEF Install
    <3>2. inst' = "alive" /\ UNCHANGED <<backend, main, result, cancelled>>
      BY <1>7, <2>2 DEF Install, Finally, Goto
    <3>3. Subprocess
      BY <3>1, BackendsAssumption
    <3> QED BY <2>2, <3>1, <3>2, <3>3, LaunchIsLaunch
  <2> QED BY <1>7, <2>1, <2>2, <2>3 DEF Install
<1>8. CASE InstallReturns
  BY <1>8 DEF InstallReturns, Goto, Run!Terminate, Run!Next, Run!vars
<1>9. CASE InstallChecked
  <2>1. CASE UNCHANGED result
    BY <1>9, <2>1, UnseenByJobRun DEF InstallChecked
  <2>2. CASE Finally("timeout") /\ timedOut
    BY <1>9, <2>2, OutcomeIsReported DEF InstallChecked, Finally, Goto, Run!Outcome, Run!OwnEnd
  <2>3. CASE Finally("cancelled") /\ cancelled
    BY <1>9, <2>3, OutcomeIsReported DEF InstallChecked, Finally, Goto, Run!Outcome, Run!OwnEnd
  <2>4. CASE Finally("error") /\ ~timedOut /\ ~cancelled
    BY <1>9, <2>4, OutcomeIsReported DEF InstallChecked, Finally, Goto, Run!Outcome, Run!OwnEnd
  <2> QED BY <1>9, <2>1, <2>2, <2>3, <2>4 DEF InstallChecked
<1>10. CASE Spawn
  <2>1. CASE Finally("cancelled") /\ cancelled
    BY <1>10, <2>1, OutcomeIsReported DEF Spawn, Finally, Goto, Run!Outcome, Run!OwnEnd
  <2>2. CASE Finally("raised") /\ ~cancelled
    BY <1>10, <2>2, OutcomeIsReported DEF Spawn, Finally, Goto, Run!Outcome, Run!OwnEnd
  <2>3. CASE Goto("wait")
    <3>1. /\ pc = "spawn" /\ inst \in {"none", "ok"} /\ main = "none" /\ client = "none"
          /\ result = "none"
      BY <1>10 DEF Spawn
    <3>2. ~cancelled /\ main' = IF Docker THEN "creating" ELSE "alive"
      BY <1>10, <2>3 DEF Spawn, Finally, Goto
    <3>3. UNCHANGED <<backend, inst, result, cancelled>>
      BY <1>10, <2>3 DEF Spawn, Finally, Goto
    <3> QED BY <3>1, <3>2, <3>3, LaunchIsLaunch, BackendsAssumption
  <2> QED BY <1>10, <2>1, <2>2, <2>3 DEF Spawn
<1>11. CASE LimitPasses
  BY <1>11 DEF LimitPasses, Kill, Stop, Goto, Run!Terminate, Run!Next, Run!vars
<1>12. CASE Collect
  <2>1. CASE Finally("timeout") /\ timedOut
    BY <1>12, <2>1, OutcomeIsReported DEF Collect, Finally, Goto, Run!Outcome, Run!OwnEnd
  <2>2. CASE Finally("oom") /\ ~timedOut
    BY <1>12, <2>2, OutcomeIsReported DEF Collect, Finally, Goto, Run!Outcome, Run!OwnEnd
  <2>3. CASE Finally("cancelled") /\ ~timedOut /\ cancelled
    BY <1>12, <2>3, OutcomeIsReported DEF Collect, Finally, Goto, Run!Outcome, Run!OwnEnd
  <2>4. CASE Finally(Outcome) /\ ~timedOut /\ ~oom /\ ~cancelled
    BY <1>12, <2>4, OutcomeIsReported DEF Collect, Finally, Goto, Outcome, Run!Outcome, Run!OwnEnd
  <2> QED BY <1>12, <2>1, <2>2, <2>3, <2>4 DEF Collect
<1>13. CASE DogBites \/ InstallCleared \/ WaitReturns \/ Return
  BY <1>13, UnseenByJobRun DEF DogBites, InstallCleared, WaitReturns, Return
<1>14. CASE UNCHANGED vars
  BY <1>14, UnseenByJobRun DEF vars
<1>15. CASE Publish
  <2>1. CASE Finally("error") \/ Finally("raised")
    BY <1>15, <2>1, OutcomeIsReported DEF Publish, Finally, Goto, Run!Outcome, Run!OwnEnd
  <2>2. CASE UNCHANGED result
    BY <1>15, <2>2, UnseenByJobRun DEF Publish
  <2> QED BY <1>15, <2>1, <2>2 DEF Publish
<1> QED BY <1>1, <1>2, <1>3, <1>4, <1>5, <1>6, <1>7, <1>8, <1>9, <1>10, <1>11, <1>12, <1>13,
           <1>14, <1>15 DEF Next, Work

\* Every behaviour of a sandbox's threads is one of JobRun: nothing is started after a
\* cancellation, and the one outcome owns up to a kill and, once the job has started, to
\* its cancellation (sandbox.py:173, 274, 315-317, 387-390).
THEOREM SandboxImplementsJobRun == Spec => ImplementsJobRun
<1>1. Init => Run!Init
  BY DEF Init, Run!Init, Subprocess, Docker
<1>2. SandboxInv /\ [Next]_vars => [Run!Next]_(Run!vars)
  BY StepIsJobRun
<1>3. Spec => Run!Spec
  BY <1>1, <1>2, SandboxInit, SandboxStep, PTL DEF Spec, Run!Spec
<1> QED BY <1>3 DEF ImplementsJobRun
=============================================================================
