---------------------------- MODULE ClockProofs -----------------------------
(***************************************************************************)
(* Proofs about module Clock, for counters of any width and any frame rate *)
(* that ClockAssumption allows: the types, that the loop is never faster   *)
(* than its frame rate, and that clock_sync implements a metronome on      *)
(* unbounded time.                                                         *)
(*                                                                         *)
(* The argument: tsc_clock is due modulo the width, and the time is never  *)
(* more than a step past due between two calls.  With the delay of the     *)
(* next call the distance stays below the width, so a difference of        *)
(* counters determines the difference of the times (MinusTimes).           *)
(***************************************************************************)
EXTENDS Clock, TLAPS

\* What % and \div compute, for any width.
LEMMA DivMod ==
  ASSUME NEW W \in Nat \ {0}, NEW x \in Int
  PROVE  /\ x % W \in 0 .. W - 1
         /\ x \div W \in Int
         /\ x = W * (x \div W) + (x % W)
OBVIOUS

\* A remainder is unique.
LEMMA UniqueRemainder ==
  ASSUME NEW W \in Nat \ {0}, NEW q \in Int, NEW r \in 0 .. W - 1,
         NEW p \in Int, NEW s \in 0 .. W - 1, W * q + r = W * p + s
  PROVE  r = s
<1>1. W * (q - p) = s - r
  OBVIOUS
<1>2. CASE q - p >= 1
  <2>1. W * (q - p) >= W
    BY <1>2
  <2> QED BY <2>1, <1>1
<1>3. CASE q - p <= -1
  <2>1. W * (q - p) <= -W
    BY <1>3
  <2> QED BY <2>1, <1>1
<1>4. CASE q - p = 0
  <2>1. W * (q - p) = 0
    BY <1>4
  <2> QED BY <1>1, <2>1
<1> QED BY <1>2, <1>3, <1>4

\* The remainder of a number that is written as a multiple and a rest.
LEMMA Remainder ==
  ASSUME NEW W \in Nat \ {0}, NEW x \in Int, NEW q \in Int, NEW r \in 0 .. W - 1,
         x = W * q + r
  PROVE  x % W = r
<1>1. /\ x % W \in 0 .. W - 1 /\ x \div W \in Int
      /\ x = W * (x \div W) + (x % W)
  BY DivMod
<1> QED BY <1>1, UniqueRemainder

\* The sum of a counter and a step is the counter of the sum.
LEMMA SumTimes ==
  ASSUME NEW W \in Nat \ {0}, NEW a \in Int, NEW d \in Int
  PROVE  ((a % W) + d) % W = (a + d) % W
<1>1. /\ a % W \in 0 .. W - 1 /\ a \div W \in Int
      /\ a = W * (a \div W) + (a % W)
  BY DivMod
<1> DEFINE s == a + d
<1>2. s \in Int
  OBVIOUS
<1>3. /\ s % W \in 0 .. W - 1 /\ s \div W \in Int
      /\ s = W * (s \div W) + (s % W)
  BY <1>2, DivMod
<1>4. (a % W) + d = W * ((s \div W) - (a \div W)) + (s % W)
  <2>1. W * ((s \div W) - (a \div W)) = W * (s \div W) - W * (a \div W)
    BY <1>1, <1>3
  <2> QED BY <1>1, <1>3, <2>1
<1>5. (a % W) + d \in Int /\ (s \div W) - (a \div W) \in Int
  BY <1>1, <1>3
<1> HIDE DEF s
<1>6. ((a % W) + d) % W = s % W
  BY <1>3, <1>4, <1>5, Remainder
<1> QED BY <1>6 DEF s

\* The difference of two counters is the difference of the times when these
\* are closer than the width, and its complement when it is negative.
LEMMA MinusTimes ==
  ASSUME NEW a \in Int, NEW b \in Int,
         WordSize \in Nat \ {0}, a - b < WordSize, b - a <= WordSize
  PROVE  Minus(a % WordSize, b % WordSize) = IF a >= b THEN a - b ELSE a - b + WordSize
<1> DEFINE W == WordSize
           diff == (a % W) - (b % W)
           quot == (b \div W) - (a \div W)
<1>1. /\ a % W \in 0 .. W - 1 /\ a \div W \in Int
      /\ a = W * (a \div W) + (a % W)
      /\ b % W \in 0 .. W - 1 /\ b \div W \in Int
      /\ b = W * (b \div W) + (b % W)
  BY DivMod
<1>2. diff \in Int /\ quot \in Int /\ W \in Nat \ {0}
  BY <1>1
<1>3. diff = W * quot + (a - b)
  <2>1. W * ((b \div W) - (a \div W)) = W * (b \div W) - W * (a \div W)
    BY <1>1
  <2> QED BY <1>1, <2>1
<1>4. Minus(a % W, b % W) = diff % W
  BY DEF Minus
<1> HIDE DEF diff, quot, W
<1>5. CASE a >= b
  <2>1. a - b \in 0 .. W - 1
    BY <1>5 DEF W
  <2>2. diff % W = a - b
    BY <1>2, <1>3, <2>1, Remainder
  <2> QED BY <1>4, <1>5, <2>2 DEF W
<1>6. CASE ~(a >= b)
  <2>1. a - b + W \in 0 .. W - 1
    BY <1>6 DEF W
  <2>2. diff = W * (quot - 1) + (a - b + W) /\ quot - 1 \in Int
    <3>1. W * (quot - 1) = W * quot - W
      BY <1>2
    <3> QED BY <1>2, <1>3, <3>1
  <2>3. diff % W = a - b + W
    BY <1>2, <2>1, <2>2, Remainder
  <2> QED BY <1>4, <1>6, <2>3 DEF W
<1> QED BY <1>5, <1>6

-----------------------------------------------------------------------------

\* The rhythm is at most a step behind, and sleeping ends with the step.
OnTime ==
  /\ tsc_clock = due % WordSize
  /\ due <= now /\ now <= due + tsc_step
  /\ pc = "sleep" => now + tv * TscPerUsec <= due + tsc_step

\* The beats so far are at least a step apart.
BeatsApart ==
  /\ pc # "frame" => frames > 0
  /\ Finished * tsc_step <= due - start

ClockInv == TypeOK /\ OnTime /\ BeatsApart

LEMMA StepPositive == tsc_step \in Nat /\ tsc_step > 0
<1>1. UsecGoal \in Nat /\ TscPerUsec \in Nat /\ UsecGoal > 0 /\ TscPerUsec > 0
  BY ClockAssumption
<1>2. UsecGoal * TscPerUsec \in Nat /\ UsecGoal * TscPerUsec > 0
  BY <1>1
<1> QED BY <1>2 DEF tsc_step

\* The conversion to microseconds rounds down: sleeping takes no longer than
\* the ticks that are left.
LEMMA UsecBound ==
  ASSUME NEW delta \in Nat
  PROVE  /\ tscdelta_to_usec(delta) \in Nat
         /\ tscdelta_to_usec(delta) * TscPerUsec <= delta
<1> DEFINE T == TscPerUsec
           S == Scale
           m == S \div T
           x == delta * m
           u == x \div S
<1>1. T \in Nat \ {0} /\ S \in Nat \ {0}
  BY ClockAssumption
<1>2. m \in Int /\ S % T \in 0 .. T - 1 /\ S = T * m + (S % T)
  BY <1>1, DivMod
<1>3. m \in Nat /\ T * m <= S
  <2>1. T * m <= S
    BY <1>1, <1>2
  <2>2. m >= 0
    <3> SUFFICES ASSUME m <= -1 PROVE FALSE
      BY <1>2
    <3>1. T * m <= -T
      BY <1>1, <1>2
    <3> QED BY <1>1, <1>2, <3>1
  <2> QED BY <1>2, <2>1, <2>2
<1> HIDE DEF m
<1>4. x \in Nat
  BY <1>3
<1>5. u \in Int /\ x % S \in 0 .. S - 1 /\ x = S * u + (x % S)
  <2> HIDE DEF x
  <2> QED BY <1>1, <1>4, DivMod
<1>6. S * u <= delta * m
  BY <1>1, <1>4, <1>5
<1>7. tscdelta_to_usec(delta) = u
  BY DEF tscdelta_to_usec, median_usec_per_tsc, m
<1> HIDE DEF u, x, S, T
<1>8. u \in Nat
  <2> SUFFICES ASSUME u <= -1 PROVE FALSE
    BY <1>5
  <2>1. S * u <= -S
    BY <1>1, <1>5
  <2> QED BY <1>1, <1>4, <1>5, <2>1
<1>9. u * T <= delta
  <2>1. (S * u) * T <= (delta * m) * T
    BY <1>1, <1>3, <1>6, <1>8
  <2>2. (delta * m) * T = delta * (T * m)
    BY <1>1, <1>3
  <2>3. delta * (T * m) <= delta * S
    BY <1>1, <1>3
  <2>4. (S * u) * T = S * (u * T) /\ delta * S = S * delta
    BY <1>1, <1>8
  <2>5. S * (u * T) <= S * delta
    BY <2>1, <2>2, <2>3, <2>4, <1>1, <1>3, <1>8
  <2>6. u * T \in Nat
    BY <1>1, <1>8
  <2> SUFFICES ASSUME u * T >= delta + 1 PROVE FALSE
    BY <2>6
  <2>7. S * (u * T) >= S * (delta + 1)
    BY <1>1, <2>6
  <2>8. S * (delta + 1) = S * delta + S
    BY <1>1
  <2> QED BY <1>1, <2>5, <2>6, <2>7, <2>8
<1> QED BY <1>7, <1>8, <1>9 DEF T

\* Less than a step is less than a frame's microseconds.
LEMMA UsecBelow ==
  ASSUME NEW u \in Nat, u * TscPerUsec < tsc_step
  PROVE  u \in 0 .. UsecGoal - 1
<1>1. UsecGoal \in Nat \ {0} /\ TscPerUsec \in Nat \ {0}
  BY ClockAssumption
<1>2. CASE u >= UsecGoal
  <2> DEFINE k == u - UsecGoal
  <2>1. k \in Nat /\ u = UsecGoal + k
    BY <1>1, <1>2
  <2>2. u * TscPerUsec = UsecGoal * TscPerUsec + k * TscPerUsec
    BY <1>1, <2>1
  <2>3. k * TscPerUsec \in Nat /\ UsecGoal * TscPerUsec \in Nat
    BY <1>1, <2>1
  <2> QED BY <2>2, <2>3 DEF tsc_step
<1> QED BY <1>1, <1>2

\* What clock_sync decides about a call at time t, in terms of times.
LEMMA CallTimes ==
  ASSUME ClockInv, NEW delay \in 1 .. MaxDelay
  PROVE  LET t == now + delay
         IN  /\ t \in Nat /\ t > now /\ t > due
             /\ tsc_next = (due + tsc_step) % WordSize
             /\ Early(t) <=> t <= due + tsc_step
             /\ Early(t) => Minus(tsc_next, t % WordSize) = due + tsc_step - t
             /\ ~Early(t) => (SlightlyOver(t) <=> t <= due + 2 * tsc_step)
<1> DEFINE t == now + delay
           next == due + tsc_step
<1>1. /\ WordSize \in Nat \ {0} /\ MaxDelay \in Nat
      /\ 2 * tsc_step + MaxDelay < WordSize
  BY ClockAssumption
<1>2. tsc_step \in Nat /\ tsc_step > 0
  BY StepPositive
<1>3. /\ now \in Nat /\ due \in Nat /\ due <= now /\ now <= due + tsc_step
      /\ tsc_clock = due % WordSize
  BY DEF ClockInv, TypeOK, OnTime
<1>4. t \in Nat /\ t > now /\ t > due /\ next \in Nat
  BY <1>1, <1>2, <1>3
<1>5. tsc_next = next % WordSize
  <2>1. due \in Int /\ tsc_step \in Int
    BY <1>2, <1>3
  <2>2. ((due % WordSize) + tsc_step) % WordSize = (due + tsc_step) % WordSize
    BY <1>1, <2>1, SumTimes, Zenon
  <2> QED BY <1>3, <2>2, Zenon DEF tsc_next
<1>6. next - t < WordSize /\ t - next <= WordSize /\ t - next < WordSize /\ next - t <= WordSize
  BY <1>1, <1>2, <1>3, <1>4
<1>11. t \in Int /\ next \in Int
  BY <1>4
<1>7. Minus(tsc_next, t % WordSize) = IF next >= t THEN next - t ELSE next - t + WordSize
  <2> HIDE DEF t, next
  <2> QED BY <1>1, <1>5, <1>6, <1>11, MinusTimes, Zenon
<1>8. Minus(t % WordSize, tsc_next) = IF t >= next THEN t - next ELSE t - next + WordSize
  <2> HIDE DEF t, next
  <2> QED BY <1>1, <1>5, <1>6, <1>11, MinusTimes, Zenon
<1>9. Early(t) <=> t <= next
  BY <1>1, <1>2, <1>3, <1>4, <1>7 DEF Early
<1>10. ~Early(t) => (SlightlyOver(t) <=> t <= due + 2 * tsc_step)
  BY <1>1, <1>2, <1>3, <1>4, <1>8, <1>9 DEF SlightlyOver
<1> QED BY <1>4, <1>5, <1>7, <1>9, <1>10, <1>2, <1>3

\* Beats that were apart stay so when one more comes a step or more later.
LEMMA OneMoreBeat ==
  ASSUME NEW n \in Nat, n > 0, NEW d \in Int, (n - 1) * tsc_step <= d
  PROVE  n * tsc_step <= d + tsc_step
<1>1. tsc_step \in Nat
  BY StepPositive
<1>2. n * tsc_step = (n - 1) * tsc_step + tsc_step
  BY <1>1
<1>3. (n - 1) * tsc_step \in Int
  BY <1>1
<1> QED BY <1>1, <1>2, <1>3

LEMMA InitInv == Init => ClockInv
<1> SUFFICES ASSUME Init PROVE ClockInv
  OBVIOUS
<1>1. /\ WordSize \in Nat \ {0} /\ Starts \subseteq Nat /\ MaxFrames \in Nat
      /\ UsecGoal \in Nat \ {0}
  BY ClockAssumption
<1>2. tsc_step \in Nat /\ tsc_step > 0
  BY StepPositive
<1>3. /\ pc = "frame" /\ now \in Nat /\ jerk = 0 /\ frames = 0 /\ tv = 0
      /\ due = now /\ start = now /\ tsc_clock = now % WordSize
  BY <1>1 DEF Init, ClockAtStart
<1>4. now % WordSize \in 0 .. WordSize - 1
  BY <1>1, <1>3, DivMod
<1>5. TypeOK
  BY <1>1, <1>3, <1>4 DEF TypeOK
<1>6. OnTime
  BY <1>2, <1>3 DEF OnTime
<1>7. BeatsApart
  <2>1. 0 * tsc_step = 0
    BY <1>2
  <2> QED BY <1>3, <2>1 DEF BeatsApart, Finished
<1> QED BY <1>5, <1>6, <1>7 DEF ClockInv

\* One step of the loop keeps the invariant and is a step of the metronome.
LEMMA StepInv ==
  ASSUME ClockInv, [Next]_vars
  PROVE  ClockInv' /\ (Beats!Next \/ UNCHANGED <<now, due>>)
<1> USE DEF ClockInv
<1>1. /\ WordSize \in Nat \ {0} /\ MaxFrames \in Nat /\ UsecGoal \in Nat \ {0}
      /\ TscPerUsec \in Nat \ {0} /\ MaxDelay \in Nat
  BY ClockAssumption
<1>2. tsc_step \in Nat /\ tsc_step > 0
  BY StepPositive
<1>3. /\ now \in Nat /\ due \in Nat /\ start \in Nat /\ jerk \in Nat
      /\ frames \in 0 .. MaxFrames /\ tv \in 0 .. UsecGoal - 1
      /\ tsc_clock \in 0 .. WordSize - 1 /\ pc \in {"frame", "sync", "sleep"}
  BY DEF TypeOK
<1>4. /\ tsc_clock = due % WordSize /\ due <= now /\ now <= due + tsc_step
      /\ pc = "sleep" => now + tv * TscPerUsec <= due + tsc_step
  BY DEF OnTime
<1>5. /\ pc = "frame" => frames * tsc_step <= due - start
      /\ pc # "frame" => frames > 0 /\ (frames - 1) * tsc_step <= due - start
  BY DEF BeatsApart, Finished
<1>6. CASE LoopOne
  <2>1. /\ pc = "frame" /\ frames < MaxFrames /\ frames' = frames + 1 /\ pc' = "sync"
        /\ UNCHANGED <<now, tsc_clock, jerk, tv, due, start>>
    BY <1>6 DEF LoopOne
  <2>2. TypeOK' /\ OnTime'
    BY <1>1, <1>3, <1>4, <2>1 DEF TypeOK, OnTime
  <2>3. BeatsApart'
    <3>1. Finished' = frames
      BY <1>3, <2>1 DEF Finished
    <3> QED BY <1>1, <1>3, <1>5, <2>1, <3>1 DEF BeatsApart
  <2> QED BY <2>1, <2>2, <2>3
<1>7. ASSUME NEW delay \in 1 .. MaxDelay, ClockEarly(now + delay)
      PROVE  ClockInv' /\ Beats!Wait
  <2> DEFINE t == now + delay
             delta == due + tsc_step - t
  <2>1. /\ t \in Nat /\ t > now /\ t <= due + tsc_step
        /\ Minus(tsc_next, t % WordSize) = delta
    BY <1>7, CallTimes DEF ClockEarly
  <2>2. /\ now' = t /\ tv' = tscdelta_to_usec(delta) /\ pc = "sync"
        /\ pc' \in {"sync", "sleep"}
        /\ UNCHANGED <<tsc_clock, jerk, due, frames, start>>
    BY <1>7, <2>1 DEF ClockEarly, ClockSync
  <2>3. delta \in Nat /\ delta < tsc_step
    BY <1>2, <1>3, <1>4, <2>1
  <2>4. tv' \in Nat /\ tv' * TscPerUsec <= delta
    <3> HIDE DEF delta
    <3> QED BY <2>2, <2>3, UsecBound
  <2> HIDE DEF delta
  <2>5. tv' \in 0 .. UsecGoal - 1
    <3>1. tv' * TscPerUsec \in Int
      BY <1>1, <2>4
    <3>2. tv' * TscPerUsec < tsc_step
      BY <1>2, <2>3, <2>4, <3>1
    <3> QED BY <2>4, <3>2, UsecBelow
  <2>6. TypeOK'
    BY <1>1, <1>3, <2>1, <2>2, <2>5 DEF TypeOK
  <2>7. OnTime'
    <3>1. tv' * TscPerUsec \in Int
      BY <1>1, <2>4
    <3> QED BY <1>2, <1>3, <1>4, <2>1, <2>2, <2>3, <2>4, <3>1 DEF OnTime, delta
  <2>8. BeatsApart'
    BY <1>5, <2>2 DEF BeatsApart, Finished
  <2>9. Beats!Wait
    BY <1>3, <2>1, <2>2 DEF Beats!Wait
  <2> QED BY <2>6, <2>7, <2>8, <2>9
<1>8. ASSUME NEW delay \in 1 .. MaxDelay, ClockAdvance(now + delay)
      PROVE  ClockInv' /\ Beats!Beat
  <2> DEFINE t == now + delay
  <2>1. /\ t \in Nat /\ t > now /\ t > due + tsc_step /\ t <= due + 2 * tsc_step
        /\ tsc_next = (due + tsc_step) % WordSize
    <3>1. ~Early(t) /\ SlightlyOver(t)
      BY <1>8 DEF ClockAdvance
    <3>2. /\ t \in Nat /\ t > now /\ t <= due + 2 * tsc_step
          /\ tsc_next = (due + tsc_step) % WordSize /\ ~(t <= due + tsc_step)
      BY <3>1, CallTimes
    <3> QED BY <1>2, <1>3, <3>2
  <2>2. /\ now' = t /\ tsc_clock' = tsc_next /\ due' = due + tsc_step
        /\ pc = "sync" /\ pc' = "frame"
        /\ UNCHANGED <<jerk, tv, frames, start>>
    BY <1>8 DEF ClockAdvance, ClockSync
  <2>3. due + tsc_step \in Int /\ (due + tsc_step) % WordSize \in 0 .. WordSize - 1
    BY <1>1, <1>2, <1>3, DivMod
  <2>4. TypeOK'
    BY <1>1, <1>2, <1>3, <2>1, <2>2, <2>3 DEF TypeOK
  <2>5. OnTime'
    BY <1>2, <1>3, <2>1, <2>2 DEF OnTime
  <2>6. BeatsApart'
    <3>1. frames * tsc_step <= (due - start) + tsc_step
      BY <1>3, <1>5, <2>2, OneMoreBeat
    <3>2. frames * tsc_step \in Int
      BY <1>2, <1>3
    <3> QED BY <1>2, <1>3, <2>2, <3>1, <3>2 DEF BeatsApart, Finished
  <2>7. Beats!Beat
    BY <1>2, <1>3, <2>1, <2>2 DEF Beats!Beat
  <2> QED BY <2>4, <2>5, <2>6, <2>7
<1>9. ASSUME NEW delay \in 1 .. MaxDelay, ClockJerk(now + delay)
      PROVE  ClockInv' /\ Beats!Restart
  <2> DEFINE t == now + delay
  <2>1. t \in Nat /\ t > now /\ t > due + 2 * tsc_step
    <3>1. ~Early(t) /\ ~SlightlyOver(t)
      BY <1>9 DEF ClockJerk
    <3>2. t \in Nat /\ t > now /\ ~(t <= due + 2 * tsc_step)
      BY <3>1, CallTimes
    <3> QED BY <1>2, <1>3, <3>2
  <2>2. /\ now' = t /\ tsc_clock' = t % WordSize /\ due' = t
        /\ pc = "sync" /\ pc' = "frame" /\ jerk' = jerk + 1
        /\ UNCHANGED <<tv, frames, start>>
    BY <1>9 DEF ClockJerk, ClockSync
  <2>3. t % WordSize \in 0 .. WordSize - 1
    BY <1>1, <2>1, DivMod, SMTT(30)
  <2>4. TypeOK'
    BY <1>1, <1>3, <2>1, <2>2, <2>3 DEF TypeOK
  <2>5. OnTime'
    BY <1>2, <2>1, <2>2 DEF OnTime
  <2>6. BeatsApart'
    <3>1. frames * tsc_step <= (due - start) + tsc_step
      BY <1>3, <1>5, <2>2, OneMoreBeat
    <3>2. frames * tsc_step \in Int
      BY <1>2, <1>3
    <3> QED BY <1>2, <1>3, <2>1, <2>2, <3>1, <3>2 DEF BeatsApart, Finished
  <2>7. Beats!Restart
    BY <2>1, <2>2 DEF Beats!Restart
  <2> QED BY <2>4, <2>5, <2>6, <2>7
<1>10. CASE Nanosleep
  <2> DEFINE slept == tv * TscPerUsec
  <2>1. /\ pc = "sleep" /\ now' = now + slept /\ tv' = 0 /\ pc' = "sync"
        /\ UNCHANGED <<tsc_clock, jerk, frames, due, start>>
    BY <1>10 DEF Nanosleep
  <2>2. slept \in Nat /\ now + slept <= due + tsc_step
    BY <1>1, <1>3, <1>4, <2>1
  <2> HIDE DEF slept
  <2>3. TypeOK' /\ OnTime'
    BY <1>1, <1>2, <1>3, <1>4, <2>1, <2>2 DEF TypeOK, OnTime
  <2>4. BeatsApart'
    BY <1>5, <2>1 DEF BeatsApart, Finished
  <2>5. Beats!Wait \/ UNCHANGED <<now, due>>
    BY <1>3, <2>1, <2>2 DEF Beats!Wait
  <2> QED BY <2>3, <2>4, <2>5 DEF Beats!Next
<1>11. ASSUME NEW n \in 1 .. UsecGoal, NanosleepInterrupted(n)
       PROVE  ClockInv' /\ (Beats!Next \/ UNCHANGED <<now, due>>)
  <2> DEFINE slept == n * TscPerUsec
             rest == (tv - n) * TscPerUsec
  <2>1. /\ pc = "sleep" /\ n < tv /\ now' = now + slept /\ tv' = tv - n
        /\ UNCHANGED <<pc, tsc_clock, jerk, frames, due, start>>
    BY <1>11 DEF NanosleepInterrupted
  <2>2. slept \in Nat /\ rest \in Nat /\ slept + rest = tv * TscPerUsec
    BY <1>1, <1>3, <2>1
  <2>3. tv' * TscPerUsec = rest
    BY <2>1
  <2> HIDE DEF slept, rest
  <2>4. now + slept + rest <= due + tsc_step
    BY <1>3, <1>4, <2>1, <2>2
  <2>5. TypeOK'
    BY <1>1, <1>3, <2>1, <2>2 DEF TypeOK
  <2>6. OnTime'
    BY <1>2, <1>3, <1>4, <2>1, <2>2, <2>3, <2>4 DEF OnTime
  <2>7. BeatsApart'
    BY <1>5, <2>1 DEF BeatsApart, Finished
  <2>8. Beats!Wait \/ UNCHANGED <<now, due>>
    BY <1>2, <1>3, <2>1, <2>2, <2>4 DEF Beats!Wait
  <2> QED BY <2>5, <2>6, <2>7, <2>8 DEF Beats!Next
<1>12. CASE UNCHANGED vars
  BY <1>12 DEF vars, TypeOK, OnTime, BeatsApart, Finished
<1> QED BY <1>6, <1>7, <1>8, <1>9, <1>10, <1>11, <1>12 DEF Next, Beats!Next

\* The invariant of the frame clock.
THEOREM ClockInvHolds == Spec => []ClockInv
<1>1. ClockInv /\ [Next]_vars => ClockInv'
  BY StepInv
<1> QED BY <1>1, InitInv, PTL DEF Spec

\* loop_one sleeps for less than a frame and tsc_clock stays a counter.
THEOREM TypeCorrect == Spec => []TypeOK
<1>1. ClockInv => TypeOK
  BY DEF ClockInv
<1> QED BY <1>1, ClockInvHolds, PTL

\* The loop is never faster than its frame rate: catching up after late frames
\* ends where the rhythm would be.
THEOREM RateBoundedHolds == Spec => []RateBounded
<1>1. ClockInv => RateBounded
  <2> SUFFICES ASSUME ClockInv PROVE RateBounded
    OBVIOUS
  <2>1. /\ now \in Nat /\ due \in Nat /\ start \in Nat /\ due <= now
        /\ frames \in Nat /\ Finished * tsc_step <= due - start
    BY ClockAssumption DEF ClockInv, TypeOK, OnTime, BeatsApart
  <2>2. Finished * tsc_step \in Int
    BY <2>1, StepPositive DEF Finished
  <2> QED BY <2>1, <2>2 DEF RateBounded
<1> QED BY <1>1, ClockInvHolds, PTL

\* clock_sync on wrapping counters implements the metronome on time.
THEOREM ClockImplementsMetronome == Spec => ImplementsMetronome
<1>1. Init => Beats!Init
  BY ClockAssumption DEF Init, Beats!Init
<1>2. ClockInv /\ [Next]_vars => [Beats!Next]_<<now, due>>
  BY StepInv
<1> QED BY <1>1, <1>2, ClockInvHolds, PTL DEF Spec, ImplementsMetronome, Beats!Spec
=============================================================================
