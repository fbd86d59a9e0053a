------------------------------- MODULE Clock --------------------------------
(***************************************************************************)
(* The frame clock: clock_init and clock_sync of platform_clock.c, called  *)
(* by loop_one of loop.c until the frame's time has passed.                *)
(*                                                                         *)
(* now is the time in ticks of the counter since some origin; rdtsc        *)
(* returns it modulo WordSize.  due is history: the time that tsc_clock    *)
(* stands for.  Time passes between two reads of the counter (the work of  *)
(* a frame included) and while the thread sleeps.  The calibration is      *)
(* external: it gives TscPerUsec.  frame_to_frame_tsc is only used by      *)
(* clock_delta_usec, which nothing calls.                                  *)
(***************************************************************************)
EXTENDS Integers

CONSTANTS
  WordSize,    \* 2^64
  UsecGoal,    \* loop_init: microseconds of a frame
  TscPerUsec,  \* external: what __tsc_per_usec measures
  Scale,       \* 2^33, the fixed point of the conversion
  SleepEnable, \* the -y option
  Starts,      \* external: the counter when the loop starts
  MaxDelay,    \* ticks between two reads of the counter
  MaxFrames    \* bound: frames of the run

\* The conversions of clock_init.
tsc_step == UsecGoal * TscPerUsec
median_usec_per_tsc == Scale \div TscPerUsec

\* Frames and delays are short of the width of the counter.
ASSUME ClockAssumption ==
  /\ WordSize \in Nat \ {0} /\ UsecGoal \in Nat \ {0} /\ TscPerUsec \in Nat \ {0}
  /\ Scale \in Nat \ {0} /\ SleepEnable \in BOOLEAN
  /\ Starts \subseteq Nat /\ MaxDelay \in Nat /\ MaxFrames \in Nat
  /\ 2 * tsc_step + MaxDelay < WordSize

VARIABLES
  pc,         \* "frame", or inside loop_one "sync" or "sleep"
  now,        \* the time
  tsc_clock,  \* clock->tsc_clock
  jerk,       \* clock->jerk
  frames,     \* frame + pause_frame + stall_frame
  tv,         \* microseconds left to sleep
  due,        \* history: the time of tsc_clock
  start       \* history: the time of clock_init

vars == <<pc, now, tsc_clock, jerk, frames, tv, due, start>>

\* clock_init starts at the current time.
\* As a mutant: at the beginning of the counter.
ClockAtZero == 0
ClockAtStart == now % WordSize

Init ==
  /\ pc = "frame"
  /\ now \in Starts
  /\ tsc_clock = ClockAtStart
  /\ jerk = 0
  /\ frames = 0
  /\ tv = 0
  /\ due = now
  /\ start = now

\* Subtraction of counters.
Minus(a, b) == (a - b) % WordSize

\* __tscdelta_to_usec: fixed point, rounded down.
\* As a mutant: rounded up.
UsecRoundedUp(delta) == (delta * median_usec_per_tsc) \div Scale + 1
tscdelta_to_usec(delta) == (delta * median_usec_per_tsc) \div Scale

\* loop_stall, loop_pause and loop_sync: the counter, then clock_sync until
\* it returns true.
LoopOne ==
  /\ pc = "frame"
  /\ frames < MaxFrames
  /\ frames' = frames + 1
  /\ pc' = "sync"
  /\ UNCHANGED <<now, tsc_clock, jerk, tv, due, start>>

tsc_next == (tsc_clock + tsc_step) % WordSize

\* The two comparisons of clock_sync, at a time t.
\* As a mutant: counters are compared instead of their difference.
EarlyByOrder(t) == t % WordSize < tsc_next
Early(t) == Minus(tsc_next, t % WordSize) < tsc_step
SlightlyOver(t) == Minus(t % WordSize, tsc_next) <= tsc_step

\* A call of clock_sync that reads the counter at t.
ClockSync(t) ==
  /\ pc = "sync"
  /\ now' = t
  /\ UNCHANGED <<frames, start>>

\* Not yet: wait, asleep or busy.
ClockEarly(t) ==
  /\ Early(t)
  /\ ClockSync(t)
  /\ tv' = tscdelta_to_usec(Minus(tsc_next, t % WordSize))
  /\ pc' = IF SleepEnable THEN "sleep" ELSE "sync"
  /\ UNCHANGED <<tsc_clock, jerk, due>>

\* The time has passed, by at most a step.
ClockAdvance(t) ==
  /\ ~Early(t) /\ SlightlyOver(t)
  /\ ClockSync(t)
  /\ tsc_clock' = tsc_next
  /\ due' = due + tsc_step
  /\ pc' = "frame"
  /\ UNCHANGED <<jerk, tv>>

\* By more: the rhythm is lost.
ClockJerk(t) ==
  /\ ~Early(t) /\ ~SlightlyOver(t)
  /\ ClockSync(t)
  /\ tsc_clock' = t % WordSize
  /\ due' = t
  /\ jerk' = jerk + 1
  /\ pc' = "frame"
  /\ UNCHANGED tv

\* nanosleep returns after the time it was given.
Nanosleep ==
  /\ pc = "sleep"
  /\ now' = now + tv * TscPerUsec
  /\ tv' = 0
  /\ pc' = "sync"
  /\ UNCHANGED <<tsc_clock, jerk, frames, due, start>>

\* It was interrupted: the time that remains is slept next.
NanosleepInterrupted(slept) ==
  /\ pc = "sleep"
  /\ slept < tv
  /\ now' = now + slept * TscPerUsec
  /\ tv' = tv - slept
  /\ UNCHANGED <<pc, tsc_clock, jerk, frames, due, start>>

Next ==
  \/ LoopOne
  \/ \E delay \in 1 .. MaxDelay :
       ClockEarly(now + delay) \/ ClockAdvance(now + delay) \/ ClockJerk(now + delay)
  \/ Nanosleep
  \/ \E slept \in 1 .. UsecGoal : NanosleepInterrupted(slept)

Spec == Init /\ [][Next]_vars

-----------------------------------------------------------------------------
(***************************************************************************)
(* Properties.                                                             *)
(***************************************************************************)

\* Every variable has its type; a thread never sleeps for a frame or longer,
\* so tv_nsec stays below a second.
TypeOK ==
  /\ pc \in {"frame", "sync", "sleep"}
  /\ now \in Nat /\ due \in Nat /\ start \in Nat
  /\ tsc_clock \in 0 .. WordSize - 1
  /\ jerk \in Nat
  /\ frames \in 0 .. MaxFrames
  /\ tv \in 0 .. UsecGoal - 1

\* Frames that are over.
Finished == IF pc = "frame" THEN frames ELSE frames - 1

\* The loop is never faster than its frame rate, however late frames are caught
\* up with and wherever the counter wraps.
RateBounded == Finished * tsc_step <= now - start

\* The comparisons of wrapped counters decide as comparisons of times would: a
\* frame ends only after its time and at the first look after it, sleeping
\* never goes beyond it, a late frame keeps the rhythm and a frame that is more
\* than a step late restarts it.
Beats == INSTANCE Metronome WITH Step <- tsc_step
ImplementsMetronome == Beats!Spec
=============================================================================
