----------------------------- MODULE Metronome ------------------------------
(***************************************************************************)
(* What the frame clock promises: beats that are Step apart, on a clock    *)
(* that never wraps.  A beat comes only when its time has passed and as    *)
(* soon as anyone looks; one that is late by more than a step restarts the *)
(* rhythm.                                                                 *)
(***************************************************************************)
EXTENDS Naturals

CONSTANT Step

VARIABLES
  now,  \* the time
  due   \* the time the last beat was due at

Init == now \in Nat /\ due = now

\* Time passes before the next beat is due, and not beyond.
Wait ==
  /\ now' > now
  /\ now' <= due + Step
  /\ UNCHANGED due

\* A beat in time, or late by at most a step: the rhythm is kept.
Beat ==
  /\ now' > now
  /\ due + Step < now' /\ now' <= due + 2 * Step
  /\ due' = due + Step

\* A beat that is later: the rhythm starts over.
Restart ==
  /\ now' > due + 2 * Step
  /\ due' = now'

Next == Wait \/ Beat \/ Restart
Spec == Init /\ [][Next]_<<now, due>>
=============================================================================
