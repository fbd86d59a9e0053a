----------------------------- MODULE CommandLog -----------------------------
(***************************************************************************)
(* What a record promises: an append-only log of commands, and readers     *)
(* that each go through it in order from the first command on.  Module     *)
(* Lockstep uses records in this view; module Record has the bytes of      *)
(* record.c and implements it.                                             *)
(***************************************************************************)
EXTENDS Naturals, Sequences

CONSTANTS
  Commands,  \* what may be appended
  Readers,   \* the offsets that read the log
  None       \* a read that found nothing

VARIABLES
  log,  \* the commands appended
  pos,  \* how many of them each reader has read
  ret   \* what the last read returned

vars == <<log, pos, ret>>

Init ==
  /\ log = <<>>
  /\ pos = [r \in Readers |-> 0]
  /\ ret = None

LogAppend(cmd) ==
  /\ log' = Append(log, cmd)
  /\ UNCHANGED <<pos, ret>>

\* The next command is returned.
LogRead(r) ==
  /\ pos[r] < Len(log)
  /\ pos' = [pos EXCEPT ![r] = @ + 1]
  /\ ret' = log[pos[r] + 1]
  /\ UNCHANGED log

\* Only a reader that has read everything is told that there is no more.
LogEnd(r) ==
  /\ pos[r] = Len(log)
  /\ ret' = None
  /\ UNCHANGED <<log, pos>>

LogRewind(r) ==
  /\ pos' = [pos EXCEPT ![r] = 0]
  /\ UNCHANGED <<log, ret>>

Next ==
  \/ \E cmd \in Commands : LogAppend(cmd)
  \/ \E r \in Readers : LogRead(r) \/ LogEnd(r) \/ LogRewind(r)

Spec == Init /\ [][Next]_vars
=============================================================================
