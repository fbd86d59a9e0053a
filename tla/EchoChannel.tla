---------------------------- MODULE EchoChannel -----------------------------
(***************************************************************************)
(* What the local relay promises to the console: the commands it sends     *)
(* come back whole and in order.  After a write was cut short only their   *)
(* number is promised: nothing comes back that was not sent for.  Module   *)
(* Lockstep uses the relay in this view.                                   *)
(***************************************************************************)
EXTENDS Naturals, Sequences

VARIABLES
  sent,      \* commands written by the console
  received,  \* commands the console recorded from the relay
  cut        \* a write was cut short

vars == <<sent, received, cut>>

Init == sent = <<>> /\ received = <<>> /\ cut = FALSE

\* One command more; the write may be cut short.
EchoSend ==
  /\ Len(sent') = Len(sent) + 1
  /\ SubSeq(sent', 1, Len(sent)) = sent
  /\ cut => cut'
  /\ UNCHANGED received

\* The next command comes back.
EchoDeliver ==
  /\ Len(received) < Len(sent)
  /\ Len(received') = Len(received) + 1
  /\ SubSeq(received', 1, Len(received)) = received
  /\ ~cut => received'[Len(received) + 1] = sent[Len(received) + 1]
  /\ UNCHANGED <<sent, cut>>

Next == EchoSend \/ EchoDeliver

Spec == Init /\ [][Next]_vars
=============================================================================
