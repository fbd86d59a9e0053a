----------------------------- MODULE LineStream -----------------------------
(***************************************************************************)
(* What a reader of lines promises: bytes arrive, every byte belongs to    *)
(* one line, and a line is handed over whole, once and in order when its   *)
(* newline has come.  Only bytes that do not make a line yet may be given  *)
(* up.                                                                     *)
(***************************************************************************)
EXTENDS Naturals, Sequences

CONSTANTS NL, None

VARIABLES
  owed,  \* bytes that arrived and are not handed over
  line   \* the last line handed over

vars == <<owed, line>>

Init == owed = <<>> /\ line = None

Arrive ==
  /\ Len(owed') >= Len(owed)
  /\ SubSeq(owed', 1, Len(owed)) = owed
  /\ UNCHANGED line

Deliver ==
  \E n \in 1 .. Len(owed) :
    /\ owed[n] = NL
    /\ \A m \in 1 .. n - 1 : owed[m] # NL
    /\ line' = SubSeq(owed, 1, n - 1)
    /\ owed' = SubSeq(owed, n + 1, Len(owed))

GiveUp ==
  /\ \A n \in 1 .. Len(owed) : owed[n] # NL
  /\ owed' = <<>>
  /\ UNCHANGED line

Next == Arrive \/ Deliver \/ GiveUp

Spec == Init /\ [][Next]_vars
=============================================================================
