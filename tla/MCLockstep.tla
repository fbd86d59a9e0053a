----------------------------- MODULE MCLockstep -----------------------------
(***************************************************************************)
(* Small instances of Lockstep for TLC.                                    *)
(***************************************************************************)
EXTENDS Lockstep

\* Every console with the same -f option.
Framerate1 == [c \in Clients |-> 1]

\* Consoles with different -f options.
FramerateMixed == [c \in Clients |-> 1 + (c % 2)]

\* Console 0 may be reloaded once, when both players are known.
ReloadJoined == [c \in Clients |-> IF c = 0 THEN {2} ELSE {}]
=============================================================================
