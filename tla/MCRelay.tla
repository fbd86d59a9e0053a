------------------------------- MODULE MCRelay ------------------------------
(***************************************************************************)
(* Small instances of Relay for TLC.                                       *)
(***************************************************************************)
EXTENDS Relay

\* An empty command, short ones of which the longer just fits the console's
\* buffer with its header, and one that does not.
SmallCommands == {<<>>, <<1>>, <<1, 2>>, <<3, 3, 3>>}
=============================================================================
