------------------------------ MODULE MCRecord ------------------------------
(***************************************************************************)
(* A small record for TLC: commands of up to two bytes and a buffer that   *)
(* starts with three.                                                      *)
(***************************************************************************)
EXTENDS Record

SmallCommands == {<<>>, <<1>>, <<2, 1>>}
=============================================================================
