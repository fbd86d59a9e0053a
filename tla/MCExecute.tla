----------------------------- MODULE MCExecute ------------------------------
(***************************************************************************)
(* Instances of Execute for TLC: two functions of two parameters, words of *)
(* two bits, and sets of commands for each question.                       *)
(***************************************************************************)
EXTENDS Execute

MCTokens == {"x", "y", "z", "x...", "1", "2", "1.5"}
MCNames == {"x", "y", "z", "x..."}

\* "x" stands for a name of 15 bytes, "x..." for one that goes on after them.
MCStored == [n \in MCNames |-> IF n = "x..." THEN "x" ELSE n]

\* strtol makes 0 of a word that is not a number.
MCLiteral == [t \in MCTokens |->
  CASE t = "1" -> [type |-> "i", word |-> 1]
    [] t = "2" -> [type |-> "i", word |-> 2]
    [] t = "1.5" -> [type |-> "d", word |-> 3]
    [] OTHER -> [type |-> "i", word |-> 0]]

MCOpcodes == {"+", "-", "<", ">", "*"}
MCCall(f, params) == (params[1] + f) % WordSize
MCDoubleOp(opcode, lhv, rhv) == IF opcode \in {"+", "-"} THEN lhv ELSE 0
MCGarbage == {0, 3}

Var(name, value) == [cmd |-> "variable", name |-> name, value |-> value]
Par(fns, args) == [cmd |-> "parameter", targets |-> fns, args |-> args]
Res(f, name) == [cmd |-> "result", fn |-> f, name |-> name]
Mut(name, op, value) == [cmd |-> "mutation", name |-> name, opcode |-> op, value |-> value]

\* Everything a player may do with variables, parameters and results.
AllCommands ==
  {Var("x", "1"), Var("y", "1.5"), Var("z", "2"),
   Mut("x", "+", "x"), Mut("x", "-", "2"), Mut("y", "<", "x"), Mut("z", ">", "1.5"),
   Par({1}, <<"x", "2">>), Par({1, 2}, <<"y">>), Par({}, <<"1">>),
   Var("x...", "2"), Par({2}, <<"x...">>), Res(1, "x..."),
   Res(1, "x"), Res(2, "x"), Res(2, "z"), Benchmark, Missing, Other}

\* What matters when a console starts over.
ReloadCommands ==
  {Var("x", "1"), Mut("x", "+", "x"), Par({1}, <<"x", "2">>), Par({2}, <<"1", "x">>),
   Res(1, "x"), Res(2, "y")}

CountCommands == {Var("x", "1"), Mut("x", "+", "1"), Par({1}, <<"x">>)}
ResultCommands == {Res(1, "x"), Other}
LoadCommands == {Var("x", "1"), Par({1, 2}, <<"x", "x">>)}
MixedCommands == {Var("x", "1.5"), Mut("x", "+", "1"), Par({1}, <<"x">>)}
BenchmarkCommands == {Benchmark}
ObjectCommands == {Missing}
=============================================================================
