------------------------------ MODULE Execute -------------------------------
(***************************************************************************)
(* The command interpreter: execute.c with the variables of global.c, the  *)
(* functors of functor.c and the part of game_simulation (main.c) that     *)
(* calls the library.                                                      *)
(*                                                                         *)
(* Every console executes the same commands in the same order and          *)
(* simulates the same frames (module Lockstep): script is that common      *)
(* history.  An entry is one command and whether a frame is simulated      *)
(* after it: the entry ends a turn that is simulated, or a paused turn, or *)
(* is followed by other commands of its turn.  A console that starts over  *)
(* goes through the script from the first entry again, with a library that *)
(* was loaded anew.                                                        *)
(*                                                                         *)
(* Param_t is a machine word.  A token is what tokenize finds between      *)
(* spaces, Literal is what set_value_param makes of it.  What the library  *)
(* computes and floating point arithmetic are external.  Commands that     *)
(* only print (condition, hash, an object that exists, anything that is    *)
(* rejected with a usage line) are "other"; simulation is in Lockstep.     *)
(***************************************************************************)
EXTENDS Integers, Sequences, FiniteSets

CONSTANTS
  Consoles,
  Tokens,            \* the words of commands
  Names,             \* the tokens used as names of variables
  Stored,            \* a name as global_init stores it: cut short if it is long
  Literal,           \* type and word of a token that names no variable
  NumFns,            \* dlfn_used_function
  ParamCount,        \* PARAM_COUNT
  MaxVariable,       \* MAX_VARIABLE
  MaxFunc,           \* MAX_FUNC
  WordSize,          \* words are numbers below this one, 2^64
  Call(_, _),        \* external: what a function returns
  DoubleOp(_, _, _), \* external: perform_op_double
  Opcodes,           \* the operators of mutations
  Magnitudes,        \* rounds of a benchmark
  Typed,             \* the commands that players type
  Garbage,           \* words an uninitialized Param_t may hold
  MaxScript,         \* bound: entries of the script
  MayReload          \* whether consoles start over

Fns == 1 .. NumFns
Params == 1 .. ParamCount
Words == 0 .. WordSize - 1

\* The type of a variable: 'i', 'd', or the 'i' & 'd' of a mixed operation,
\* which no switch handles.
Types == {"i", "d", "mixed"}

ASSUME ExecuteAssumption ==
  /\ Names \subseteq Tokens
  /\ Stored \in [Names -> Names] /\ \A n \in Names : Stored[Stored[n]] = Stored[n]
  /\ Literal \in [Tokens -> [type : {"i", "d"}, word : Words]]
  /\ NumFns \in Nat /\ ParamCount \in Nat /\ MaxVariable \in Nat
  /\ MaxFunc \in Nat \ {0} /\ WordSize \in Nat \ {0}
  /\ MaxScript \in Nat /\ MayReload \in BOOLEAN
  /\ Garbage \subseteq Words /\ Magnitudes \in Nat

\* What the library and the floating point unit compute are words.
ASSUME ExternalAssumption ==
  /\ \A f \in Fns, args \in [Params -> Words] : Call(f, args) \in Words
  /\ \A o \in Opcodes, lhv, rhv \in Words : DoubleOp(o, lhv, rhv) \in Words

\* What players type.  targets are the functions that parameter's filter
\* matches: one, all of them, or none.
Filters == {{f} : f \in Fns} \cup {Fns, {}}
Parameters == [cmd : {"parameter"}, targets : Filters, args : UNION {[1 .. n -> Tokens] : n \in Params}]
Variables == [cmd : {"variable"}, name : Names, value : Tokens]
Results == [cmd : {"result"}, fn : Fns, name : Names]
Mutations == [cmd : {"mutation"}, name : Names, opcode : Opcodes, value : Tokens]
Benchmark == [cmd |-> "benchmark"]
Missing == [cmd |-> "object"]      \* "object" with a name the library lacks
Other == [cmd |-> "other"]
Commands == Parameters \cup Variables \cup Results \cup Mutations
              \cup {Benchmark, Missing, Other}

ASSUME TypedAssumption == Typed \subseteq Commands

VARIABLES
  script,              \* the commands of the game so far
  pos,                 \* how many of them each console has executed
  phase,               \* "command", "frame" or "crashed"
  global_var,          \* the table of variables
  result_func,         \* the functors in use, noop first
  load_param_handle,   \* index of the functor that loads a parameter
  save_result_handle,  \* index of the functor that stores a result
  param,               \* dlfn_function[f].fnctor.param
  result,              \* result[f]
  called,              \* history: the parameters of the last call of each function
  calls,               \* history: calls into the library since it was loaded
  bound                \* history: the variable of a result command of this run

execVars == <<result_func, load_param_handle, save_result_handle, result>>
libVars == <<called, calls>>
vars == <<script, pos, phase, global_var, execVars, param, libVars, bound>>

NoCall == <<>>
Unbound == "unbound"
NoOp == [opcode |-> "none"]
Noop == [call |-> "noop"]

\* The tables of the library's functions when it has been loaded.
NoParams == [f \in Fns |-> [p \in Params |-> 0]]
NoResults == [f \in Fns |-> 0]

Init ==
  /\ script = <<>>
  /\ pos = [c \in Consoles |-> 0]
  /\ phase = [c \in Consoles |-> "command"]
  /\ global_var = [c \in Consoles |-> <<>>]
  /\ result_func = [c \in Consoles |-> <<Noop>>]
  /\ load_param_handle = [c \in Consoles |-> NoParams]
  /\ save_result_handle = [c \in Consoles |-> NoResults]
  /\ param = [c \in Consoles |-> NoParams]
  /\ result = [c \in Consoles |-> NoResults]
  /\ called = [c \in Consoles |-> [f \in Fns |-> NoCall]]
  /\ calls = [c \in Consoles |-> 0]
  /\ bound = [c \in Consoles |-> [f \in Fns |-> Unbound]]

\* A player types a command; later a frame is simulated or not.
Type(cmd, simulated) ==
  /\ Len(script) < MaxScript
  /\ script' = Append(script, [command |-> cmd, simulated |-> simulated])
  /\ UNCHANGED <<pos, phase, global_var, execVars, param, libVars, bound>>

(***************************************************************************)
(* The table of variables.  An index is the address of a variable.         *)
(***************************************************************************)

\* global_get: the first entry of the name, if any.  A name that was cut when
\* it was stored equals no stored name.
\* As a mutant: the loop ends one entry early.
GetButLast(table, name) == {i \in 1 .. Len(table) - 1 : table[i].name = name}
global_get(table, name) ==
  {i \in 1 .. Len(table) : /\ table[i].name = name
                           /\ \A j \in 1 .. i - 1 : table[j].name # name}

\* global_init of a new entry; its callers set the type at once.
NewVariable(name) == [name |-> Stored[name], value |-> 0, type |-> "i", op |-> NoOp]

\* global_get_or_create: the table with the name in it, unless it is full.
\* As a mutant: without the limit.
CreateUnlimited(table, name) ==
  IF global_get(table, name) # {} THEN table ELSE Append(table, NewVariable(name))
global_get_or_create(table, name) ==
  IF global_get(table, name) # {} \/ Len(table) >= MaxVariable
    THEN table ELSE Append(table, NewVariable(name))

\* The entry that global_get_or_create returns, if any.
Entry(table, name) ==
  IF global_get(table, name) # {} THEN global_get(table, name)
  ELSE {Len(table) + 1} \cap 1 .. Len(global_get_or_create(table, name))

(***************************************************************************)
(* Commands.                                                               *)
(***************************************************************************)

\* The command that a console is to execute, and how it goes on.
DueThen(c, cmd, next) ==
  /\ phase[c] = "command"
  /\ pos[c] < Len(script)
  /\ script[pos[c] + 1].command = cmd
  /\ phase' = [phase EXCEPT ![c] = next]
  /\ UNCHANGED <<script, pos>>
Due(c, cmd) == DueThen(c, cmd, "frame") /\ UNCHANGED libVars

\* The index that add_result_func returns for the functor that is added after
\* n others: -1 when the table is full.
\* As a mutant: the index of the functor before.
IndexBefore(c, n) == Len(result_func[c]) + n - 1
FunctorIndex(c, n) ==
  IF Len(result_func[c]) + n < MaxFunc THEN Len(result_func[c]) + n ELSE -1

\* The functors of set_load_param and set_store_param: a copy from a variable
\* to a parameter, and from a result to a variable.
LoadFunctor(f, p, v) == [call |-> "load", fn |-> f, param |-> p, var |-> v]
StoreFunctor(f, v) == [call |-> "store", fn |-> f, var |-> v]

\* execute_parameter: for every function the filter matches and every
\* argument, in this order, a functor that loads a variable before each call
\* (set_load_param), or the literal (set_value_param).
ExecuteParameter(c, cmd) ==
  LET slots == cmd.targets \X (1 .. Len(cmd.args))
      table == global_var[c]
      var(s) == global_get(table, cmd.args[s[2]])
      loads == {s \in slots : var(s) # {}}
      before(s) == {t \in loads : t[1] < s[1] \/ (t[1] = s[1] /\ t[2] < s[2])}
      index(s) == FunctorIndex(c, Cardinality(before(s)))
      added == {s \in loads : index(s) # -1}
      functor(n) ==
        LET s == CHOOSE t \in added : Cardinality(before(t)) = n - 1
        IN  LoadFunctor(s[1], s[2], CHOOSE i \in var(s) : TRUE)
      loaded == UNION {var(s) : s \in loads}
  IN  /\ cmd.cmd = "parameter"
      /\ Due(c, cmd)
      /\ result_func' = [result_func EXCEPT ![c] = @ \o [n \in 1 .. Cardinality(added) |-> functor(n)]]
      /\ load_param_handle' = [load_param_handle EXCEPT ![c] =
           [f \in Fns |-> [p \in Params |->
              IF <<f, p>> \in loads THEN index(<<f, p>>)
              ELSE IF <<f, p>> \in slots THEN 0 ELSE @[f][p]]]]
      /\ param' = [param EXCEPT ![c] =
           [f \in Fns |-> [p \in Params |->
              IF <<f, p>> \in slots \ added THEN Literal[cmd.args[p]].word ELSE @[f][p]]]]
      /\ global_var' = [global_var EXCEPT ![c] =
           [i \in 1 .. Len(table) |->
              IF i \in loaded THEN [table[i] EXCEPT !.type = "i"] ELSE table[i]]]
      /\ UNCHANGED <<save_result_handle, result, bound>>

\* execute_variable: the value and type of a literal.
ExecuteVariable(c, cmd) ==
  LET table == global_get_or_create(global_var[c], cmd.name)
      var == Entry(global_var[c], cmd.name)
      value == Literal[cmd.value]
  IN  /\ cmd.cmd = "variable"
      /\ Due(c, cmd)
      /\ global_var' = [global_var EXCEPT ![c] =
           [i \in 1 .. Len(table) |->
              IF i \in var
                THEN [table[i] EXCEPT !.value = value.word, !.type = value.type]
                ELSE table[i]]]
      /\ UNCHANGED <<execVars, param, bound>>

\* execute_result: a functor that stores a function's result after each call
\* (set_store_param); none when the table of variables is full.
ExecuteResult(c, cmd) ==
  LET table == global_get_or_create(global_var[c], cmd.name)
      var == Entry(global_var[c], cmd.name)
      index == IF var = {} THEN 0 ELSE FunctorIndex(c, 0)
  IN  /\ cmd.cmd = "result"
      /\ Due(c, cmd)
      /\ global_var' = [global_var EXCEPT ![c] =
           [i \in 1 .. Len(table) |->
              IF i \in var THEN [table[i] EXCEPT !.type = "i"] ELSE table[i]]]
      /\ result_func' = [result_func EXCEPT ![c] =
           IF var = {} \/ Len(@) >= MaxFunc THEN @
           ELSE Append(@, StoreFunctor(cmd.fn, CHOOSE i \in var : TRUE))]
      /\ save_result_handle' = [save_result_handle EXCEPT ![c][cmd.fn] = index]
      /\ bound' = [bound EXCEPT ![c][cmd.fn] = IF index > 0 THEN cmd.name ELSE Unbound]
      /\ UNCHANGED <<load_param_handle, result, param>>

\* An operand: the address of a variable, or a literal.
Operand(table, token) ==
  IF global_get(table, token) # {}
    THEN [kind |-> "var", var |-> CHOOSE i \in global_get(table, token) : TRUE]
    ELSE [kind |-> "literal", value |-> Literal[token]]

\* execute_mutation: the operation of a variable that exists.
ExecuteMutation(c, cmd) ==
  LET table == global_var[c]
      op == [opcode |-> cmd.opcode, lhs |-> Operand(table, cmd.name),
             rhs |-> Operand(table, cmd.value)]
  IN  /\ cmd.cmd = "mutation"
      /\ Due(c, cmd)
      /\ global_var' = [global_var EXCEPT ![c] =
           [i \in 1 .. Len(table) |->
              IF i \in global_get(table, cmd.name) THEN [table[i] EXCEPT !.op = op]
              ELSE table[i]]]
      /\ UNCHANGED <<execVars, param, bound>>

\* The calls of a function in so many rounds: 1, 10, 100, ...
BenchmarkCalls[rounds \in 0 .. Magnitudes] ==
  IF rounds = 0 THEN 0 ELSE 10 * BenchmarkCalls[rounds - 1] + 1

\* execute_benchmark calls every function, with the parameters as they are,
\* round after round until its clock says that it took long enough.
ExecuteBenchmark(c, cmd) ==
  /\ cmd = Benchmark
  /\ DueThen(c, cmd, "frame")
  /\ called' = [called EXCEPT ![c] = param[c]]
  /\ \E rounds \in 1 .. Magnitudes :
       calls' = [calls EXCEPT ![c] = @ + NumFns * BenchmarkCalls[rounds]]
  /\ UNCHANGED <<global_var, execVars, param, bound>>

\* execute_object uses what dlfn_get_object returns, a null pointer here.
ExecuteObject(c, cmd) ==
  /\ cmd = Missing
  /\ DueThen(c, cmd, "crashed")
  /\ UNCHANGED <<global_var, execVars, param, libVars, bound>>

ExecuteOther(c, cmd) ==
  /\ cmd = Other
  /\ Due(c, cmd)
  /\ UNCHANGED <<global_var, execVars, param, bound>>

(***************************************************************************)
(* A frame.                                                                *)
(***************************************************************************)

\* The value of an operand.
Fetch(table, operand) ==
  IF operand.kind = "var"
    THEN [type |-> table[operand.var].type, word |-> table[operand.var].value]
    ELSE operand.value

\* perform_op_int on words.
perform_op_int(opcode, lhv, rhv) ==
  CASE opcode = "+" -> (lhv + rhv) % WordSize
    [] opcode = "-" -> (lhv - rhv) % WordSize
    [] opcode = ">" -> IF lhv > rhv THEN 1 ELSE 0
    [] opcode = "<" -> IF lhv < rhv THEN 1 ELSE 0
    [] OTHER -> 0

\* perform_op: the bitwise and of the operands' types decides; with types that
\* differ the result is never written.
perform_op(table, op, garbage) ==
  LET lhs == Fetch(table, op.lhs)
      rhs == Fetch(table, op.rhs)
  IN  IF lhs.type # rhs.type \/ lhs.type = "mixed"
        THEN [type |-> "mixed", word |-> garbage]
      ELSE IF lhs.type = "i"
        THEN [type |-> "i", word |-> perform_op_int(op.opcode, lhs.word, rhs.word)]
        ELSE [type |-> "d", word |-> DoubleOp(op.opcode, lhs.word, rhs.word)]

\* global_var_ops: every variable's operation, in the order of the table.
\* result is uninitialized in each round: garbage[n] is what round n finds there.
global_var_ops(table, garbage) ==
  LET after[n \in 0 .. Len(table)] ==
        IF n = 0 THEN table
        ELSE LET t == after[n - 1]
                 r == perform_op(t, t[n].op, garbage[n])
             IN  IF t[n].op = NoOp THEN t
                 ELSE [t EXCEPT ![n].value = r.word, ![n].type = r.type]
  IN  after[Len(table)]

\* functor_invoke of the functor at an index, on the parameters, results and
\* variables s; a call through a functor that is not in use is wild.
Invoke(c, index, s) ==
  IF index \notin 0 .. Len(result_func[c]) - 1 THEN [s EXCEPT !.wild = TRUE]
  ELSE LET fn == result_func[c][index + 1]
       IN  CASE fn.call = "noop" -> s
             [] fn.call = "load" -> [s EXCEPT !.param[fn.fn][fn.param] = s.table[fn.var].value]
             [] fn.call = "store" -> [s EXCEPT !.table[fn.var].value = s.result[fn.fn]]

\* call_load_param for a function, from the first parameter on.
call_load_param(c, f, s) ==
  LET after[p \in 0 .. ParamCount] ==
        IF p = 0 THEN s ELSE Invoke(c, load_param_handle[c][f][p], after[p - 1])
  IN  after[ParamCount]

call_store_result(c, f, s) == Invoke(c, save_result_handle[c][f], s)

\* One function: load its parameters, call it, store its result.
CallFunction(c, f, s) ==
  LET t == call_load_param(c, f, s)
      u == [t EXCEPT !.result[f] = Call(f, t.param[f]), !.called[f] = t.param[f]]
  IN  call_store_result(c, f, u)

\* The variables' operations, then every function of the library in order.
AfterFrame(c, garbage) ==
  LET start == [table |-> global_var_ops(global_var[c], garbage), param |-> param[c],
                result |-> result[c], called |-> called[c], wild |-> FALSE]
      after[f \in 0 .. NumFns] == IF f = 0 THEN start ELSE CallFunction(c, f, after[f - 1])
  IN  after[NumFns]

Simulate(c) ==
  /\ phase[c] = "frame"
  /\ script[pos[c] + 1].simulated
  /\ \E garbage \in [1 .. Len(global_var[c]) -> Garbage] :
       LET s == AfterFrame(c, garbage)
       IN  /\ global_var' = [global_var EXCEPT ![c] = s.table]
           /\ param' = [param EXCEPT ![c] = s.param]
           /\ result' = [result EXCEPT ![c] = s.result]
           /\ called' = [called EXCEPT ![c] = s.called]
           /\ calls' = [calls EXCEPT ![c] = @ + NumFns]
           /\ phase' = [phase EXCEPT ![c] = IF s.wild THEN "crashed" ELSE "command"]
  /\ pos' = [pos EXCEPT ![c] = @ + 1]
  /\ UNCHANGED <<script, result_func, load_param_handle, save_result_handle, bound>>

Pause(c) ==
  /\ phase[c] = "frame"
  /\ ~script[pos[c] + 1].simulated
  /\ phase' = [phase EXCEPT ![c] = "command"]
  /\ pos' = [pos EXCEPT ![c] = @ + 1]
  /\ UNCHANGED <<script, global_var, execVars, param, libVars, bound>>

\* The load handles that execute_init leaves.
\* As a mutant: they are kept like the others.
KeptHandles(c) == load_param_handle[c]
ClearedHandles(c) == NoParams

\* The run ends and game_simulation is called again: execute_init clears the
\* functors, results and load handles, the library is loaded anew.  The store
\* handles and the variables stay.
Reload(c) ==
  /\ MayReload
  /\ phase[c] = "command"
  /\ pos[c] > 0
  /\ pos' = [pos EXCEPT ![c] = 0]
  /\ result_func' = [result_func EXCEPT ![c] = <<Noop>>]
  /\ load_param_handle' = [load_param_handle EXCEPT ![c] = ClearedHandles(c)]
  /\ result' = [result EXCEPT ![c] = NoResults]
  /\ param' = [param EXCEPT ![c] = NoParams]
  /\ called' = [called EXCEPT ![c] = [f \in Fns |-> NoCall]]
  /\ calls' = [calls EXCEPT ![c] = 0]
  /\ bound' = [bound EXCEPT ![c] = [f \in Fns |-> Unbound]]
  /\ UNCHANGED <<script, phase, global_var, save_result_handle>>

-----------------------------------------------------------------------------

execute_any(c, cmd) ==
  \/ ExecuteParameter(c, cmd) \/ ExecuteVariable(c, cmd)
  \/ ExecuteResult(c, cmd) \/ ExecuteMutation(c, cmd)
  \/ ExecuteBenchmark(c, cmd) \/ ExecuteObject(c, cmd) \/ ExecuteOther(c, cmd)

Next ==
  \/ \E cmd \in Typed, simulated \in BOOLEAN : Type(cmd, simulated)
  \/ \E c \in Consoles : \/ \E cmd \in Typed : execute_any(c, cmd)
                         \/ Simulate(c) \/ Pause(c) \/ Reload(c)

Spec == Init /\ [][Next]_vars

-----------------------------------------------------------------------------
(***************************************************************************)
(* Properties.                                                             *)
(***************************************************************************)

Operands == [kind : {"var"}, var : 1 .. MaxVariable]
              \cup [kind : {"literal"}, value : [type : {"i", "d"}, word : Words]]
Globals == [name : Names, value : Words, type : Types,
            op : {NoOp} \cup [opcode : Opcodes, lhs : Operands, rhs : Operands]]
Functors == {Noop} \cup [call : {"load"}, fn : Fns, param : Params, var : 1 .. MaxVariable]
              \cup [call : {"store"}, fn : Fns, var : 1 .. MaxVariable]
Handles == -1 .. MaxFunc - 1

\* Every variable has its type, and the tables of variables and functors are
\* no longer than their arrays.
TypeOK ==
  /\ \A n \in 1 .. Len(script) : script[n] \in [command : Typed, simulated : BOOLEAN]
  /\ pos \in [Consoles -> 0 .. Len(script)]
  /\ phase \in [Consoles -> {"command", "frame", "crashed"}]
  /\ \A c \in Consoles :
       /\ Len(global_var[c]) <= MaxVariable
       /\ \A i \in 1 .. Len(global_var[c]) : global_var[c][i] \in Globals
       /\ Len(result_func[c]) <= MaxFunc
       /\ \A i \in 1 .. Len(result_func[c]) : result_func[c][i] \in Functors
  /\ load_param_handle \in [Consoles -> [Fns -> [Params -> Handles]]]
  /\ save_result_handle \in [Consoles -> [Fns -> Handles]]
  /\ param \in [Consoles -> [Fns -> [Params -> Words]]]
  /\ result \in [Consoles -> [Fns -> Words]]
  /\ called \in [Consoles -> [Fns -> {NoCall} \cup [Params -> Words]]]
  /\ calls \in [Consoles -> Nat]
  /\ bound \in [Consoles -> [Fns -> Names \cup {Unbound}]]

\* A command that creates a variable whose name is too long for the table.
Overlong(cmd) == cmd.cmd \in {"variable", "result"} /\ Stored[cmd.name] # cmd.name

\* A name denotes one variable, also when variable and result commands created
\* it in turn, so that every functor and operation that was given the name
\* holds the same address: as long as every name fits.
UniqueNames ==
  (\A n \in 1 .. Len(script) : ~Overlong(script[n].command)) =>
    \A c \in Consoles : \A i, j \in 1 .. Len(global_var[c]) :
      global_var[c][i].name = global_var[c][j].name => i = j

\* A parameter's handle is 0 or leads to a functor that copies a variable into
\* exactly that parameter of that function, at every point of every run (as
\* long as the table of functors is not full): execute_init clears the handles
\* together with the functors.
LoadHandles ==
  \A c \in Consoles, f \in Fns, p \in Params :
    LET h == load_param_handle[c][f][p]
    IN  h > 0 => /\ h < Len(result_func[c])
                 /\ \E v \in 1 .. Len(global_var[c]) :
                      result_func[c][h + 1] = LoadFunctor(f, p, v)

\* After a frame a variable that results go to holds the result of the last
\* function that was told to store there, however often and in which order
\* functions and variables were rebound, and in a replay too once every
\* function that has a store handle was given it in that replay.  Names that
\* are cut to the same stored name may share a variable.
StoredResults ==
  [][\A c \in Consoles :
       /\ phase[c] = "frame" /\ phase'[c] = "command" /\ calls'[c] # calls[c]
       /\ \A f \in Fns : save_result_handle[c][f] = 0 \/ bound[c][f] # Unbound
       => \A f \in Fns :
            /\ bound[c][f] # Unbound
            /\ \A g \in Fns : g > f /\ bound[c][g] # Unbound =>
                 Stored[bound[c][g]] # Stored[bound[c][f]]
            => \E i \in 1 .. Len(global_var'[c]) :
                 /\ global_var'[c][i].name = Stored[bound[c][f]]
                 /\ global_var'[c][i].value = result'[c][f]]_vars

\* A frame calls through a functor that is not installed only where a function
\* still has the store handle of an earlier run, or where the table of functors
\* was full when a parameter or a result was bound.
CrashCauses ==
  [][\A c \in Consoles :
       phase[c] = "frame" /\ phase'[c] = "crashed" =>
         \/ \E f \in Fns : save_result_handle[c][f] # 0 /\ bound[c][f] = Unbound
         \/ \E f \in Fns, p \in Params : load_param_handle[c][f][p] = -1]_vars

\* Consoles that have gone through the same part of the script have called the
\* library equally often and last with the same parameters: the commands that
\* the prompt lists as synchronized are.
Synchronized ==
  \A a, b \in Consoles :
    pos[a] = pos[b] /\ phase[a] = "command" /\ phase[b] = "command" =>
      called[a] = called[b] /\ calls[a] = calls[b]

\* No console calls through a functor that is not installed or uses an object
\* that does not exist.
NoCrash == \A c \in Consoles : phase[c] # "crashed"

=============================================================================
