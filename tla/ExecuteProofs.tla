---------------------------- MODULE ExecuteProofs ---------------------------
(***************************************************************************)
(* Proofs about module Execute, for any library, any tables and any        *)
(* commands.  What a frame does is a recursive function over the table of  *)
(* variables and over the functions of the library; what is proved of it   *)
(* goes by the loops below.                                                *)
(***************************************************************************)
EXTENDS Execute, TLAPS, FiniteSetTheorems, FunctionTheorems, SequenceTheorems,
        NaturalsInduction, WellFoundedInduction

-----------------------------------------------------------------------------
(***************************************************************************)
(* Induction over numbers, for sets instead of predicates: a set that      *)
(* holds 0 and with every number the next one holds them all.  Recursive   *)
(* functions are loops: a loop exists, and stays where its rounds stay.    *)
(***************************************************************************)

\* A set of numbers that is not empty has a least element.
LEMMA LeastExists ==
  ASSUME NEW T, T \subseteq Nat, T # {}
  PROVE  \E m \in T : \A j \in T : m <= j
<1>1. PICK m \in T : \A j \in T : ~(<<j, m>> \in OpToRel(<, Nat))
  BY WFMin, NatLessThanWellFounded
<1>2. \A j \in T : m <= j
  <2> SUFFICES ASSUME NEW j \in T PROVE m <= j
    OBVIOUS
  <2>1. m \in Nat /\ j \in Nat
    OBVIOUS
  <2>2. (j < m) => <<j, m>> \in OpToRel(<, Nat)
    BY <2>1, Zenon DEF OpToRel
  <2>3. ~(j < m)
    BY <1>1, <2>2, Zenon
  <2> QED BY <2>1, <2>3
<1> QED BY <1>2

\* Induction up to n.
LEMMA UpTo ==
  ASSUME NEW n \in Nat, NEW T, 0 \in T, \A i \in 1 .. n : i - 1 \in T => i \in T
  PROVE  \A i \in 0 .. n : i \in T
<1> SUFFICES ASSUME NEW i \in 0 .. n, i \notin T PROVE FALSE
  OBVIOUS
<1> DEFINE Bad == {j \in 0 .. n : j \notin T}
<1>1. Bad \subseteq Nat /\ Bad # {}
  OBVIOUS
<1>2. PICK m \in Bad : \A j \in Bad : m <= j
  <2> HIDE DEF Bad
  <2> QED BY <1>1, LeastExists
<1>3. m \in 0 .. n /\ m # 0
  OBVIOUS
<1>4. m \in 1 .. n /\ m - 1 \in 0 .. n /\ ~(m <= m - 1)
  BY <1>3
<1>5. m - 1 \in T
  BY <1>2, <1>4
<1> QED BY <1>4, <1>5

\* Loops of n rounds over the states S, from x on: round i is Step[i].
Rounds(n, S) == [1 .. n -> [S -> S]]
Loops(n, S, x, Step) ==
  {f \in [0 .. n -> S] : f[0] = x /\ \A i \in 1 .. n : f[i] = Step[i][f[i - 1]]}

\* There is such a loop.
LEMMA LoopExists ==
  ASSUME NEW n \in Nat, NEW S, NEW x \in S, NEW Step \in Rounds(n, S)
  PROVE  Loops(n, S, x, Step) # {}
<1> USE DEF Rounds
<1> DEFINE Done(m) == \E f \in [0 .. m -> S] :
                        f[0] = x /\ \A i \in 1 .. m : f[i] = Step[i][f[i - 1]]
           T == {m \in 0 .. n : Done(m)}
<1>1. 0 \in T
  <2> DEFINE f == [i \in 0 .. 0 |-> x]
  <2>1. f \in [0 .. 0 -> S] /\ f[0] = x
    OBVIOUS
  <2>2. Done(0)
    <3> HIDE DEF f
    <3> QED BY <2>1
  <2> HIDE DEF Done
  <2> QED BY <2>2
<1>2. ASSUME NEW m \in 1 .. n, m - 1 \in T PROVE m \in T
  <2>1. PICK f \in [0 .. m - 1 -> S] :
          f[0] = x /\ \A i \in 1 .. m - 1 : f[i] = Step[i][f[i - 1]]
    BY <1>2
  <2> DEFINE g == [i \in 0 .. m |-> IF i = m THEN Step[m][f[m - 1]] ELSE f[i]]
  <2>2. Step[m][f[m - 1]] \in S
    OBVIOUS
  <2>3. g \in [0 .. m -> S]
    BY <2>2
  <2>4. g[0] = x
    BY <2>1
  <2>5. \A i \in 1 .. m : g[i] = Step[i][g[i - 1]]
    <3> SUFFICES ASSUME NEW i \in 1 .. m PROVE g[i] = Step[i][g[i - 1]]
      OBVIOUS
    <3>1. i - 1 \in 0 .. m /\ i - 1 # m /\ g[i - 1] = f[i - 1]
      OBVIOUS
    <3>2. CASE i = m
      BY <3>1, <3>2
    <3>3. CASE i # m
      <4>1. i \in 1 .. m - 1 /\ g[i] = f[i]
        BY <3>3
      <4> HIDE DEF g
      <4> QED BY <2>1, <3>1, <4>1
    <3> QED BY <3>2, <3>3
  <2> HIDE DEF g
  <2>6. Done(m)
    BY <2>3, <2>4, <2>5
  <2> HIDE DEF Done
  <2> QED BY <2>6
<1>3. \A m \in 0 .. n : m \in T
  <2> HIDE DEF T
  <2> QED BY <1>1, <1>2, UpTo
<1>4. Done(n)
  BY <1>3
<1> QED BY <1>4 DEF Loops

\* A loop whose rounds stay in S stays in S.
LEMMA LoopStays ==
  ASSUME NEW n \in Nat, NEW S, NEW f, f[0] \in S,
         \A i \in 1 .. n : f[i - 1] \in S => f[i] \in S
  PROVE  f[n] \in S
<1> DEFINE T == {i \in 0 .. n : f[i] \in S}
<1>1. 0 \in T /\ \A i \in 1 .. n : i - 1 \in T => i \in T
  OBVIOUS
<1> HIDE DEF T
<1>2. \A i \in 0 .. n : i \in T
  BY <1>1, UpTo
<1> QED BY <1>2 DEF T

-----------------------------------------------------------------------------
(***************************************************************************)
(* Places: the elements of a finite set in some order have the places      *)
(* 0, 1, ...                                                               *)
(***************************************************************************)

\* R orders S, strictly and totally.
Ordered(R, S) ==
  \A x, y \in S : /\ <<x, x>> \notin R
                  /\ x # y => <<x, y>> \in R \/ <<y, x>> \in R
                  /\ \A z \in S : <<x, y>> \in R /\ <<y, z>> \in R => <<x, z>> \in R

\* The place of an element is the number of elements before it.
Before(R, S, x) == {y \in S : <<y, x>> \in R}
Place(R, S, x) == Cardinality(Before(R, S, x))

\* It is a number.
LEMMA PlaceType ==
  ASSUME NEW R, NEW S, IsFiniteSet(S), NEW x
  PROVE  IsFiniteSet(Before(R, S, x)) /\ Place(R, S, x) \in Nat
<1>1. Before(R, S, x) \in SUBSET S
  BY DEF Before
<1>2. IsFiniteSet(Before(R, S, x))
  BY <1>1, FS_Subset
<1> QED BY <1>2, FS_CardinalityType DEF Place

\* An element that is before another has a smaller place.
LEMMA PlaceGrows ==
  ASSUME NEW R, NEW S, Ordered(R, S), IsFiniteSet(S), NEW x \in S, NEW y \in S, <<x, y>> \in R
  PROVE  Place(R, S, x) < Place(R, S, y)
<1> DEFINE B == Before(R, S, x)
<1>1. IsFiniteSet(B) /\ IsFiniteSet(Before(R, S, y)) /\ Place(R, S, x) \in Nat /\ Place(R, S, y) \in Nat
  BY PlaceType
<1>2. x \notin B
  BY DEF Before, Ordered
<1>3. B \cup {x} \in SUBSET Before(R, S, y)
  <2> SUFFICES ASSUME NEW z \in B PROVE <<z, y>> \in R
    BY DEF Before
  <2>1. z \in S /\ <<z, x>> \in R
    BY DEF Before
  <2> QED BY <2>1 DEF Ordered
<1> HIDE DEF B
<1>4. Cardinality(B \cup {x}) = Cardinality(B) + 1
  BY <1>1, <1>2, FS_AddElement
<1>5. Cardinality(B \cup {x}) <= Cardinality(Before(R, S, y))
  BY <1>1, <1>3, FS_Subset
<1> QED BY <1>1, <1>4, <1>5 DEF Place, B

\* Two elements have different places.
LEMMA PlaceInjective ==
  ASSUME NEW R, NEW S, Ordered(R, S), IsFiniteSet(S), NEW x \in S, NEW y \in S,
         Place(R, S, x) = Place(R, S, y)
  PROVE  x = y
<1>1. Place(R, S, x) \in Nat
  BY PlaceType
<1>2. ~(<<x, y>> \in R) /\ ~(<<y, x>> \in R)
  BY <1>1, PlaceGrows
<1> QED BY <1>2 DEF Ordered

\* The elements whose place is below a limit.
Firsts(R, S, m) == {x \in S : Place(R, S, x) < m}

\* They have the places from 0 on.
LEMMA PlacesOnto ==
  ASSUME NEW R, NEW S, Ordered(R, S), IsFiniteSet(S), NEW m \in Int
  PROVE  /\ Cardinality(Firsts(R, S, m)) \in Nat
         /\ \A x \in Firsts(R, S, m) : Place(R, S, x) + 1 \in 1 .. Cardinality(Firsts(R, S, m))
         /\ \A n \in 1 .. Cardinality(Firsts(R, S, m)) :
              \E x \in Firsts(R, S, m) : Place(R, S, x) = n - 1
<1> DEFINE A == Firsts(R, S, m)
           k == Cardinality(A)
           at == [x \in A |-> Place(R, S, x) + 1]
<1>1. A \in SUBSET S /\ \A x \in A : Place(R, S, x) \in Nat
  BY PlaceType DEF Firsts
<1>2. IsFiniteSet(A) /\ k \in Nat
  BY <1>1, FS_Subset, FS_CardinalityType
<1>3. \A x \in A : Place(R, S, x) + 1 \in 1 .. k
  <2> SUFFICES ASSUME NEW x \in A PROVE Place(R, S, x) + 1 \in 1 .. k
    OBVIOUS
  <2> DEFINE B == Before(R, S, x)
  <2>1. x \in S /\ Place(R, S, x) < m /\ Place(R, S, x) \in Nat /\ IsFiniteSet(B)
    BY <1>1, PlaceType DEF Firsts
  <2>2. B \cup {x} \in SUBSET A
    <3> SUFFICES ASSUME NEW y \in B PROVE y \in A
      OBVIOUS
    <3>1. y \in S /\ <<y, x>> \in R
      BY DEF Before
    <3>2. Place(R, S, y) < Place(R, S, x) /\ Place(R, S, y) \in Nat
      BY <2>1, <3>1, PlaceGrows, PlaceType
    <3>3. Place(R, S, y) < m
      BY <2>1, <3>2
    <3> QED BY <3>1, <3>3 DEF Firsts
  <2>3. x \notin B
    BY <2>1 DEF Before, Ordered
  <2> HIDE DEF A
  <2>4. Cardinality(B \cup {x}) <= k
    BY <1>2, <2>2, FS_Subset
  <2>5. Cardinality(B \cup {x}) = Cardinality(B) + 1
    <3> HIDE DEF B
    <3> QED BY <2>1, <2>3, FS_AddElement
  <2> QED BY <1>2, <2>1, <2>4, <2>5 DEF Place
<1>4. \A x, y \in A : at[x] = at[y] => x = y
  <2> SUFFICES ASSUME NEW x \in A, NEW y \in A, at[x] = at[y] PROVE x = y
    OBVIOUS
  <2>1. Place(R, S, x) = Place(R, S, y) /\ x \in S /\ y \in S
    BY <1>1
  <2> QED BY <2>1, PlaceInjective
<1>5. at \in Injection(A, 1 .. k)
  BY <1>3, <1>4 DEF Injection, IsInjective
<1>6. IsFiniteSet(1 .. k) /\ Cardinality(1 .. k) = k
  BY <1>2, FS_Interval
<1>7. at \in Surjection(A, 1 .. k)
  <2> HIDE DEF at, k
  <2> QED BY <1>5, <1>6, FS_Injection DEF k
<1>8. \A n \in 1 .. k : \E x \in A : at[x] = n
  BY <1>7 DEF Surjection
<1>9. \A n \in 1 .. k : \E x \in A : Place(R, S, x) = n - 1
  <2> SUFFICES ASSUME NEW n \in 1 .. k PROVE \E x \in A : Place(R, S, x) = n - 1
    OBVIOUS
  <2>1. PICK x \in A : at[x] = n
    BY <1>8
  <2>2. Place(R, S, x) \in Nat
    BY <1>1
  <2> QED BY <2>1, <2>2
<1> QED BY <1>2, <1>3, <1>9

-----------------------------------------------------------------------------
(***************************************************************************)
(* The inductive invariant.  The types alone are not inductive: a frame    *)
(* reads the variables that operations and functors were given when their  *)
(* commands were executed, so these must be in the table.                  *)
(***************************************************************************)

\* The variables that an operation reads are in the table.
InTable(operand, n) == operand.kind = "var" => operand.var \in 1 .. n
OpsInTable(t) ==
  \A i \in 1 .. Len(t) : t[i].op # NoOp =>
    InTable(t[i].op.lhs, Len(t)) /\ InTable(t[i].op.rhs, Len(t))

\* The table of variables: every operation reads variables of the table.
Tables == {t \in Seq(Globals) : Len(t) <= MaxVariable /\ OpsInTable(t)}

\* The functors of a console use variables of its table.
FunctorsInTable(c) ==
  \A i \in 1 .. Len(result_func[c]) :
    result_func[c][i] # Noop => result_func[c][i].var \in 1 .. Len(global_var[c])

Entries == [command : Typed, simulated : BOOLEAN]

ScriptInv ==
  /\ script \in Seq(Entries)
  /\ pos \in [Consoles -> Nat]
  /\ phase \in [Consoles -> {"command", "frame", "crashed"}]
  /\ \A c \in Consoles : /\ pos[c] <= Len(script)
                         /\ phase[c] = "frame" => pos[c] < Len(script)

TableInv ==
  /\ global_var \in [Consoles -> Tables]
  /\ result_func \in [Consoles -> Seq(Functors)]
  /\ \A c \in Consoles : Len(result_func[c]) <= MaxFunc /\ FunctorsInTable(c)

HandleInv ==
  /\ load_param_handle \in [Consoles -> [Fns -> [Params -> Handles]]]
  /\ save_result_handle \in [Consoles -> [Fns -> Handles]]

WordInv ==
  /\ param \in [Consoles -> [Fns -> [Params -> Words]]]
  /\ result \in [Consoles -> [Fns -> Words]]
  /\ called \in [Consoles -> [Fns -> {NoCall} \cup [Params -> Words]]]
  /\ calls \in [Consoles -> Nat]
  /\ bound \in [Consoles -> [Fns -> Names \cup {Unbound}]]

ExecInv == ScriptInv /\ TableInv /\ HandleInv /\ WordInv

-----------------------------------------------------------------------------
(***************************************************************************)
(* The operations of a frame.                                              *)
(***************************************************************************)

\* The tables that differ from t0 in values and types only.
Same(t0) ==
  {t \in Tables : /\ Len(t) = Len(t0)
                  /\ \A i \in 1 .. Len(t0) : t[i].name = t0[i].name /\ t[i].op = t0[i].op}

\* Arithmetic on words stays within words.
LEMMA ModType == \A a \in Int, b \in Nat \ {0} : a % b \in 0 .. b - 1
OBVIOUS

\* So does perform_op_int.
LEMMA OpIntType ==
  ASSUME NEW o, NEW l \in Words, NEW r \in Words
  PROVE  perform_op_int(o, l, r) \in Words
<1>1. (l + r) % WordSize \in Words /\ (l - r) % WordSize \in Words
  BY ModType, ExecuteAssumption DEF Words
<1>2. 0 \in Words
  BY ExecuteAssumption DEF Words
<1>3. l > r => 1 \in Words
  BY ExecuteAssumption DEF Words
<1>4. l < r => 1 \in Words
  BY ExecuteAssumption DEF Words
<1> HIDE DEF Words
<1> QED BY <1>1, <1>2, <1>3, <1>4 DEF perform_op_int

\* The value of an operand that is in the table.
LEMMA FetchType ==
  ASSUME NEW t \in Tables, NEW x \in Operands, InTable(x, Len(t))
  PROVE  Fetch(t, x).type \in Types /\ Fetch(t, x).word \in Words
<1>1. CASE x.kind = "var"
  <2>1. x.var \in 1 .. Len(t)
    BY <1>1 DEF InTable
  <2>2. t[x.var] \in Globals
    BY <2>1, ElementOfSeq DEF Tables
  <2> QED BY <1>1, <2>2 DEF Fetch, Globals
<1>2. CASE x.kind # "var"
  <2>1. x.value \in [type : {"i", "d"}, word : Words]
    BY <1>2 DEF Operands
  <2> QED BY <1>2, <2>1 DEF Fetch, Types
<1> QED BY <1>1, <1>2

\* What an operation computes is a word with a type.
LEMMA PerformOpType ==
  ASSUME NEW t \in Tables, NEW op \in [opcode : Opcodes, lhs : Operands, rhs : Operands],
         InTable(op.lhs, Len(t)), InTable(op.rhs, Len(t)), NEW garbage \in Words
  PROVE  /\ perform_op(t, op, garbage).type \in Types
         /\ perform_op(t, op, garbage).word \in Words
<1> DEFINE lhs == Fetch(t, op.lhs)
           rhs == Fetch(t, op.rhs)
<1>1. op.lhs \in Operands /\ op.rhs \in Operands /\ op.opcode \in Opcodes
  OBVIOUS
<1>2. lhs.type \in Types /\ lhs.word \in Words /\ rhs.type \in Types /\ rhs.word \in Words
  BY <1>1, FetchType
<1> HIDE DEF lhs, rhs
<1>3. perform_op_int(op.opcode, lhs.word, rhs.word) \in Words
  BY <1>2, OpIntType
<1>4. DoubleOp(op.opcode, lhs.word, rhs.word) \in Words
  BY <1>1, <1>2, ExternalAssumption
<1>5. perform_op(t, op, garbage) =
        IF lhs.type # rhs.type \/ lhs.type = "mixed"
          THEN [type |-> "mixed", word |-> garbage]
        ELSE IF lhs.type = "i"
          THEN [type |-> "i", word |-> perform_op_int(op.opcode, lhs.word, rhs.word)]
          ELSE [type |-> "d", word |-> DoubleOp(op.opcode, lhs.word, rhs.word)]
  BY DEF perform_op, lhs, rhs
<1> QED BY <1>3, <1>4, <1>5 DEF Types

\* A variable that is given a value and a type.
LEMMA SetValue ==
  ASSUME NEW t0 \in Tables, NEW t \in Same(t0), NEW n \in 1 .. Len(t0),
         NEW v \in Words, NEW y \in Types
  PROVE  [t EXCEPT ![n].value = v, ![n].type = y] \in Same(t0)
<1> DEFINE e == [t[n] EXCEPT !.value = v, !.type = y]
           u == [t EXCEPT ![n] = e]
<1>1. t \in Seq(Globals) /\ Len(t) = Len(t0) /\ n \in 1 .. Len(t) /\ Len(t) <= MaxVariable
  BY DEF Same, Tables
<1>2. t[n] \in Globals
  BY <1>1, ElementOfSeq
<1>3. e \in Globals /\ e.name = t[n].name /\ e.op = t[n].op
  BY <1>2 DEF Globals
<1>4. [t EXCEPT ![n].value = v, ![n].type = y] = u
  BY <1>1, <1>2 DEF Globals
<1> HIDE DEF e
<1>5. /\ u \in Seq(Globals) /\ Len(u) = Len(t)
      /\ \A j \in 1 .. Len(t) : u[j] = IF j = n THEN e ELSE t[j]
  BY <1>1, <1>3, ExceptSeq
<1> HIDE DEF u
<1>6. \A j \in 1 .. Len(t0) : u[j].name = t0[j].name /\ u[j].op = t0[j].op /\ u[j].op = t[j].op
  BY <1>1, <1>3, <1>5 DEF Same
<1>7. OpsInTable(u)
  BY <1>1, <1>5, <1>6 DEF OpsInTable, Same, Tables
<1>8. u \in Same(t0)
  BY <1>1, <1>5, <1>6, <1>7 DEF Same, Tables
<1> QED BY <1>4, <1>8

\* A round of global_var_ops.
OpRound(t, n, garbage) ==
  IF t[n].op = NoOp THEN t
  ELSE [t EXCEPT ![n].value = perform_op(t, t[n].op, garbage).word,
                 ![n].type = perform_op(t, t[n].op, garbage).type]

\* A round changes values and types only.
LEMMA OpRoundSame ==
  ASSUME NEW t0 \in Tables, NEW t \in Same(t0), NEW n \in 1 .. Len(t0), NEW garbage \in Words
  PROVE  OpRound(t, n, garbage) \in Same(t0)
<1>1. CASE t[n].op = NoOp
  BY <1>1 DEF OpRound
<1>2. CASE t[n].op # NoOp
  <2>1. t \in Tables /\ n \in 1 .. Len(t)
    BY DEF Same
  <2>2. t[n] \in Globals
    BY <2>1, ElementOfSeq DEF Tables
  <2>3. t[n].op \in [opcode : Opcodes, lhs : Operands, rhs : Operands]
    BY <1>2, <2>2 DEF Globals
  <2>4. InTable(t[n].op.lhs, Len(t)) /\ InTable(t[n].op.rhs, Len(t))
    BY <1>2, <2>1 DEF Tables, OpsInTable
  <2> DEFINE r == perform_op(t, t[n].op, garbage)
  <2>5. r.type \in Types /\ r.word \in Words
    BY <2>1, <2>3, <2>4, PerformOpType
  <2> HIDE DEF r
  <2>6. [t EXCEPT ![n].value = r.word, ![n].type = r.type] \in Same(t0)
    BY <2>5, SetValue
  <2> QED BY <1>2, <2>6 DEF OpRound, r
<1> QED BY <1>1, <1>2

\* global_var_ops changes values and types only.
LEMMA VarOpsSame ==
  ASSUME NEW t0 \in Tables, NEW garbage \in [1 .. Len(t0) -> Words]
  PROVE  global_var_ops(t0, garbage) \in Same(t0)
<1> DEFINE N == Len(t0)
           Run(f) == [n \in 0 .. N |-> IF n = 0 THEN t0 ELSE OpRound(f[n - 1], n, garbage[n])]
           after == CHOOSE f : f = Run(f)
<1>1. N \in Nat /\ t0 \in Same(t0)
  BY LenProperties DEF Tables, Same
<1>2. global_var_ops(t0, garbage) = after[N]
  BY DEF global_var_ops, OpRound
<1> HIDE DEF N
<1>3. \E f : f = Run(f)
  <2> DEFINE Step == [n \in 1 .. N |-> [t \in Same(t0) |-> OpRound(t, n, garbage[n])]]
  <2>1. Step \in [1 .. N -> [Same(t0) -> Same(t0)]]
    BY OpRoundSame DEF N
  <2>2. \A n \in 1 .. N : \A t \in Same(t0) : Step[n][t] = OpRound(t, n, garbage[n])
    OBVIOUS
  <2> HIDE DEF Step
  <2>3. PICK f \in [0 .. N -> Same(t0)] :
          f[0] = t0 /\ \A i \in 1 .. N : f[i] = Step[i][f[i - 1]]
    <3>1. Loops(N, Same(t0), t0, Step) # {}
      BY <1>1, <2>1, LoopExists DEF Rounds
    <3> QED BY <3>1 DEF Loops
  <2>4. \A n \in 1 .. N : f[n] = OpRound(f[n - 1], n, garbage[n])
    BY <1>1, <2>2, <2>3
  <2>5. f = Run(f)
    BY <1>1, <2>3, <2>4
  <2> QED BY <2>5
<1>4. after = Run(after)
  BY <1>3, Zenon
<1> HIDE DEF after
<1>5. after[0] = t0
  BY <1>1, <1>4
<1>6. \A n \in 1 .. N : after[n] = OpRound(after[n - 1], n, garbage[n])
  BY <1>1, <1>4
<1> HIDE DEF Run
<1>7. \A n \in 1 .. N : after[n - 1] \in Same(t0) => after[n] \in Same(t0)
  BY <1>6, OpRoundSame DEF N
<1>8. after[N] \in Same(t0)
  BY <1>1, <1>5, <1>7, LoopStays
<1> QED BY <1>2, <1>8

-----------------------------------------------------------------------------
(***************************************************************************)
(* The calls of a frame.                                                   *)
(***************************************************************************)

\* What the rounds of global_var_ops may find in an uninitialized result.
Garbles(c) == [1 .. Len(global_var[c]) -> Words]

\* It is a word in each round.
LEMMA GarbageWords ==
  ASSUME NEW c \in Consoles
  PROVE  [1 .. Len(global_var[c]) -> Garbage] \subseteq Garbles(c)
BY ExecuteAssumption DEF Garbles

\* What the functors of a console and the calls of a frame work on.
Frames(t0) ==
  [table : Same(t0), param : [Fns -> [Params -> Words]], result : [Fns -> Words],
   called : [Fns -> {NoCall} \cup [Params -> Words]], wild : BOOLEAN]

\* A functor writes a word into a parameter or into a variable.
LEMMA InvokeType ==
  ASSUME ExecInv, NEW c \in Consoles, NEW s \in Frames(global_var[c]), NEW index
  PROVE  Invoke(c, index, s) \in Frames(global_var[c])
<1> DEFINE t0 == global_var[c]
           fn == result_func[c][index + 1]
<1>1. CASE index \notin 0 .. Len(result_func[c]) - 1
  BY <1>1 DEF Invoke, Frames
<1>2. CASE index \in 0 .. Len(result_func[c]) - 1
  <2>1. result_func[c] \in Seq(Functors) /\ Len(result_func[c]) \in Nat
    BY LenProperties DEF ExecInv, TableInv
  <2>2. index + 1 \in 1 .. Len(result_func[c])
    BY <1>2, <2>1
  <2>3. fn \in Functors
    BY <2>1, <2>2, ElementOfSeq
  <2>4. fn # Noop => fn.var \in 1 .. Len(t0)
    BY <2>2 DEF ExecInv, TableInv, FunctorsInTable
  <2>5. t0 \in Tables /\ s.table \in Same(t0)
    BY SMTT(30) DEF ExecInv, TableInv, Frames
  <2>6. Invoke(c, index, s) =
          CASE fn.call = "noop" -> s
            [] fn.call = "load" -> [s EXCEPT !.param[fn.fn][fn.param] = s.table[fn.var].value]
            [] fn.call = "store" -> [s EXCEPT !.table[fn.var].value = s.result[fn.fn]]
    BY <1>2 DEF Invoke
  <2> HIDE DEF fn, t0
  <2>7. CASE fn = Noop
    BY <2>6, <2>7 DEF Noop, t0
  <2>8. CASE fn \in [call : {"load"}, fn : Fns, param : Params, var : 1 .. MaxVariable]
    <3>1. /\ fn.call = "load" /\ fn.fn \in Fns /\ fn.param \in Params
          /\ fn.var \in 1 .. Len(t0)
      BY <2>4, <2>8 DEF Noop
    <3>2. s.table[fn.var].value \in Words
      <4>1. s.table \in Seq(Globals) /\ fn.var \in 1 .. Len(s.table)
        BY <2>5, <3>1 DEF Same, Tables
      <4>2. s.table[fn.var] \in Globals
        BY <4>1, ElementOfSeq
      <4> QED BY <4>2 DEF Globals
    <3>3. Invoke(c, index, s) = [s EXCEPT !.param[fn.fn][fn.param] = s.table[fn.var].value]
      BY <2>6, <3>1
    <3> DEFINE v == s.table[fn.var].value
               row == [s.param[fn.fn] EXCEPT ![fn.param] = v]
               rows == [s.param EXCEPT ![fn.fn] = row]
    <3>4. s.param \in [Fns -> [Params -> Words]] /\ v \in Words
      BY <3>2 DEF Frames
    <3>5. rows \in [Fns -> [Params -> Words]]
      <4> HIDE DEF v
      <4> QED BY <3>1, <3>4
    <3>6. Invoke(c, index, s) = [s EXCEPT !.param = rows]
      BY <3>3
    <3> HIDE DEF rows
    <3> QED BY <3>5, <3>6 DEF Frames, t0
  <2>9. CASE fn \in [call : {"store"}, fn : Fns, var : 1 .. MaxVariable]
    <3>1. fn.call = "store" /\ fn.fn \in Fns /\ fn.var \in 1 .. Len(t0)
      BY <2>4, <2>9 DEF Noop
    <3> DEFINE t == s.table
               v == s.result[fn.fn]
               y == t[fn.var].type
               u == [t EXCEPT ![fn.var].value = v, ![fn.var].type = y]
    <3>2. v \in Words
      BY <3>1 DEF Frames
    <3>3. t \in Seq(Globals) /\ fn.var \in 1 .. Len(t)
      BY <2>5, <3>1 DEF Same, Tables
    <3>4. t[fn.var] \in Globals
      BY <3>3, ElementOfSeq
    <3>5. y \in Types
      BY <3>4 DEF Globals
    <3>6. u \in Same(t0)
      <4> HIDE DEF t, v, y
      <4> QED BY <2>5, <3>1, <3>2, <3>5, SetValue DEF t
    <3>7. u = [t EXCEPT ![fn.var].value = v]
      BY <3>3, <3>4 DEF Globals
    <3>8. Invoke(c, index, s) = [s EXCEPT !.table[fn.var].value = v]
      BY <2>6, <3>1
    <3>9. Invoke(c, index, s) = [s EXCEPT !.table = u]
      BY <3>7, <3>8
    <3> HIDE DEF u
    <3> QED BY <3>6, <3>9 DEF Frames, t0
  <2> QED BY <2>3, <2>7, <2>8, <2>9 DEF Functors
<1> QED BY <1>1, <1>2

\* call_load_param invokes one functor after the other.
LEMMA LoadParamLoop ==
  ASSUME ExecInv, NEW c \in Consoles, NEW f \in Fns, NEW s \in Frames(global_var[c])
  PROVE  \E after :
           /\ after[0] = s
           /\ \A p \in 1 .. ParamCount :
                after[p] = Invoke(c, load_param_handle[c][f][p], after[p - 1])
           /\ call_load_param(c, f, s) = after[ParamCount]
<1> DEFINE S == Frames(global_var[c])
           Load(p, x) == Invoke(c, load_param_handle[c][f][p], x)
           Run(g) == [p \in 0 .. ParamCount |-> IF p = 0 THEN s ELSE Load(p, g[p - 1])]
           after == CHOOSE g : g = Run(g)
<1>1. ParamCount \in Nat /\ s \in S
  BY ExecuteAssumption
<1>2. call_load_param(c, f, s) = after[ParamCount]
  BY DEF call_load_param
<1>3. \A p \in 1 .. ParamCount : \A x \in S : Load(p, x) \in S
  BY InvokeType
<1> HIDE DEF S, Load
<1>4. \E g : g = Run(g)
  <2> DEFINE Step == [p \in 1 .. ParamCount |-> [x \in S |-> Load(p, x)]]
  <2>1. Step \in Rounds(ParamCount, S)
    BY <1>3 DEF Rounds
  <2>2. \A p \in 1 .. ParamCount : \A x \in S : Step[p][x] = Load(p, x)
    OBVIOUS
  <2> HIDE DEF Step
  <2>3. PICK g \in [0 .. ParamCount -> S] :
          g[0] = s /\ \A i \in 1 .. ParamCount : g[i] = Step[i][g[i - 1]]
    <3>1. Loops(ParamCount, S, s, Step) # {}
      BY <1>1, <2>1, LoopExists
    <3> QED BY <3>1 DEF Loops
  <2>4. \A p \in 1 .. ParamCount : g[p] = Load(p, g[p - 1])
    BY <1>1, <2>2, <2>3
  <2>5. g = Run(g)
    BY <1>1, <2>3, <2>4
  <2> QED BY <2>5
<1>5. after = Run(after)
  BY <1>4, Zenon
<1> HIDE DEF after
<1>6. after[0] = s /\ \A p \in 1 .. ParamCount : after[p] = Load(p, after[p - 1])
  BY <1>1, <1>5
<1> QED BY <1>2, <1>6 DEF Load

\* It leaves a frame of its type.
LEMMA LoadParamType ==
  ASSUME ExecInv, NEW c \in Consoles, NEW f \in Fns, NEW s \in Frames(global_var[c])
  PROVE  call_load_param(c, f, s) \in Frames(global_var[c])
<1> DEFINE S == Frames(global_var[c])
<1>1. ParamCount \in Nat /\ s \in S
  BY ExecuteAssumption
<1>2. PICK after : /\ after[0] = s
                   /\ \A p \in 1 .. ParamCount :
                        after[p] = Invoke(c, load_param_handle[c][f][p], after[p - 1])
                   /\ call_load_param(c, f, s) = after[ParamCount]
  BY LoadParamLoop
<1>3. \A p \in 1 .. ParamCount : after[p - 1] \in S => after[p] \in S
  BY <1>2, InvokeType
<1> HIDE DEF S
<1>4. after[ParamCount] \in S
  BY <1>1, <1>2, <1>3, LoopStays
<1> QED BY <1>2, <1>4 DEF S

\* One function.
LEMMA CallFunctionType ==
  ASSUME ExecInv, NEW c \in Consoles, NEW f \in Fns, NEW s \in Frames(global_var[c])
  PROVE  CallFunction(c, f, s) \in Frames(global_var[c])
<1> DEFINE t == call_load_param(c, f, s)
           u == [t EXCEPT !.result[f] = Call(f, t.param[f]), !.called[f] = t.param[f]]
<1>1. t \in Frames(global_var[c])
  BY LoadParamType
<1> HIDE DEF t
<1>2. t.param[f] \in [Params -> Words]
  BY <1>1 DEF Frames
<1>3. Call(f, t.param[f]) \in Words
  BY <1>2, ExternalAssumption
<1>4. u \in Frames(global_var[c])
  <2> DEFINE v == Call(f, t.param[f])
             w == t.param[f]
             r == [t.result EXCEPT ![f] = v]
             k == [t.called EXCEPT ![f] = w]
  <2>1. v \in Words /\ w \in [Params -> Words]
    BY <1>2, <1>3
  <2>2. t.result \in [Fns -> Words] /\ t.called \in [Fns -> {NoCall} \cup [Params -> Words]]
    BY <1>1 DEF Frames
  <2>3. u = [t EXCEPT !.result = r, !.called = k]
    OBVIOUS
  <2> HIDE DEF v, w
  <2>4. r \in [Fns -> Words] /\ k \in [Fns -> {NoCall} \cup [Params -> Words]]
    BY <2>1, <2>2
  <2> HIDE DEF r, k, u
  <2> QED BY <1>1, <2>3, <2>4 DEF Frames
<1>5. CallFunction(c, f, s) = Invoke(c, save_result_handle[c][f], u)
  BY DEF CallFunction, call_store_result, t
<1> HIDE DEF u
<1> QED BY <1>4, <1>5, InvokeType

\* A frame, function by function.
LEMMA AfterFrameLoop ==
  ASSUME ExecInv, NEW c \in Consoles, NEW garbage \in Garbles(c)
  PROVE  \E after :
           /\ after[0] \in Frames(global_var[c]) /\ ~after[0].wild
           /\ \A f \in 1 .. NumFns : after[f] = CallFunction(c, f, after[f - 1])
           /\ AfterFrame(c, garbage) = after[NumFns]
<1> DEFINE S == Frames(global_var[c])
           start == [table |-> global_var_ops(global_var[c], garbage), param |-> param[c],
                     result |-> result[c], called |-> called[c], wild |-> FALSE]
           Run(g) == [f \in 0 .. NumFns |-> IF f = 0 THEN start ELSE CallFunction(c, f, g[f - 1])]
           after == CHOOSE g : g = Run(g)
<1>1. NumFns \in Nat
  BY ExecuteAssumption
<1>2. start \in S /\ ~start.wild
  <2>1. global_var_ops(global_var[c], garbage) \in Same(global_var[c])
    BY VarOpsSame DEF ExecInv, TableInv, Garbles
  <2>2. /\ param[c] \in [Fns -> [Params -> Words]] /\ result[c] \in [Fns -> Words]
        /\ called[c] \in [Fns -> {NoCall} \cup [Params -> Words]]
    BY DEF ExecInv, WordInv
  <2> QED BY <2>1, <2>2 DEF Frames
<1>3. AfterFrame(c, garbage) = after[NumFns]
  BY DEF AfterFrame
<1>4. \A f \in 1 .. NumFns : \A x \in S : CallFunction(c, f, x) \in S
  BY CallFunctionType DEF Fns
<1> HIDE DEF S, start
<1>5. \E g : g = Run(g)
  <2> DEFINE Step == [f \in 1 .. NumFns |-> [x \in S |-> CallFunction(c, f, x)]]
  <2>1. Step \in Rounds(NumFns, S)
    BY <1>4 DEF Rounds
  <2>2. \A f \in 1 .. NumFns : \A x \in S : Step[f][x] = CallFunction(c, f, x)
    OBVIOUS
  <2> HIDE DEF Step
  <2>3. PICK g \in [0 .. NumFns -> S] :
          g[0] = start /\ \A i \in 1 .. NumFns : g[i] = Step[i][g[i - 1]]
    <3>1. Loops(NumFns, S, start, Step) # {}
      BY <1>1, <1>2, <2>1, LoopExists
    <3> QED BY <3>1 DEF Loops
  <2>4. \A f \in 1 .. NumFns : g[f] = CallFunction(c, f, g[f - 1])
    BY <1>1, <2>2, <2>3
  <2>5. g = Run(g)
    BY <1>1, <2>3, <2>4
  <2> QED BY <2>5
<1>6. after = Run(after)
  BY <1>5, Zenon
<1> HIDE DEF after
<1>7. after[0] = start /\ \A f \in 1 .. NumFns : after[f] = CallFunction(c, f, after[f - 1])
  BY <1>1, <1>6
<1> QED BY <1>2, <1>3, <1>7 DEF S

\* It leaves everything of its type.
LEMMA AfterFrameType ==
  ASSUME ExecInv, NEW c \in Consoles, NEW garbage \in Garbles(c)
  PROVE  AfterFrame(c, garbage) \in Frames(global_var[c])
<1> DEFINE S == Frames(global_var[c])
<1>1. NumFns \in Nat
  BY ExecuteAssumption
<1>2. PICK after : /\ after[0] \in S
                   /\ \A f \in 1 .. NumFns : after[f] = CallFunction(c, f, after[f - 1])
                   /\ AfterFrame(c, garbage) = after[NumFns]
  BY AfterFrameLoop
<1>3. \A f \in 1 .. NumFns : after[f - 1] \in S => after[f] \in S
  BY <1>2, CallFunctionType DEF Fns
<1> HIDE DEF S
<1>4. after[NumFns] \in S
  BY <1>1, <1>2, <1>3, LoopStays
<1> QED BY <1>2, <1>4 DEF S

-----------------------------------------------------------------------------
(***************************************************************************)
(* The table of variables.                                                 *)
(***************************************************************************)

\* What global_get finds is in the table and has the name.
LEMMA GetInTable ==
  ASSUME NEW t, NEW name
  PROVE  \A i \in global_get(t, name) : i \in 1 .. Len(t) /\ t[i].name = name
BY DEF global_get

\* It finds a name that is there.
LEMMA GetFinds ==
  ASSUME NEW t \in Tables, NEW name, global_get(t, name) = {}
  PROVE  \A i \in 1 .. Len(t) : t[i].name # name
<1> SUFFICES ASSUME NEW i \in 1 .. Len(t), t[i].name = name PROVE FALSE
  OBVIOUS
<1> DEFINE T == {j \in 1 .. Len(t) : t[j].name = name}
<1>1. Len(t) \in Nat
  BY LenProperties DEF Tables
<1>2. T \subseteq Nat /\ T # {}
  BY <1>1
<1>3. PICK m \in T : \A j \in T : m <= j
  <2> HIDE DEF T
  <2> QED BY <1>2, LeastExists
<1>4. m \in 1 .. Len(t) /\ t[m].name = name
  OBVIOUS
<1>5. \A j \in 1 .. m - 1 : t[j].name # name
  <2> SUFFICES ASSUME NEW j \in 1 .. m - 1, t[j].name = name PROVE FALSE
    OBVIOUS
  <2>1. j \in 1 .. Len(t) /\ ~(m <= j)
    BY <1>1, <1>4
  <2> QED BY <1>3, <2>1
<1>6. m \in global_get(t, name)
  BY <1>4, <1>5 DEF global_get
<1> QED BY <1>6

\* A table whose entries are replaced by others that read the same variables.
LEMMA ReplaceEntries ==
  ASSUME NEW t \in Tables, NEW u, u = [i \in 1 .. Len(t) |-> u[i]],
         \A i \in 1 .. Len(t) :
           /\ u[i] \in Globals
           /\ \/ u[i].op = t[i].op
              \/ InTable(u[i].op.lhs, Len(t)) /\ InTable(u[i].op.rhs, Len(t))
  PROVE  u \in Tables /\ Len(u) = Len(t)
<1>1. t \in Seq(Globals) /\ Len(t) \in Nat /\ Len(t) <= MaxVariable
  BY LenProperties DEF Tables
<1>2. u \in Seq(Globals) /\ Len(u) = Len(t)
  BY <1>1
<1>3. OpsInTable(u)
  BY <1>2 DEF OpsInTable, Tables
<1> QED BY <1>1, <1>2, <1>3 DEF Tables

\* global_get_or_create keeps the entries and adds at most one.
LEMMA CreateType ==
  ASSUME NEW t \in Tables, NEW name \in Names
  PROVE  LET u == global_get_or_create(t, name)
         IN  /\ u \in Tables
             /\ Len(t) <= Len(u)
             /\ \A i \in 1 .. Len(t) : u[i] = t[i]
             /\ \/ u = t
                \/ /\ Len(u) = Len(t) + 1 /\ u[Len(t) + 1].name = Stored[name]
                   /\ global_get(t, name) = {}
             /\ Entry(t, name) \subseteq 1 .. Len(u)
<1> DEFINE u == global_get_or_create(t, name)
<1>1. t \in Seq(Globals) /\ Len(t) \in Nat /\ Len(t) <= MaxVariable /\ OpsInTable(t)
  BY LenProperties DEF Tables
<1>2. CASE global_get(t, name) # {} \/ Len(t) >= MaxVariable
  <2>1. u = t
    BY <1>2 DEF global_get_or_create
  <2>2. Entry(t, name) \subseteq 1 .. Len(u)
    BY <1>1, <2>1, GetInTable DEF Entry
  <2> HIDE DEF u
  <2> QED BY <1>1, <2>1, <2>2 DEF u
<1>3. CASE ~(global_get(t, name) # {} \/ Len(t) >= MaxVariable)
  <2> DEFINE e == NewVariable(name)
  <2>1. u = Append(t, e) /\ global_get(t, name) = {} /\ Len(t) < MaxVariable
    BY <1>1, <1>3, ExecuteAssumption DEF global_get_or_create
  <2>2. e \in Globals /\ e.op = NoOp /\ e.name = Stored[name]
    BY ExecuteAssumption DEF NewVariable, Globals, Words, Types
  <2> HIDE DEF e
  <2>3. /\ u \in Seq(Globals) /\ Len(u) = Len(t) + 1
        /\ \A i \in 1 .. Len(t) : u[i] = t[i]
        /\ u[Len(t) + 1] = e
    BY <1>1, <2>1, <2>2, AppendProperties
  <2> HIDE DEF u
  <2>4. OpsInTable(u)
    <3> SUFFICES ASSUME NEW i \in 1 .. Len(u), u[i].op # NoOp
                 PROVE  InTable(u[i].op.lhs, Len(u)) /\ InTable(u[i].op.rhs, Len(u))
      BY DEF OpsInTable
    <3>1. i \in 1 .. Len(t)
      BY <1>1, <2>2, <2>3
    <3>2. InTable(t[i].op.lhs, Len(t)) /\ InTable(t[i].op.rhs, Len(t))
      BY <1>1, <2>3, <3>1 DEF OpsInTable
    <3> QED BY <1>1, <2>3, <3>1, <3>2 DEF InTable
  <2>5. u \in Tables
    BY <1>1, <2>1, <2>3, <2>4, ExecuteAssumption DEF Tables
  <2>6. Entry(t, name) \subseteq 1 .. Len(u)
    BY <2>1 DEF Entry, u
  <2> QED BY <1>1, <2>1, <2>2, <2>3, <2>5, <2>6 DEF u
<1> QED BY <1>2, <1>3

\* The functors stay in a table that grows.
LEMMA FunctorsStay ==
  ASSUME ExecInv, NEW c \in Consoles, result_func'[c] = result_func[c],
         Len(global_var[c]) \in Nat, Len(global_var'[c]) \in Nat,
         Len(global_var[c]) <= Len(global_var'[c])
  PROVE  FunctorsInTable(c)'
BY DEF ExecInv, TableInv, FunctorsInTable

-----------------------------------------------------------------------------
(***************************************************************************)
(* Positions.  execute_parameter adds its functors in the order of         *)
(* functions and parameters; the position of a slot among the slots that   *)
(* load a variable is the number of those before it.                       *)
(***************************************************************************)

Earlier(t, s) == t[1] < s[1] \/ (t[1] = s[1] /\ t[2] < s[2])
SlotsBefore(L, s) == {t \in L : Earlier(t, s)}
Rank(L, s) == Cardinality(SlotsBefore(L, s))

\* As a relation.
SlotOrder(L) == {p \in L \X L : Earlier(p[1], p[2])}

\* The slots are ordered, and the position of a slot is its place.
LEMMA RankIsPlace ==
  ASSUME NEW L, L \subseteq Int \X Int
  PROVE  /\ Ordered(SlotOrder(L), L)
         /\ \A s \in L : Rank(L, s) = Place(SlotOrder(L), L, s)
<1>1. \A t, s \in L : <<t, s>> \in SlotOrder(L) <=> Earlier(t, s)
  BY DEF SlotOrder
<1>2. Ordered(SlotOrder(L), L)
  <2> SUFFICES ASSUME NEW x \in L, NEW y \in L
               PROVE  /\ ~Earlier(x, x)
                      /\ x # y => Earlier(x, y) \/ Earlier(y, x)
                      /\ \A z \in L : Earlier(x, y) /\ Earlier(y, z) => Earlier(x, z)
    BY <1>1 DEF Ordered
  <2>1. \A z \in L : z[1] \in Int /\ z[2] \in Int /\ z = <<z[1], z[2]>>
    OBVIOUS
  <2>2. ~Earlier(x, x)
    BY <2>1 DEF Earlier
  <2>3. x # y => Earlier(x, y) \/ Earlier(y, x)
    <3>1. x # y => x[1] # y[1] \/ x[2] # y[2]
      BY <2>1
    <3> QED BY <2>1, <3>1 DEF Earlier
  <2>4. ASSUME NEW z \in L, Earlier(x, y), Earlier(y, z) PROVE Earlier(x, z)
    BY <2>1, <2>4 DEF Earlier
  <2> QED BY <2>2, <2>3, <2>4
<1>3. ASSUME NEW s \in L PROVE SlotsBefore(L, s) = Before(SlotOrder(L), L, s)
  BY <1>1 DEF SlotsBefore, Before
<1> QED BY <1>2, <1>3 DEF Rank, Place

\* Two slots have different positions.
LEMMA RankInjective ==
  ASSUME NEW L, L \subseteq Int \X Int, IsFiniteSet(L),
         NEW s \in L, NEW t \in L, Rank(L, s) = Rank(L, t)
  PROVE  s = t
BY RankIsPlace, PlaceInjective, SMTT(30)

\* The slots whose position is below a limit.
Below(L, m) == {s \in L : Rank(L, s) < m}

\* They have the positions from 0 on.
LEMMA RankOnto ==
  ASSUME NEW L, L \subseteq Int \X Int, IsFiniteSet(L), NEW m \in Int
  PROVE  /\ Cardinality(Below(L, m)) \in Nat
         /\ \A s \in Below(L, m) : Rank(L, s) + 1 \in 1 .. Cardinality(Below(L, m))
         /\ \A n \in 1 .. Cardinality(Below(L, m)) : \E s \in Below(L, m) : Rank(L, s) = n - 1
<1>1. Below(L, m) = Firsts(SlotOrder(L), L, m)
  BY RankIsPlace DEF Below, Firsts
<1>2. \A s \in Below(L, m) : Rank(L, s) = Place(SlotOrder(L), L, s)
  BY RankIsPlace DEF Below
<1>3. Ordered(SlotOrder(L), L)
  BY RankIsPlace
<1> QED BY <1>1, <1>2, <1>3, PlacesOnto

-----------------------------------------------------------------------------
(***************************************************************************)
(* execute_parameter: the parts of the action, by name.                    *)
(***************************************************************************)

Slots(cmd) == cmd.targets \X (1 .. Len(cmd.args))
SlotVar(c, cmd, s) == global_get(global_var[c], cmd.args[s[2]])
Loads(c, cmd) == {s \in Slots(cmd) : SlotVar(c, cmd, s) # {}}
LoadIndex(c, cmd, s) == FunctorIndex(c, Rank(Loads(c, cmd), s))
Added(c, cmd) == {s \in Loads(c, cmd) : LoadIndex(c, cmd, s) # -1}
SlotFunctor(c, cmd, s) == LoadFunctor(s[1], s[2], CHOOSE i \in SlotVar(c, cmd, s) : TRUE)
AddedFunctors(c, cmd) ==
  [n \in 1 .. Cardinality(Added(c, cmd)) |->
     SlotFunctor(c, cmd, CHOOSE t \in Added(c, cmd) : Rank(Loads(c, cmd), t) = n - 1)]
Loaded(c, cmd) == UNION {SlotVar(c, cmd, s) : s \in Loads(c, cmd)}

\* The action in these terms.
LEMMA ParameterParts ==
  ASSUME NEW c, NEW cmd, ExecuteParameter(c, cmd)
  PROVE  /\ cmd.cmd = "parameter"
         /\ Due(c, cmd)
         /\ result_func' = [result_func EXCEPT ![c] = @ \o AddedFunctors(c, cmd)]
         /\ load_param_handle' = [load_param_handle EXCEPT ![c] =
              [f \in Fns |-> [p \in Params |->
                 IF <<f, p>> \in Loads(c, cmd) THEN LoadIndex(c, cmd, <<f, p>>)
                 ELSE IF <<f, p>> \in Slots(cmd) THEN 0 ELSE @[f][p]]]]
         /\ param' = [param EXCEPT ![c] =
              [f \in Fns |-> [p \in Params |->
                 IF <<f, p>> \in Slots(cmd) \ Added(c, cmd)
                   THEN Literal[cmd.args[p]].word ELSE @[f][p]]]]
         /\ global_var' = [global_var EXCEPT ![c] =
              [i \in 1 .. Len(global_var[c]) |->
                 IF i \in Loaded(c, cmd) THEN [global_var[c][i] EXCEPT !.type = "i"]
                 ELSE global_var[c][i]]]
         /\ UNCHANGED <<save_result_handle, result, bound>>
BY Zenon DEF ExecuteParameter, Slots, SlotVar, Loads, SlotsBefore, Earlier, Rank, LoadIndex, Added,
       SlotFunctor, AddedFunctors, Loaded

\* A command of the script that is a parameter command.
LEMMA ParameterType ==
  ASSUME NEW cmd \in Typed, cmd.cmd = "parameter"
  PROVE  /\ cmd \in Parameters
         /\ Len(cmd.args) \in Params /\ \A p \in 1 .. Len(cmd.args) : cmd.args[p] \in Tokens
         /\ Slots(cmd) \subseteq Fns \X Params
<1>1. cmd \in Parameters
  BY TypedAssumption DEF Commands, Parameters, Variables, Results, Mutations, Benchmark, Missing, Other
<1>2. PICK n \in Params : cmd.args \in [1 .. n -> Tokens]
  BY <1>1 DEF Parameters
<1>3. cmd.targets \subseteq Fns
  BY <1>1 DEF Parameters, Filters
<1>4. Len(cmd.args) = n /\ \A p \in 1 .. n : cmd.args[p] \in Tokens
  <2>1. n \in Nat /\ cmd.args \in Seq(Tokens)
    BY <1>2, SeqDef, ExecuteAssumption DEF Params
  <2>2. DOMAIN cmd.args = 1 .. Len(cmd.args) /\ Len(cmd.args) \in Nat
    BY <2>1, LenProperties
  <2>3. DOMAIN cmd.args = 1 .. n
    BY <1>2
  <2>4. Len(cmd.args) = n
    BY <2>1, <2>2, <2>3
  <2> QED BY <1>2, <2>4
<1>5. \A p \in 1 .. n : p \in Params
  BY <1>2, ExecuteAssumption DEF Params
<1>6. Slots(cmd) \subseteq Fns \X Params
  BY <1>3, <1>4, <1>5 DEF Slots
<1> QED BY <1>1, <1>4, <1>6

\* The functors that the command adds: each slot's at the slot's position.
LEMMA ParameterFunctors ==
  ASSUME ExecInv, NEW c \in Consoles, NEW cmd \in Typed, cmd.cmd = "parameter"
  PROVE  /\ AddedFunctors(c, cmd) \in Seq(Functors)
         /\ Len(result_func[c]) + Len(AddedFunctors(c, cmd)) <= MaxFunc
         /\ \A n \in 1 .. Len(AddedFunctors(c, cmd)) :
              AddedFunctors(c, cmd)[n].var \in 1 .. Len(global_var[c])
         /\ \A s \in Loads(c, cmd) :
              /\ LoadIndex(c, cmd, s) \in Handles
              /\ LoadIndex(c, cmd, s) # -1 =>
                   /\ LoadIndex(c, cmd, s) + 1 - Len(result_func[c]) \in 1 .. Len(AddedFunctors(c, cmd))
                   /\ AddedFunctors(c, cmd)[LoadIndex(c, cmd, s) + 1 - Len(result_func[c])] =
                        SlotFunctor(c, cmd, s)
                   /\ (CHOOSE i \in SlotVar(c, cmd, s) : TRUE) \in 1 .. Len(global_var[c])
<1> DEFINE L == Loads(c, cmd)
           k == Len(result_func[c])
           A == Added(c, cmd)
           N == Cardinality(A)
           G == AddedFunctors(c, cmd)
<1>1. k \in Nat /\ k <= MaxFunc /\ MaxFunc \in Nat
  BY LenProperties, ExecuteAssumption DEF ExecInv, TableInv
<1>2. NumFns \in Nat /\ ParamCount \in Nat /\ Fns \subseteq Int /\ Params \subseteq Int
  BY ExecuteAssumption DEF Fns, Params
<1>3. L \subseteq Fns \X Params
  BY ParameterType DEF Loads
<1>4. L \subseteq Int \X Int
  BY <1>2, <1>3
<1>5. IsFiniteSet(L)
  <2>1. IsFiniteSet(Fns) /\ IsFiniteSet(Params)
    BY <1>2, FS_Interval DEF Fns, Params
  <2>2. IsFiniteSet(Fns \X Params)
    BY <2>1, FS_Product
  <2> QED BY <1>3, <2>2, FS_Subset
<1>6. \A s \in L : Rank(L, s) \in Nat
  <2> SUFFICES ASSUME NEW s \in L PROVE Rank(L, s) \in Nat
    OBVIOUS
  <2>1. SlotsBefore(L, s) \in SUBSET L
    BY DEF SlotsBefore
  <2> QED BY <1>5, <2>1, FS_Subset, FS_CardinalityType DEF Rank
<1>7. \A s \in L : LoadIndex(c, cmd, s) = IF k + Rank(L, s) < MaxFunc THEN k + Rank(L, s) ELSE -1
  BY DEF LoadIndex, FunctorIndex
<1>8. A = Below(L, MaxFunc - k)
  <2>1. \A s \in L : LoadIndex(c, cmd, s) # -1 <=> Rank(L, s) < MaxFunc - k
    <3> SUFFICES ASSUME NEW s \in L
                 PROVE  LoadIndex(c, cmd, s) # -1 <=> Rank(L, s) < MaxFunc - k
      OBVIOUS
    <3>1. Rank(L, s) \in Nat
      BY <1>6
    <3> HIDE DEF L, k
    <3> QED BY <1>1, <1>7, <3>1
  <2> QED BY <2>1, Zenon DEF Added, Below
<1>9. /\ N \in Nat
      /\ \A s \in A : Rank(L, s) + 1 \in 1 .. N
      /\ \A n \in 1 .. N : \E s \in A : Rank(L, s) = n - 1
  <2>1. MaxFunc - k \in Int
    BY <1>1
  <2> HIDE DEF L, k, A
  <2> QED BY <1>4, <1>5, <1>8, <2>1, RankOnto
<1>10. A \subseteq L
  BY DEF Added
<1>11. \A s \in L : /\ s[1] \in Fns /\ s[2] \in Params
                    /\ (CHOOSE i \in SlotVar(c, cmd, s) : TRUE) \in 1 .. Len(global_var[c])
  <2> SUFFICES ASSUME NEW s \in L
               PROVE  /\ s[1] \in Fns /\ s[2] \in Params
                      /\ (CHOOSE i \in SlotVar(c, cmd, s) : TRUE) \in 1 .. Len(global_var[c])
    OBVIOUS
  <2>1. s[1] \in Fns /\ s[2] \in Params
    BY <1>3
  <2>2. SlotVar(c, cmd, s) # {}
    BY DEF Loads
  <2>3. (CHOOSE i \in SlotVar(c, cmd, s) : TRUE) \in SlotVar(c, cmd, s)
    BY <2>2, Zenon
  <2>4. SlotVar(c, cmd, s) \subseteq 1 .. Len(global_var[c])
    BY GetInTable DEF SlotVar
  <2> QED BY <2>1, <2>3, <2>4
<1>12. Len(global_var[c]) \in Nat /\ Len(global_var[c]) <= MaxVariable /\ MaxVariable \in Nat
  BY LenProperties, ExecuteAssumption DEF ExecInv, TableInv, Tables
<1>13. \A s \in L : SlotFunctor(c, cmd, s) \in Functors
                     /\ SlotFunctor(c, cmd, s).var \in 1 .. Len(global_var[c])
  <2> SUFFICES ASSUME NEW s \in L
               PROVE  SlotFunctor(c, cmd, s) \in Functors
                     /\ SlotFunctor(c, cmd, s).var \in 1 .. Len(global_var[c])
    OBVIOUS
  <2> DEFINE v == CHOOSE i \in SlotVar(c, cmd, s) : TRUE
  <2>1. v \in 1 .. Len(global_var[c]) /\ s[1] \in Fns /\ s[2] \in Params
    BY <1>11
  <2>2. v \in 1 .. MaxVariable
    <3> HIDE DEF v
    <3> QED BY <1>12, <2>1
  <2>3. SlotFunctor(c, cmd, s) = [call |-> "load", fn |-> s[1], param |-> s[2], var |-> v]
    BY DEF SlotFunctor, LoadFunctor
  <2> HIDE DEF v
  <2> QED BY <2>1, <2>2, <2>3 DEF Functors
<1> DEFINE At(n) == CHOOSE t \in A : Rank(L, t) = n - 1
<1>14. \A n \in 1 .. N : At(n) \in A /\ Rank(L, At(n)) = n - 1
  BY <1>9
<1>15. G = [n \in 1 .. N |-> SlotFunctor(c, cmd, At(n))]
  BY DEF AddedFunctors
<1> HIDE DEF L, k, A, N, G, At
<1>16. \A n \in 1 .. N : G[n] \in Functors /\ G[n].var \in 1 .. Len(global_var[c])
  BY <1>10, <1>13, <1>14, <1>15
<1>17. G \in Seq(Functors) /\ Len(G) = N
  BY <1>9, <1>15, <1>16
<1>18. k + N <= MaxFunc
  <2>1. CASE N = 0
    BY <1>1, <2>1
  <2>2. CASE N # 0
    <3>1. N \in 1 .. N
      BY <1>9, <2>2
    <3>2. PICK s \in A : Rank(L, s) = N - 1
      BY <1>9, <3>1
    <3>3. Rank(L, s) < MaxFunc - k
      BY <1>8 DEF Below
    <3> QED BY <1>1, <1>9, <3>2, <3>3
  <2> QED BY <2>1, <2>2
<1>19. \A s \in L : LoadIndex(c, cmd, s) \in Handles
  <2> SUFFICES ASSUME NEW s \in L PROVE LoadIndex(c, cmd, s) \in Handles
    OBVIOUS
  <2>1. Rank(L, s) \in Nat
    BY <1>6
  <2> QED BY <1>1, <1>7, <2>1, ExecuteAssumption DEF Handles
<1>20. \A s \in L : LoadIndex(c, cmd, s) # -1 =>
         /\ LoadIndex(c, cmd, s) + 1 - k \in 1 .. N
         /\ G[LoadIndex(c, cmd, s) + 1 - k] = SlotFunctor(c, cmd, s)
  <2> SUFFICES ASSUME NEW s \in L, LoadIndex(c, cmd, s) # -1
               PROVE  /\ LoadIndex(c, cmd, s) + 1 - k \in 1 .. N
                      /\ G[LoadIndex(c, cmd, s) + 1 - k] = SlotFunctor(c, cmd, s)
    OBVIOUS
  <2>1. s \in A
    BY DEF A, L, Added
  <2>2. Rank(L, s) \in Nat /\ Rank(L, s) + 1 \in 1 .. N
    BY <1>6, <1>9, <2>1
  <2>3. LoadIndex(c, cmd, s) + 1 - k = Rank(L, s) + 1
    BY <1>1, <1>7, <2>2
  <2> DEFINE n == Rank(L, s) + 1
  <2>4. n \in 1 .. N /\ n - 1 = Rank(L, s)
    BY <2>2
  <2> HIDE DEF n
  <2>5. At(n) \in L /\ Rank(L, At(n)) = Rank(L, s)
    BY <1>10, <1>14, <2>4
  <2>6. At(n) = s
    BY <1>4, <1>5, <2>5, RankInjective
  <2>7. G[n] = SlotFunctor(c, cmd, s)
    BY <1>15, <2>4, <2>6
  <2> QED BY <2>3, <2>4, <2>7 DEF n
<1> QED BY <1>11, <1>16, <1>17, <1>18, <1>19, <1>20 DEF L, k, G

-----------------------------------------------------------------------------
(***************************************************************************)
(* What a step does to the table of variables.                             *)
(***************************************************************************)

\* The tables that a command or a frame makes of t: the entries keep their
\* names, and at most one is added, for a name that global_get did not find.
Grown(t, names) ==
  {u \in Tables :
     /\ Len(t) <= Len(u)
     /\ \A i \in 1 .. Len(t) : u[i].name = t[i].name
     /\ \/ Len(u) = Len(t)
        \/ \E name \in names : /\ Len(u) = Len(t) + 1
                               /\ u[Len(t) + 1].name = Stored[name]
                               /\ global_get(t, name) = {}}

\* The names that commands of the script create.
Created ==
  {script[n].command.name :
     n \in {m \in 1 .. Len(script) : script[m].command.cmd \in {"variable", "result"}}}

\* The commands that create a variable and change its entry.
LEMMA UpdateGrown ==
  ASSUME NEW t \in Tables, NEW name \in Names,
         NEW w \in [1 .. Len(global_get_or_create(t, name)) -> Globals],
         \A i \in 1 .. Len(global_get_or_create(t, name)) :
           /\ w[i].name = global_get_or_create(t, name)[i].name
           /\ w[i].op = global_get_or_create(t, name)[i].op
  PROVE  w \in Grown(t, {name})
<1> DEFINE u == global_get_or_create(t, name)
<1>1. /\ u \in Tables /\ Len(t) <= Len(u)
      /\ \A i \in 1 .. Len(t) : u[i] = t[i]
      /\ \/ u = t
         \/ /\ Len(u) = Len(t) + 1 /\ u[Len(t) + 1].name = Stored[name]
            /\ global_get(t, name) = {}
  BY CreateType
<1>2. \A i \in 1 .. Len(u) : w[i] \in Globals /\ w[i].name = u[i].name /\ w[i].op = u[i].op
  OBVIOUS
<1>8. w = [i \in 1 .. Len(u) |-> w[i]]
  OBVIOUS
<1>3. Len(t) \in Nat /\ Len(u) \in Nat
  BY <1>1, LenProperties DEF Tables
<1> HIDE DEF u
<1>4. w \in Tables /\ Len(w) = Len(u)
  BY <1>1, <1>2, <1>8, ReplaceEntries
<1>5. \A i \in 1 .. Len(t) : w[i].name = t[i].name
  BY <1>1, <1>2, <1>3
<1>6. CASE u = t
  BY <1>4, <1>5, <1>6, <1>3 DEF Grown
<1>7. CASE /\ Len(u) = Len(t) + 1 /\ u[Len(t) + 1].name = Stored[name]
           /\ global_get(t, name) = {}
  <2>1. w[Len(t) + 1].name = Stored[name]
    BY <1>2, <1>3, <1>7
  <2> QED BY <1>1, <1>4, <1>5, <1>7, <2>1 DEF Grown
<1> QED BY <1>1, <1>6, <1>7

\* A table that grew for no name, or for fewer names.
LEMMA GrownLess ==
  ASSUME NEW t \in Tables, NEW S, NEW T
  PROVE  /\ t \in Grown(t, S)
         /\ Same(t) \subseteq Grown(t, S)
         /\ S \subseteq T => Grown(t, S) \subseteq Grown(t, T)
<1>1. Len(t) \in Nat
  BY LenProperties DEF Tables
<1>2. Same(t) \subseteq Grown(t, S)
  BY <1>1 DEF Same, Grown
<1>3. t \in Same(t)
  BY DEF Same
<1>4. S \subseteq T => Grown(t, S) \subseteq Grown(t, T)
  BY DEF Grown
<1> QED BY <1>2, <1>3, <1>4

\* The command that is due is the next entry of the script.
LEMMA DueCommand ==
  ASSUME ExecInv, NEW c \in Consoles, NEW cmd \in Typed, NEW next, DueThen(c, cmd, next)
  PROVE  /\ phase[c] = "command" /\ pos[c] \in Nat /\ pos[c] < Len(script)
         /\ phase' = [phase EXCEPT ![c] = next]
         /\ UNCHANGED <<script, pos>>
         /\ cmd.cmd \in {"variable", "result"} => cmd.name \in Created
<1>1. pos[c] \in Nat /\ Len(script) \in Nat /\ pos[c] < Len(script)
  BY LenProperties DEF ExecInv, ScriptInv, DueThen
<1>2. pos[c] + 1 \in 1 .. Len(script) /\ script[pos[c] + 1].command = cmd
  BY <1>1 DEF DueThen
<1>3. cmd.cmd \in {"variable", "result"} => cmd.name \in Created
  BY <1>2 DEF Created
<1> QED BY <1>1, <1>3 DEF DueThen

\* What the commands hold.
LEMMA CommandTypes ==
  ASSUME NEW cmd \in Typed
  PROVE  /\ cmd.cmd = "variable" => cmd.name \in Names /\ cmd.value \in Tokens
         /\ cmd.cmd = "result" => cmd.name \in Names /\ cmd.fn \in Fns
         /\ cmd.cmd = "mutation" => cmd.name \in Names /\ cmd.value \in Tokens
                                     /\ cmd.opcode \in Opcodes
<1>1. cmd \in Commands
  BY TypedAssumption
<1>2. cmd.cmd = "variable" => cmd \in Variables
  BY <1>1 DEF Commands, Parameters, Variables, Results, Mutations, Benchmark, Missing, Other
<1>3. cmd.cmd = "result" => cmd \in Results
  BY <1>1 DEF Commands, Parameters, Variables, Results, Mutations, Benchmark, Missing, Other
<1>4. cmd.cmd = "mutation" => cmd \in Mutations
  BY <1>1 DEF Commands, Parameters, Variables, Results, Mutations, Benchmark, Missing, Other
<1> QED BY <1>2, <1>3, <1>4 DEF Variables, Results, Mutations

\* An operand that a command holds reads the table.
LEMMA OperandType ==
  ASSUME NEW t \in Tables, NEW token \in Tokens
  PROVE  Operand(t, token) \in Operands /\ InTable(Operand(t, token), Len(t))
<1>1. Len(t) \in Nat /\ Len(t) <= MaxVariable /\ MaxVariable \in Nat
  BY LenProperties, ExecuteAssumption DEF Tables
<1>2. CASE global_get(t, token) # {}
  <2> DEFINE v == CHOOSE i \in global_get(t, token) : TRUE
  <2>1. v \in global_get(t, token)
    BY <1>2, Zenon
  <2>2. v \in 1 .. Len(t)
    BY <2>1, GetInTable
  <2>3. Operand(t, token) = [kind |-> "var", var |-> v]
    BY <1>2 DEF Operand
  <2> HIDE DEF v
  <2>4. v \in 1 .. MaxVariable
    BY <1>1, <2>2
  <2> QED BY <2>2, <2>3, <2>4 DEF Operands, InTable
<1>3. CASE global_get(t, token) = {}
  <2>1. Operand(t, token) = [kind |-> "literal", value |-> Literal[token]]
    BY <1>3 DEF Operand
  <2>2. Literal[token] \in [type : {"i", "d"}, word : Words]
    BY ExecuteAssumption
  <2> QED BY <2>1, <2>2 DEF Operands, InTable
<1> QED BY <1>2, <1>3

\* What every step does to the tables.
TableGrows ==
  /\ global_var' \in [Consoles -> Tables]
  /\ \A c \in Consoles : global_var'[c] \in Grown(global_var[c], Created)

\* A step that changes the table of one console.
LEMMA OneTable ==
  ASSUME ExecInv, NEW c \in Consoles, NEW u \in Grown(global_var[c], Created),
         global_var' = [global_var EXCEPT ![c] = u]
  PROVE  TableGrows
<1>1. global_var \in [Consoles -> Tables] /\ u \in Tables
  BY DEF ExecInv, TableInv, Grown
<1>2. \A d \in Consoles : global_var[d] \in Grown(global_var[d], Created)
  BY <1>1, GrownLess
<1> QED BY <1>1, <1>2 DEF TableGrows

\* A step that changes no table.
LEMMA NoTable ==
  ASSUME ExecInv, UNCHANGED global_var
  PROVE  TableGrows
<1>1. global_var \in [Consoles -> Tables]
  BY DEF ExecInv, TableInv
<1>2. \A d \in Consoles : global_var[d] \in Grown(global_var[d], Created)
  BY <1>1, GrownLess
<1> QED BY <1>1, <1>2 DEF TableGrows

\* execute_variable and execute_result.
LEMMA VariableTable ==
  ASSUME ExecInv, NEW c \in Consoles, NEW cmd \in Typed, ExecuteVariable(c, cmd)
  PROVE  TableGrows
<1>1. PICK t : t = global_var[c]
  OBVIOUS
<1> DEFINE u == global_get_or_create(t, cmd.name)
           value == Literal[cmd.value]
           w == [i \in 1 .. Len(u) |->
                   IF i \in Entry(t, cmd.name)
                     THEN [u[i] EXCEPT !.value = value.word, !.type = value.type] ELSE u[i]]
<1>2. t \in Tables /\ cmd.name \in Names /\ cmd.value \in Tokens
  BY <1>1, CommandTypes DEF ExecInv, TableInv, ExecuteVariable
<1>3. cmd.name \in Created
  BY DueCommand DEF ExecuteVariable, Due
<1>4. value.word \in Words /\ value.type \in Types
  BY <1>2, ExecuteAssumption DEF Types
<1>5. u \in Tables
  BY <1>2, CreateType
<1>6. \A i \in 1 .. Len(u) : u[i] \in Globals
  BY <1>5, ElementOfSeq DEF Tables
<1>7. global_var' = [global_var EXCEPT ![c] = w]
  BY <1>1 DEF ExecuteVariable
<1> HIDE DEF u, value
<1>8. \A i \in 1 .. Len(u) : w[i] \in Globals /\ w[i].name = u[i].name /\ w[i].op = u[i].op
  BY <1>4, <1>6 DEF Globals
<1>9. w \in [1 .. Len(u) -> Globals]
  BY <1>8
<1> HIDE DEF w
<1>10. w \in Grown(t, {cmd.name})
  BY <1>2, <1>8, <1>9, UpdateGrown DEF u
<1>11. w \in Grown(t, Created)
  BY <1>2, <1>3, <1>10, GrownLess
<1>12. PICK x \in Grown(global_var[c], Created) : x = w
  BY <1>1, <1>11
<1> QED BY <1>7, <1>12, OneTable

\* The same for execute_result.
LEMMA ResultTable ==
  ASSUME ExecInv, NEW c \in Consoles, NEW cmd \in Typed, ExecuteResult(c, cmd)
  PROVE  /\ TableGrows
         /\ Len(global_var'[c]) = Len(global_get_or_create(global_var[c], cmd.name))
<1>1. PICK t : t = global_var[c]
  OBVIOUS
<1> DEFINE u == global_get_or_create(t, cmd.name)
           w == [i \in 1 .. Len(u) |->
                   IF i \in Entry(t, cmd.name) THEN [u[i] EXCEPT !.type = "i"] ELSE u[i]]
<1>2. t \in Tables /\ cmd.name \in Names
  BY <1>1, CommandTypes DEF ExecInv, TableInv, ExecuteResult
<1>3. cmd.name \in Created
  BY DueCommand DEF ExecuteResult, Due
<1>4. u \in Tables
  BY <1>2, CreateType
<1>5. (\A i \in 1 .. Len(u) : u[i] \in Globals) /\ Len(u) \in Nat
  BY <1>4, ElementOfSeq, LenProperties DEF Tables
<1>6. global_var' = [global_var EXCEPT ![c] = w]
  BY <1>1 DEF ExecuteResult
<1> HIDE DEF u
<1>7. \A i \in 1 .. Len(u) : w[i] \in Globals /\ w[i].name = u[i].name /\ w[i].op = u[i].op
  BY <1>5 DEF Globals, Types
<1>8. w \in [1 .. Len(u) -> Globals]
  BY <1>7
<1>9. Len(w) = Len(u)
  BY <1>5
<1> HIDE DEF w
<1>10. w \in Grown(t, {cmd.name})
  BY <1>2, <1>7, <1>8, UpdateGrown DEF u
<1>11. w \in Grown(t, Created)
  BY <1>2, <1>3, <1>10, GrownLess
<1>12. PICK x \in Grown(global_var[c], Created) : x = w
  BY <1>1, <1>11
<1>13. TableGrows
  BY <1>6, <1>12, OneTable
<1>14. global_var'[c] = w
  BY <1>6 DEF ExecInv, TableInv
<1> QED BY <1>1, <1>9, <1>13, <1>14 DEF u

\* execute_mutation gives a variable an operation on variables of the table.
LEMMA MutationTable ==
  ASSUME ExecInv, NEW c \in Consoles, NEW cmd \in Typed, ExecuteMutation(c, cmd)
  PROVE  TableGrows
<1>1. PICK t : t = global_var[c]
  OBVIOUS
<1> DEFINE op == [opcode |-> cmd.opcode, lhs |-> Operand(t, cmd.name),
                  rhs |-> Operand(t, cmd.value)]
           w == [i \in 1 .. Len(t) |->
                   IF i \in global_get(t, cmd.name) THEN [t[i] EXCEPT !.op = op] ELSE t[i]]
<1>2. /\ t \in Tables /\ cmd.name \in Names /\ cmd.value \in Tokens /\ cmd.opcode \in Opcodes
      /\ cmd.name \in Tokens
  BY <1>1, CommandTypes, ExecuteAssumption DEF ExecInv, TableInv, ExecuteMutation
<1>3. (\A i \in 1 .. Len(t) : t[i] \in Globals) /\ Len(t) \in Nat
  BY <1>2, ElementOfSeq, LenProperties DEF Tables
<1>4. /\ op \in [opcode : Opcodes, lhs : Operands, rhs : Operands]
      /\ InTable(op.lhs, Len(t)) /\ InTable(op.rhs, Len(t))
  BY <1>2, OperandType
<1>5. global_var' = [global_var EXCEPT ![c] = w]
  BY <1>1 DEF ExecuteMutation
<1> HIDE DEF op
<1>6. \A i \in 1 .. Len(t) : /\ w[i] \in Globals /\ w[i].name = t[i].name
                             /\ w[i].op = t[i].op \/ w[i].op = op
  BY <1>3, <1>4 DEF Globals
<1>7. w = [i \in 1 .. Len(t) |-> w[i]]
  OBVIOUS
<1> HIDE DEF w
<1>8. \A i \in 1 .. Len(t) :
        /\ w[i] \in Globals
        /\ \/ w[i].op = t[i].op
           \/ InTable(w[i].op.lhs, Len(t)) /\ InTable(w[i].op.rhs, Len(t))
  BY <1>4, <1>6
<1>9. w \in Tables /\ Len(w) = Len(t)
  BY <1>2, <1>7, <1>8, ReplaceEntries
<1>10. w \in Grown(t, Created)
  BY <1>3, <1>6, <1>9 DEF Grown
<1>11. PICK x \in Grown(global_var[c], Created) : x = w
  BY <1>1, <1>10
<1> QED BY <1>5, <1>11, OneTable

\* execute_parameter sets types.
LEMMA ParameterTable ==
  ASSUME ExecInv, NEW c \in Consoles, NEW cmd \in Typed, ExecuteParameter(c, cmd)
  PROVE  TableGrows /\ Len(global_var'[c]) = Len(global_var[c])
<1>1. PICK t : t = global_var[c]
  OBVIOUS
<1>2. PICK S : S = Loaded(c, cmd)
  OBVIOUS
<1> DEFINE w == [i \in 1 .. Len(t) |-> IF i \in S THEN [t[i] EXCEPT !.type = "i"] ELSE t[i]]
<1>3. t \in Tables
  BY <1>1 DEF ExecInv, TableInv
<1>4. (\A i \in 1 .. Len(t) : t[i] \in Globals) /\ Len(t) \in Nat
  BY <1>3, ElementOfSeq, LenProperties DEF Tables
<1>5. global_var' = [global_var EXCEPT ![c] = w]
  BY <1>1, <1>2, ParameterParts
<1>6. \A i \in 1 .. Len(t) : w[i] \in Globals /\ w[i].name = t[i].name /\ w[i].op = t[i].op
  BY <1>4 DEF Globals, Types
<1>7. w = [i \in 1 .. Len(t) |-> w[i]]
  OBVIOUS
<1> HIDE DEF w
<1>8. w \in Tables /\ Len(w) = Len(t)
  BY <1>3, <1>6, <1>7, ReplaceEntries
<1>9. w \in Grown(t, Created)
  BY <1>4, <1>6, <1>8 DEF Grown
<1>10. PICK x \in Grown(global_var[c], Created) : x = w
  BY <1>1, <1>9
<1>11. TableGrows
  BY <1>5, <1>10, OneTable
<1>12. global_var'[c] = w
  BY <1>5 DEF ExecInv, TableInv
<1> QED BY <1>1, <1>8, <1>11, <1>12

\* A frame.
LEMMA SimulateTable ==
  ASSUME ExecInv, NEW c \in Consoles, Simulate(c)
  PROVE  TableGrows
<1>1. PICK garbage \in [1 .. Len(global_var[c]) -> Garbage] :
        global_var' = [global_var EXCEPT ![c] = AfterFrame(c, garbage).table]
  BY DEF Simulate
<1>2. garbage \in Garbles(c)
  BY GarbageWords
<1>3. AfterFrame(c, garbage).table \in Same(global_var[c])
  BY <1>2, AfterFrameType DEF Frames
<1>4. global_var[c] \in Tables
  BY DEF ExecInv, TableInv
<1>5. PICK u \in Grown(global_var[c], Created) : u = AfterFrame(c, garbage).table
  BY <1>3, <1>4, GrownLess
<1> QED BY <1>1, <1>5, OneTable

\* Every step.
LEMMA TableStep ==
  ASSUME ExecInv, [Next]_vars
  PROVE  TableGrows
<1>1. ASSUME NEW cmd \in Typed, NEW simulated \in BOOLEAN, Type(cmd, simulated) PROVE TableGrows
  BY <1>1, NoTable DEF Type
<1>2. ASSUME NEW c \in Consoles, NEW cmd \in Typed, execute_any(c, cmd) PROVE TableGrows
  <2>1. CASE ExecuteParameter(c, cmd)
    BY <2>1, ParameterTable
  <2>2. CASE ExecuteVariable(c, cmd)
    BY <2>2, VariableTable
  <2>3. CASE ExecuteResult(c, cmd)
    BY <2>3, ResultTable
  <2>4. CASE ExecuteMutation(c, cmd)
    BY <2>4, MutationTable
  <2>5. CASE ExecuteBenchmark(c, cmd)
    BY <2>5, NoTable DEF ExecuteBenchmark
  <2>6. CASE ExecuteObject(c, cmd)
    BY <2>6, NoTable DEF ExecuteObject
  <2>7. CASE ExecuteOther(c, cmd)
    BY <2>7, NoTable DEF ExecuteOther
  <2> QED BY <1>2, <2>1, <2>2, <2>3, <2>4, <2>5, <2>6, <2>7 DEF execute_any
<1>3. ASSUME NEW c \in Consoles, Simulate(c) PROVE TableGrows
  BY <1>3, SimulateTable
<1>4. ASSUME NEW c \in Consoles, Pause(c) PROVE TableGrows
  BY <1>4, NoTable DEF Pause
<1>5. ASSUME NEW c \in Consoles, Reload(c) PROVE TableGrows
  BY <1>5, NoTable DEF Reload
<1>6. CASE UNCHANGED vars
  BY <1>6, NoTable DEF vars
<1> QED BY <1>1, <1>2, <1>3, <1>4, <1>5, <1>6 DEF Next

-----------------------------------------------------------------------------
(***************************************************************************)
(* What a step does to the functors.                                       *)
(***************************************************************************)

\* The functors g are the functors r and others behind them.
Extends(r, g) == Len(r) <= Len(g) /\ \A i \in 1 .. Len(r) : g[i] = r[i]

FunctorInv(c) ==
  /\ result_func[c] \in Seq(Functors)
  /\ Len(result_func[c]) <= MaxFunc
  /\ FunctorsInTable(c)

\* A console whose functors stay.
LEMMA FunctorsKept ==
  ASSUME ExecInv, TableGrows, NEW c \in Consoles, result_func'[c] = result_func[c]
  PROVE  FunctorInv(c)' /\ Extends(result_func[c], result_func'[c])
<1>1. result_func[c] \in Seq(Functors) /\ Len(result_func[c]) <= MaxFunc
  BY DEF ExecInv, TableInv
<1>2. /\ Len(global_var[c]) \in Nat /\ Len(global_var'[c]) \in Nat
      /\ Len(global_var[c]) <= Len(global_var'[c])
  <2>1. global_var[c] \in Tables /\ global_var'[c] \in Tables
    BY DEF ExecInv, TableInv, TableGrows
  <2>2. Len(global_var[c]) <= Len(global_var'[c])
    BY DEF TableGrows, Grown
  <2> QED BY <2>1, <2>2, LenProperties DEF Tables
<1>3. FunctorsInTable(c)'
  BY <1>2, FunctorsStay
<1>4. Len(result_func[c]) \in Nat
  BY <1>1, LenProperties
<1> QED BY <1>1, <1>3, <1>4 DEF FunctorInv, Extends

\* A console that adds functors.
LEMMA FunctorsAdded ==
  ASSUME ExecInv, TableGrows, NEW c \in Consoles, NEW g \in Seq(Functors),
         result_func'[c] = result_func[c] \o g,
         Len(result_func[c]) + Len(g) <= MaxFunc,
         \A n \in 1 .. Len(g) : g[n].var \in 1 .. Len(global_var'[c])
  PROVE  FunctorInv(c)' /\ Extends(result_func[c], result_func'[c])
<1>1. PICK r \in Seq(Functors) : r = result_func[c]
  BY DEF ExecInv, TableInv
<1>2. /\ r \o g \in Seq(Functors) /\ Len(r \o g) = Len(r) + Len(g)
      /\ \A i \in 1 .. Len(r) + Len(g) : (r \o g)[i] = IF i <= Len(r) THEN r[i] ELSE g[i - Len(r)]
  BY ConcatProperties
<1>3. Len(r) \in Nat /\ Len(g) \in Nat
  BY LenProperties
<1>4. /\ Len(global_var[c]) \in Nat /\ Len(global_var'[c]) \in Nat
      /\ Len(global_var[c]) <= Len(global_var'[c])
  <2>1. global_var[c] \in Tables /\ global_var'[c] \in Tables
    BY DEF ExecInv, TableInv, TableGrows
  <2>2. Len(global_var[c]) <= Len(global_var'[c])
    BY DEF TableGrows, Grown
  <2> QED BY <2>1, <2>2, LenProperties DEF Tables
<1>5. \A i \in 1 .. Len(r) : r[i] # Noop => r[i].var \in 1 .. Len(global_var'[c])
  <2> SUFFICES ASSUME NEW i \in 1 .. Len(r), r[i] # Noop
               PROVE  r[i].var \in 1 .. Len(global_var'[c])
    OBVIOUS
  <2>1. r[i].var \in 1 .. Len(global_var[c])
    BY <1>1 DEF ExecInv, TableInv, FunctorsInTable
  <2> QED BY <1>4, <2>1
<1>6. \A i \in 1 .. Len(r \o g) : (r \o g)[i] # Noop => (r \o g)[i].var \in 1 .. Len(global_var'[c])
  <2> SUFFICES ASSUME NEW i \in 1 .. Len(r \o g), (r \o g)[i] # Noop
               PROVE  (r \o g)[i].var \in 1 .. Len(global_var'[c])
    OBVIOUS
  <2>1. CASE i <= Len(r)
    <3>1. (r \o g)[i] = r[i] /\ i \in 1 .. Len(r)
      BY <1>2, <1>3, <2>1
    <3> QED BY <1>5, <3>1
  <2>2. CASE ~(i <= Len(r))
    <3>1. (r \o g)[i] = g[i - Len(r)] /\ i - Len(r) \in 1 .. Len(g)
      BY <1>2, <1>3, <2>2
    <3> QED BY <3>1
  <2> QED BY <2>1, <2>2
<1>7. result_func'[c] = r \o g
  BY <1>1
<1>8. FunctorsInTable(c)'
  BY <1>6, <1>7 DEF FunctorsInTable
<1>9. Extends(r, r \o g)
  <2>1. Len(r) <= Len(r \o g)
    BY <1>2, <1>3
  <2>2. \A i \in 1 .. Len(r) : (r \o g)[i] = r[i]
    BY <1>2, <1>3
  <2> QED BY <2>1, <2>2 DEF Extends
<1> QED BY <1>1, <1>2, <1>7, <1>8, <1>9 DEF FunctorInv

\* What every step does to the functors and the handles.  A console that does
\* not start over keeps its functors; its handles are kept or lead to what they
\* must.
Leads(c, f, p) ==
  LET h == load_param_handle[c][f][p]
  IN  h > 0 => /\ h < Len(result_func[c])
               /\ \E v \in 1 .. Len(global_var[c]) : result_func[c][h + 1] = LoadFunctor(f, p, v)

FunctorsGrow ==
  /\ result_func' \in [Consoles -> Seq(Functors)]
  /\ load_param_handle' \in [Consoles -> [Fns -> [Params -> Handles]]]
  /\ save_result_handle' \in [Consoles -> [Fns -> Handles]]
  /\ \A c \in Consoles : FunctorInv(c)'
  /\ \A c \in Consoles : Extends(result_func[c], result_func'[c]) \/ Reload(c)
  /\ \A c \in Consoles, f \in Fns, p \in Params :
       \/ Leads(c, f, p)'
       \/ /\ load_param_handle'[c][f][p] = load_param_handle[c][f][p]
          /\ Extends(result_func[c], result_func'[c])

\* A step that changes neither.
LEMMA NoFunctors ==
  ASSUME ExecInv, TableGrows, UNCHANGED <<result_func, load_param_handle, save_result_handle>>
  PROVE  FunctorsGrow
<1>1. \A c \in Consoles : FunctorInv(c)' /\ Extends(result_func[c], result_func'[c])
  BY FunctorsKept
<1> QED BY <1>1 DEF FunctorsGrow, ExecInv, TableInv, HandleInv

\* execute_parameter.
LEMMA ParameterStep ==
  ASSUME ExecInv, TableGrows, NEW c \in Consoles, NEW cmd \in Typed, ExecuteParameter(c, cmd)
  PROVE  FunctorsGrow
<1>1. /\ cmd.cmd = "parameter"
      /\ result_func' = [result_func EXCEPT ![c] = @ \o AddedFunctors(c, cmd)]
      /\ UNCHANGED save_result_handle
  BY ParameterParts
<1>2. load_param_handle' = [load_param_handle EXCEPT ![c] =
         [f \in Fns |-> [p \in Params |->
            IF <<f, p>> \in Loads(c, cmd) THEN LoadIndex(c, cmd, <<f, p>>)
            ELSE IF <<f, p>> \in Slots(cmd) THEN 0 ELSE @[f][p]]]]
  BY ParameterParts
<1>3. PICK g : g = AddedFunctors(c, cmd)
  OBVIOUS
<1>4. PICK r : r = result_func[c]
  OBVIOUS
<1>5. Len(global_var'[c]) = Len(global_var[c])
  BY ParameterTable
<1>6. r \in Seq(Functors) /\ result_func \in [Consoles -> Seq(Functors)]
  BY <1>4 DEF ExecInv, TableInv
<1>7. /\ g \in Seq(Functors) /\ Len(r) + Len(g) <= MaxFunc
      /\ \A n \in 1 .. Len(g) : g[n].var \in 1 .. Len(global_var'[c])
      /\ \A s \in Loads(c, cmd) :
           /\ LoadIndex(c, cmd, s) \in Handles
           /\ LoadIndex(c, cmd, s) # -1 =>
                /\ LoadIndex(c, cmd, s) + 1 - Len(r) \in 1 .. Len(g)
                /\ g[LoadIndex(c, cmd, s) + 1 - Len(r)] = SlotFunctor(c, cmd, s)
                /\ (CHOOSE i \in SlotVar(c, cmd, s) : TRUE) \in 1 .. Len(global_var'[c])
  BY <1>1, <1>3, <1>4, <1>5, ParameterFunctors
<1>8. result_func'[c] = r \o g /\ \A d \in Consoles \ {c} : result_func'[d] = result_func[d]
  BY <1>1, <1>3, <1>4, <1>6
<1>9. FunctorInv(c)' /\ Extends(result_func[c], result_func'[c])
  BY <1>4, <1>7, <1>8, FunctorsAdded
<1>10. \A d \in Consoles : FunctorInv(d)' /\ Extends(result_func[d], result_func'[d])
  BY <1>8, <1>9, FunctorsKept
<1>11. load_param_handle \in [Consoles -> [Fns -> [Params -> Handles]]]
  BY DEF ExecInv, HandleInv
<1>12. 0 \in Handles
  BY ExecuteAssumption DEF Handles
<1> DEFINE old == load_param_handle[c]
           row == [f \in Fns |-> [p \in Params |->
                     IF <<f, p>> \in Loads(c, cmd) THEN LoadIndex(c, cmd, <<f, p>>)
                     ELSE IF <<f, p>> \in Slots(cmd) THEN 0 ELSE old[f][p]]]
<1>13. row \in [Fns -> [Params -> Handles]]
  <2>1. \A f \in Fns, p \in Params : <<f, p>> \in Loads(c, cmd) => LoadIndex(c, cmd, <<f, p>>) \in Handles
    BY <1>7
  <2>2. \A f \in Fns, p \in Params : old[f][p] \in Handles
    BY <1>11
  <2> HIDE DEF old
  <2>3. \A f \in Fns, p \in Params : row[f][p] \in Handles
    BY <1>12, <2>1, <2>2
  <2> QED BY <2>3
<1>14. load_param_handle' = [load_param_handle EXCEPT ![c] = row]
  BY <1>2
<1>15. \A f \in Fns, p \in Params :
         \/ <<f, p>> \in Loads(c, cmd) /\ row[f][p] = LoadIndex(c, cmd, <<f, p>>)
         \/ row[f][p] = 0
         \/ row[f][p] = load_param_handle[c][f][p]
  OBVIOUS
<1> HIDE DEF row
<1>16. load_param_handle' \in [Consoles -> [Fns -> [Params -> Handles]]]
  BY <1>11, <1>13, <1>14
<1>17. /\ load_param_handle'[c] = row
       /\ \A d \in Consoles \ {c} : load_param_handle'[d] = load_param_handle[d]
  BY <1>11, <1>14
<1>18. ASSUME NEW f \in Fns, NEW p \in Params
       PROVE  \/ Leads(c, f, p)'
              \/ load_param_handle'[c][f][p] = load_param_handle[c][f][p]
  <2>1. CASE row[f][p] = 0
    BY <1>17, <2>1 DEF Leads
  <2>2. CASE row[f][p] = load_param_handle[c][f][p]
    BY <1>17, <2>2
  <2>3. CASE <<f, p>> \in Loads(c, cmd) /\ row[f][p] = LoadIndex(c, cmd, <<f, p>>)
    <3>1. PICK h : h = LoadIndex(c, cmd, <<f, p>>)
      OBVIOUS
    <3>2. PICK v : v = CHOOSE i \in SlotVar(c, cmd, <<f, p>>) : TRUE
      OBVIOUS
    <3>3. CASE ~(h > 0)
      BY <1>17, <2>3, <3>1, <3>3 DEF Leads
    <3>4. CASE h > 0
      <4>1. h # -1
        BY <3>4
      <4>2. /\ h \in Handles /\ h + 1 - Len(r) \in 1 .. Len(g)
            /\ g[h + 1 - Len(r)] = SlotFunctor(c, cmd, <<f, p>>)
            /\ v \in 1 .. Len(global_var'[c])
        BY <1>7, <2>3, <3>1, <3>2, <4>1
      <4>3. SlotFunctor(c, cmd, <<f, p>>) = LoadFunctor(f, p, v)
        BY <3>2 DEF SlotFunctor
      <4>4. h \in Int /\ Len(r) \in Nat /\ Len(g) \in Nat
        BY <1>6, <1>7, <4>2, LenProperties DEF Handles
      <4>5. Len(r \o g) = Len(r) + Len(g)
        BY <1>6, <1>7, ConcatProperties
      <4>6. h < Len(r \o g) /\ h + 1 \in 1 .. Len(r) + Len(g) /\ ~(h + 1 <= Len(r))
        BY <4>2, <4>4, <4>5
      <4>7. (r \o g)[h + 1] = g[h + 1 - Len(r)]
        <5>1. g \in Seq(Functors)
          BY <1>7
        <5>2. \A i \in 1 .. Len(r) + Len(g) :
                (r \o g)[i] = IF i <= Len(r) THEN r[i] ELSE g[i - Len(r)]
          BY <1>6, <5>1, ConcatProperties
        <5> DEFINE k == h + 1
        <5>3. k \in 1 .. Len(r) + Len(g) /\ ~(k <= Len(r))
          BY <4>6
        <5>4. k - Len(r) = h + 1 - Len(r)
          BY <4>4
        <5> HIDE DEF k
        <5>5. (r \o g)[k] = g[k - Len(r)]
          BY <5>2, <5>3
        <5> QED BY <5>4, <5>5 DEF k
      <4> QED BY <1>8, <1>17, <2>3, <3>1, <4>2, <4>3, <4>6, <4>7 DEF Leads
    <3> QED BY <3>3, <3>4
  <2> QED BY <1>15, <2>1, <2>2, <2>3
<1>19. result_func' \in [Consoles -> Seq(Functors)]
  <2>1. result_func'[c] \in Seq(Functors)
    BY <1>9 DEF FunctorInv
  <2> QED BY <1>1, <1>3, <1>4, <1>6, <1>8, <2>1
<1>20. save_result_handle' \in [Consoles -> [Fns -> Handles]]
  BY <1>1 DEF ExecInv, HandleInv
<1> QED BY <1>10, <1>16, <1>17, <1>18, <1>19, <1>20 DEF FunctorsGrow

\* execute_result.
LEMMA ResultStep ==
  ASSUME ExecInv, TableGrows, NEW c \in Consoles, NEW cmd \in Typed, ExecuteResult(c, cmd)
  PROVE  FunctorsGrow
<1>1. PICK t : t = global_var[c]
  OBVIOUS
<1>2. PICK r : r = result_func[c]
  OBVIOUS
<1>3. PICK i : i = CHOOSE j \in Entry(t, cmd.name) : TRUE
  OBVIOUS
<1>4. t \in Tables /\ cmd.name \in Names /\ cmd.fn \in Fns
  BY <1>1, CommandTypes DEF ExecInv, TableInv, ExecuteResult
<1>5. /\ r \in Seq(Functors) /\ Len(r) \in Nat /\ Len(r) <= MaxFunc
      /\ result_func \in [Consoles -> Seq(Functors)]
  BY <1>2, LenProperties DEF ExecInv, TableInv
<1>6. result_func' = [result_func EXCEPT ![c] =
        IF Entry(t, cmd.name) = {} \/ Len(r) >= MaxFunc THEN r
        ELSE Append(r, StoreFunctor(cmd.fn, i))]
  BY <1>1, <1>2, <1>3 DEF ExecuteResult
<1>7. UNCHANGED load_param_handle
  BY DEF ExecuteResult
<1>8. save_result_handle' = [save_result_handle EXCEPT ![c][cmd.fn] =
        IF Entry(t, cmd.name) = {} THEN 0 ELSE FunctorIndex(c, 0)]
  BY <1>1 DEF ExecuteResult
<1>9. save_result_handle' \in [Consoles -> [Fns -> Handles]]
  <2>1. FunctorIndex(c, 0) \in Handles
    BY <1>2, <1>5, ExecuteAssumption DEF FunctorIndex, Handles
  <2>2. 0 \in Handles
    BY ExecuteAssumption DEF Handles
  <2>3. PICK h \in Handles : h = IF Entry(t, cmd.name) = {} THEN 0 ELSE FunctorIndex(c, 0)
    BY <2>1, <2>2
  <2>4. save_result_handle \in [Consoles -> [Fns -> Handles]]
    BY DEF ExecInv, HandleInv
  <2>5. save_result_handle' = [save_result_handle EXCEPT ![c][cmd.fn] = h]
    BY <1>8, <2>3
  <2> QED BY <1>4, <2>4, <2>5
<1>10. \A d \in Consoles \ {c} : result_func'[d] = result_func[d]
  BY <1>5, <1>6
<1>11. FunctorInv(c)' /\ Extends(result_func[c], result_func'[c])
  <2>1. CASE Entry(t, cmd.name) = {} \/ Len(r) >= MaxFunc
    <3>1. result_func'[c] = result_func[c]
      BY <1>2, <1>5, <1>6, <2>1
    <3> QED BY <3>1, FunctorsKept
  <2>2. CASE ~(Entry(t, cmd.name) = {} \/ Len(r) >= MaxFunc)
    <3> DEFINE e == StoreFunctor(cmd.fn, i)
               g == <<e>>
    <3>1. i \in Entry(t, cmd.name)
      BY <1>3, <2>2, Zenon
    <3>2. Entry(t, cmd.name) \subseteq 1 .. Len(global_get_or_create(t, cmd.name))
      BY <1>4, CreateType
    <3>3. i \in 1 .. Len(global_var'[c])
      BY <1>1, <3>1, <3>2, ResultTable
    <3>4. global_var'[c] \in Tables
      BY DEF TableGrows
    <3>5. Len(global_var'[c]) \in Nat /\ Len(global_var'[c]) <= MaxVariable
      BY <3>4, LenProperties DEF Tables
    <3>6. i \in 1 .. MaxVariable
      BY <3>3, <3>5, ExecuteAssumption
    <3>7. e \in Functors /\ e.var = i
      BY <1>4, <3>6 DEF StoreFunctor, Functors
    <3>8. result_func'[c] = Append(r, e)
      BY <1>5, <1>6, <2>2
    <3> HIDE DEF e
    <3>9. g \in Seq(Functors) /\ Len(g) = 1 /\ g[1] = e
      BY <3>7
    <3>10. Append(r, e) = r \o g
      BY <1>5, <3>7, AppendIsConcat
    <3> HIDE DEF g
    <3>11. \A n \in 1 .. Len(g) : g[n].var \in 1 .. Len(global_var'[c])
      BY <3>3, <3>7, <3>9
    <3>12. Len(r) + Len(g) <= MaxFunc
      BY <1>5, <2>2, <3>9, ExecuteAssumption
    <3>13. result_func'[c] = result_func[c] \o g
      BY <1>2, <3>8, <3>10
    <3>14. Len(result_func[c]) + Len(g) <= MaxFunc
      BY <1>2, <3>12
    <3>15. g \in Seq(Functors)
      BY <3>9
    <3> QED BY <3>11, <3>13, <3>14, <3>15, FunctorsAdded
  <2> QED BY <2>1, <2>2
<1>12. \A d \in Consoles : FunctorInv(d)' /\ Extends(result_func[d], result_func'[d])
  BY <1>10, <1>11, FunctorsKept
<1>13. result_func' \in [Consoles -> Seq(Functors)]
  <2>1. result_func'[c] \in Seq(Functors)
    BY <1>11 DEF FunctorInv
  <2> QED BY <1>5, <1>6, <1>10, <2>1
<1>14. load_param_handle' \in [Consoles -> [Fns -> [Params -> Handles]]]
  BY <1>7 DEF ExecInv, HandleInv
<1> QED BY <1>7, <1>9, <1>12, <1>13, <1>14 DEF FunctorsGrow

\* execute_init clears the functors and the handles that load.
LEMMA ReloadStep ==
  ASSUME ExecInv, TableGrows, NEW c \in Consoles, Reload(c)
  PROVE  FunctorsGrow
<1>1. /\ result_func' = [result_func EXCEPT ![c] = <<Noop>>]
      /\ load_param_handle' = [load_param_handle EXCEPT ![c] = NoParams]
      /\ UNCHANGED save_result_handle
  BY DEF Reload, ClearedHandles
<1>2. /\ result_func \in [Consoles -> Seq(Functors)]
      /\ load_param_handle \in [Consoles -> [Fns -> [Params -> Handles]]]
  BY DEF ExecInv, TableInv, HandleInv
<1>3. <<Noop>> \in Seq(Functors) /\ Len(<<Noop>>) = 1 /\ <<Noop>>[1] = Noop
  BY DEF Functors
<1>4. NoParams \in [Fns -> [Params -> Handles]]
  BY ExecuteAssumption DEF NoParams, Handles
<1>5. /\ result_func'[c] = <<Noop>> /\ load_param_handle'[c] = NoParams
      /\ \A d \in Consoles \ {c} : /\ result_func'[d] = result_func[d]
                                   /\ load_param_handle'[d] = load_param_handle[d]
  BY <1>1, <1>2
<1>6. FunctorInv(c)'
  BY <1>3, <1>5, ExecuteAssumption DEF FunctorInv, FunctorsInTable
<1>7. \A d \in Consoles \ {c} : FunctorInv(d)' /\ Extends(result_func[d], result_func'[d])
  BY <1>5, FunctorsKept
<1>8. \A f \in Fns, p \in Params : Leads(c, f, p)'
  <2> SUFFICES ASSUME NEW f \in Fns, NEW p \in Params PROVE Leads(c, f, p)'
    OBVIOUS
  <2>1. load_param_handle'[c][f][p] = 0
    BY <1>5 DEF NoParams
  <2> QED BY <2>1 DEF Leads
<1>9. /\ result_func' \in [Consoles -> Seq(Functors)]
      /\ load_param_handle' \in [Consoles -> [Fns -> [Params -> Handles]]]
  BY <1>1, <1>2, <1>3, <1>4
<1>10. save_result_handle' \in [Consoles -> [Fns -> Handles]]
  BY <1>1 DEF ExecInv, HandleInv
<1> QED BY <1>5, <1>6, <1>7, <1>8, <1>9, <1>10 DEF FunctorsGrow

\* Every step.
LEMMA FunctorStep ==
  ASSUME ExecInv, [Next]_vars
  PROVE  FunctorsGrow
<1>0. TableGrows
  BY TableStep
<1>1. ASSUME NEW cmd \in Typed, NEW simulated \in BOOLEAN, Type(cmd, simulated) PROVE FunctorsGrow
  BY <1>0, <1>1, NoFunctors DEF Type, execVars
<1>2. ASSUME NEW c \in Consoles, NEW cmd \in Typed, execute_any(c, cmd) PROVE FunctorsGrow
  <2>1. CASE ExecuteParameter(c, cmd)
    BY <1>0, <2>1, ParameterStep
  <2>2. CASE ExecuteVariable(c, cmd)
    BY <1>0, <2>2, NoFunctors DEF ExecuteVariable, execVars
  <2>3. CASE ExecuteResult(c, cmd)
    BY <1>0, <2>3, ResultStep
  <2>4. CASE ExecuteMutation(c, cmd)
    BY <1>0, <2>4, NoFunctors DEF ExecuteMutation, execVars
  <2>5. CASE ExecuteBenchmark(c, cmd)
    BY <1>0, <2>5, NoFunctors DEF ExecuteBenchmark, execVars
  <2>6. CASE ExecuteObject(c, cmd)
    BY <1>0, <2>6, NoFunctors DEF ExecuteObject, execVars
  <2>7. CASE ExecuteOther(c, cmd)
    BY <1>0, <2>7, NoFunctors DEF ExecuteOther, execVars
  <2> QED BY <1>2, <2>1, <2>2, <2>3, <2>4, <2>5, <2>6, <2>7 DEF execute_any
<1>3. ASSUME NEW c \in Consoles, Simulate(c) PROVE FunctorsGrow
  BY <1>0, <1>3, NoFunctors DEF Simulate
<1>4. ASSUME NEW c \in Consoles, Pause(c) PROVE FunctorsGrow
  BY <1>0, <1>4, NoFunctors DEF Pause, execVars
<1>5. ASSUME NEW c \in Consoles, Reload(c) PROVE FunctorsGrow
  BY <1>0, <1>5, ReloadStep
<1>6. CASE UNCHANGED vars
  BY <1>0, <1>6, NoFunctors DEF vars, execVars
<1> QED BY <1>1, <1>2, <1>3, <1>4, <1>5, <1>6 DEF Next

-----------------------------------------------------------------------------
(***************************************************************************)
(* The script and the words.                                               *)
(***************************************************************************)

\* Consoles stay within the script; a frame follows a command of it.
LEMMA ScriptStep ==
  ASSUME ExecInv, [Next]_vars
  PROVE  /\ ScriptInv'
         /\ Len(script) <= Len(script')
         /\ \A n \in 1 .. Len(script) : script'[n] = script[n]
<1>1. /\ script \in Seq(Entries) /\ Len(script) \in Nat
      /\ pos \in [Consoles -> Nat]
      /\ phase \in [Consoles -> {"command", "frame", "crashed"}]
      /\ \A c \in Consoles : pos[c] <= Len(script) /\ (phase[c] = "frame" => pos[c] < Len(script))
  BY LenProperties DEF ExecInv, ScriptInv
<1>2. ASSUME NEW cmd \in Typed, NEW simulated \in BOOLEAN, Type(cmd, simulated)
      PROVE  /\ ScriptInv'
             /\ Len(script) <= Len(script')
             /\ \A n \in 1 .. Len(script) : script'[n] = script[n]
  <2> DEFINE e == [command |-> cmd, simulated |-> simulated]
  <2>1. e \in Entries
    BY DEF Entries
  <2>2. script' = Append(script, e) /\ UNCHANGED <<pos, phase>>
    BY <1>2 DEF Type
  <2> HIDE DEF e
  <2>3. /\ script' \in Seq(Entries) /\ Len(script') = Len(script) + 1
        /\ \A n \in 1 .. Len(script) : script'[n] = script[n]
    BY <1>1, <2>1, <2>2, AppendProperties
  <2>4. Len(script) <= Len(script')
    BY <1>1, <2>3
  <2>5. \A c \in Consoles : /\ pos[c] <= Len(script')
                            /\ phase[c] = "frame" => pos[c] < Len(script')
    BY <1>1, <2>3
  <2> QED BY <1>1, <2>2, <2>3, <2>4, <2>5 DEF ScriptInv
<1>3. ASSUME NEW c \in Consoles, NEW cmd \in Typed, NEW next \in {"frame", "crashed"},
             DueThen(c, cmd, next)
      PROVE  ScriptInv' /\ UNCHANGED script
  <2>1. /\ pos[c] < Len(script) /\ phase' = [phase EXCEPT ![c] = next]
        /\ UNCHANGED <<script, pos>>
    BY <1>3, DueCommand
  <2> QED BY <1>1, <2>1 DEF ScriptInv
<1>4. ASSUME NEW c \in Consoles, NEW cmd \in Typed, execute_any(c, cmd)
      PROVE  ScriptInv' /\ UNCHANGED script
  <2>1. DueThen(c, cmd, "frame") \/ DueThen(c, cmd, "crashed")
    BY <1>4, Zenon DEF execute_any, ExecuteParameter, ExecuteVariable, ExecuteResult, ExecuteMutation,
                ExecuteBenchmark, ExecuteObject, ExecuteOther, Due
  <2> QED BY <1>3, <2>1, SMTT(30)
<1>5. ASSUME NEW c \in Consoles, phase[c] = "frame", NEW next \in {"command", "crashed"},
             pos' = [pos EXCEPT ![c] = @ + 1], phase' = [phase EXCEPT ![c] = next],
             UNCHANGED script
      PROVE  ScriptInv'
  <2>1. pos[c] \in Nat /\ pos[c] + 1 <= Len(script)
    BY <1>1, <1>5
  <2> QED BY <1>1, <1>5, <2>1 DEF ScriptInv
<1>6. ASSUME NEW c \in Consoles, Simulate(c) PROVE ScriptInv' /\ UNCHANGED script
  <2>1. PICK garbage \in [1 .. Len(global_var[c]) -> Garbage] :
          phase' = [phase EXCEPT ![c] = IF AfterFrame(c, garbage).wild THEN "crashed" ELSE "command"]
    BY <1>6 DEF Simulate
  <2>2. PICK next \in {"command", "crashed"} :
          next = IF AfterFrame(c, garbage).wild THEN "crashed" ELSE "command"
    OBVIOUS
  <2>3. phase[c] = "frame" /\ pos' = [pos EXCEPT ![c] = @ + 1] /\ UNCHANGED script
    BY <1>6 DEF Simulate
  <2>4. phase' = [phase EXCEPT ![c] = next]
    BY <2>1, <2>2
  <2> QED BY <1>5, <2>3, <2>4
<1>7. ASSUME NEW c \in Consoles, Pause(c) PROVE ScriptInv' /\ UNCHANGED script
  BY <1>5, <1>7 DEF Pause
<1>8. ASSUME NEW c \in Consoles, Reload(c) PROVE ScriptInv' /\ UNCHANGED script
  <2>1. /\ phase[c] = "command" /\ pos' = [pos EXCEPT ![c] = 0] /\ UNCHANGED <<script, phase>>
    BY <1>8 DEF Reload
  <2> QED BY <1>1, <2>1 DEF ScriptInv
<1>9. CASE UNCHANGED vars
  <2>1. UNCHANGED <<script, pos, phase>>
    BY <1>9 DEF vars
  <2> QED BY <1>1, <2>1 DEF ScriptInv
<1>10. UNCHANGED script =>
         Len(script) <= Len(script') /\ \A n \in 1 .. Len(script) : script'[n] = script[n]
  BY <1>1
<1> QED BY <1>2, <1>4, <1>6, <1>7, <1>8, <1>9, <1>10 DEF Next

\* The calls of a benchmark are a number.
LEMMA BenchmarkType ==
  ASSUME NEW rounds \in 1 .. Magnitudes
  PROVE  BenchmarkCalls[rounds] \in Nat
<1> DEFINE Run(g) == [n \in 0 .. Magnitudes |-> IF n = 0 THEN 0 ELSE 10 * g[n - 1] + 1]
           after == CHOOSE g : g = Run(g)
<1>1. Magnitudes \in Nat
  BY ExecuteAssumption
<1>2. BenchmarkCalls = after
  BY DEF BenchmarkCalls
<1>3. \E g : g = Run(g)
  <2> DEFINE Step == [n \in 1 .. Magnitudes |-> [x \in Nat |-> 10 * x + 1]]
  <2>1. Step \in Rounds(Magnitudes, Nat)
    BY DEF Rounds
  <2>2. \A n \in 1 .. Magnitudes : \A x \in Nat : Step[n][x] = 10 * x + 1
    OBVIOUS
  <2> HIDE DEF Step
  <2>3. PICK g \in [0 .. Magnitudes -> Nat] :
          g[0] = 0 /\ \A i \in 1 .. Magnitudes : g[i] = Step[i][g[i - 1]]
    <3>1. Loops(Magnitudes, Nat, 0, Step) # {}
      BY <1>1, <2>1, LoopExists
    <3> QED BY <3>1 DEF Loops
  <2>4. ASSUME NEW n \in 1 .. Magnitudes PROVE g[n] = 10 * g[n - 1] + 1
    <3>1. n - 1 \in 0 .. Magnitudes
      BY <1>1
    <3>2. g[n - 1] \in Nat
      BY <3>1
    <3>3. g[n] = Step[n][g[n - 1]]
      BY <2>3
    <3>4. Step[n][g[n - 1]] = 10 * g[n - 1] + 1
      BY <2>2, <3>2
    <3> QED BY <3>3, <3>4
  <2>5. g = Run(g)
    BY <1>1, <2>3, <2>4
  <2> QED BY <2>5
<1>4. after = Run(after)
  BY <1>3, Zenon
<1> HIDE DEF after
<1>5. after[0] = 0 /\ \A n \in 1 .. Magnitudes : after[n] = 10 * after[n - 1] + 1
  BY <1>1, <1>4
<1> HIDE DEF Run
<1> DEFINE T == {n \in 0 .. Magnitudes : after[n] \in Nat}
<1>6. 0 \in T /\ \A i \in 1 .. Magnitudes : i - 1 \in T => i \in T
  BY <1>1, <1>5
<1> HIDE DEF T
<1>7. \A i \in 0 .. Magnitudes : i \in T
  BY <1>1, <1>6, UpTo
<1>8. rounds \in T
  BY <1>1, <1>7
<1> QED BY <1>2, <1>8 DEF T

\* The parameters, results and histories.
LEMMA WordStep ==
  ASSUME ExecInv, [Next]_vars
  PROVE  WordInv'
<1>1. /\ param \in [Consoles -> [Fns -> [Params -> Words]]]
      /\ result \in [Consoles -> [Fns -> Words]]
      /\ called \in [Consoles -> [Fns -> {NoCall} \cup [Params -> Words]]]
      /\ calls \in [Consoles -> Nat]
      /\ bound \in [Consoles -> [Fns -> Names \cup {Unbound}]]
  BY DEF ExecInv, WordInv
<1>2. ASSUME UNCHANGED <<param, result, called, calls, bound>> PROVE WordInv'
  BY <1>1, <1>2 DEF WordInv
<1>3. 0 \in Words
  BY ExecuteAssumption DEF Words
<1>4. ASSUME NEW c \in Consoles, NEW cmd \in Typed, ExecuteParameter(c, cmd) PROVE WordInv'
  <2>1. PICK old : old = param[c]
    OBVIOUS
  <2>2. PICK S : S = Slots(cmd) \ Added(c, cmd)
    OBVIOUS
  <2> DEFINE row == [f \in Fns |-> [p \in Params |->
                       IF <<f, p>> \in S THEN Literal[cmd.args[p]].word ELSE old[f][p]]]
  <2>3. /\ cmd.cmd = "parameter" /\ UNCHANGED <<result, bound, called, calls>>
        /\ param' = [param EXCEPT ![c] = row]
    BY <1>4, <2>1, <2>2, ParameterParts DEF Due, libVars
  <2>4. \A f \in Fns, p \in Params : <<f, p>> \in S => Literal[cmd.args[p]].word \in Words
    <3> SUFFICES ASSUME NEW f \in Fns, NEW p \in Params, <<f, p>> \in S
                 PROVE  Literal[cmd.args[p]].word \in Words
      OBVIOUS
    <3>1. p \in 1 .. Len(cmd.args)
      BY <2>2 DEF Slots
    <3>2. cmd.args[p] \in Tokens
      BY <2>3, <3>1, ParameterType
    <3> QED BY <3>2, ExecuteAssumption
  <2>5. \A f \in Fns, p \in Params : old[f][p] \in Words
    BY <1>1, <2>1
  <2>6. row \in [Fns -> [Params -> Words]]
    <3>1. \A f \in Fns, p \in Params : row[f][p] \in Words
      BY <2>4, <2>5
    <3> QED BY <3>1
  <2> HIDE DEF row
  <2> QED BY <1>1, <2>3, <2>6 DEF WordInv
<1>5. ASSUME NEW c \in Consoles, NEW cmd \in Typed, ExecuteResult(c, cmd) PROVE WordInv'
  <2>1. cmd.name \in Names /\ cmd.fn \in Fns
    BY <1>5, CommandTypes DEF ExecuteResult
  <2>2. UNCHANGED <<param, result, called, calls>>
    BY <1>5 DEF ExecuteResult, Due, libVars
  <2>3. \E b \in Names \cup {Unbound} : bound' = [bound EXCEPT ![c][cmd.fn] = b]
    BY <1>5, <2>1 DEF ExecuteResult
  <2>4. bound' \in [Consoles -> [Fns -> Names \cup {Unbound}]]
    BY <1>1, <2>1, <2>3
  <2> QED BY <1>1, <2>2, <2>4 DEF WordInv
<1>6. ASSUME NEW c \in Consoles, NEW cmd \in Typed, ExecuteBenchmark(c, cmd) PROVE WordInv'
  <2>1. /\ called' = [called EXCEPT ![c] = param[c]]
        /\ UNCHANGED <<param, result, bound>>
    BY <1>6 DEF ExecuteBenchmark, execVars
  <2>2. PICK rounds \in 1 .. Magnitudes :
          calls' = [calls EXCEPT ![c] = @ + NumFns * BenchmarkCalls[rounds]]
    BY <1>6 DEF ExecuteBenchmark
  <2>3. BenchmarkCalls[rounds] \in Nat /\ NumFns \in Nat
    BY BenchmarkType, ExecuteAssumption
  <2>4. PICK k \in Nat : k = BenchmarkCalls[rounds]
    BY <2>3
  <2>5. NumFns * k \in Nat
    BY <2>3
  <2>6. calls[c] + NumFns * k \in Nat
    BY <1>1, <2>5
  <2>7. calls' \in [Consoles -> Nat]
    BY <1>1, <2>2, <2>4, <2>6
  <2>8. param[c] \in [Fns -> {NoCall} \cup [Params -> Words]]
    BY <1>1
  <2>9. called' \in [Consoles -> [Fns -> {NoCall} \cup [Params -> Words]]]
    BY <1>1, <2>1, <2>8
  <2> QED BY <1>1, <2>1, <2>7, <2>9 DEF WordInv
<1>7. ASSUME NEW c \in Consoles, Simulate(c) PROVE WordInv'
  <2>1. PICK garbage \in [1 .. Len(global_var[c]) -> Garbage] :
          /\ param' = [param EXCEPT ![c] = AfterFrame(c, garbage).param]
          /\ result' = [result EXCEPT ![c] = AfterFrame(c, garbage).result]
          /\ called' = [called EXCEPT ![c] = AfterFrame(c, garbage).called]
          /\ calls' = [calls EXCEPT ![c] = @ + NumFns]
    BY <1>7 DEF Simulate
  <2>2. garbage \in Garbles(c)
    BY GarbageWords
  <2>3. PICK s \in Frames(global_var[c]) : s = AfterFrame(c, garbage)
    BY <2>2, AfterFrameType
  <2>4. /\ s.param \in [Fns -> [Params -> Words]] /\ s.result \in [Fns -> Words]
        /\ s.called \in [Fns -> {NoCall} \cup [Params -> Words]]
    BY DEF Frames
  <2>5. UNCHANGED bound
    BY <1>7 DEF Simulate
  <2>6. calls[c] + NumFns \in Nat
    BY <1>1, ExecuteAssumption
  <2>7. param' \in [Consoles -> [Fns -> [Params -> Words]]] /\ result' \in [Consoles -> [Fns -> Words]]
    BY <1>1, <2>1, <2>3, <2>4
  <2>8. called' \in [Consoles -> [Fns -> {NoCall} \cup [Params -> Words]]] /\ calls' \in [Consoles -> Nat]
    BY <1>1, <2>1, <2>3, <2>4, <2>6
  <2> QED BY <1>1, <2>5, <2>7, <2>8 DEF WordInv
<1>8. ASSUME NEW c \in Consoles, Reload(c) PROVE WordInv'
  <2>1. /\ result' = [result EXCEPT ![c] = NoResults] /\ param' = [param EXCEPT ![c] = NoParams]
        /\ called' = [called EXCEPT ![c] = [f \in Fns |-> NoCall]]
        /\ calls' = [calls EXCEPT ![c] = 0]
        /\ bound' = [bound EXCEPT ![c] = [f \in Fns |-> Unbound]]
    BY <1>8 DEF Reload
  <2>2. NoParams \in [Fns -> [Params -> Words]] /\ NoResults \in [Fns -> Words]
    BY <1>3 DEF NoParams, NoResults
  <2>3. /\ [f \in Fns |-> NoCall] \in [Fns -> {NoCall} \cup [Params -> Words]]
        /\ [f \in Fns |-> Unbound] \in [Fns -> Names \cup {Unbound}]
    OBVIOUS
  <2> QED BY <1>1, <2>1, <2>2, <2>3 DEF WordInv
<1>9. ASSUME NEW c \in Consoles, NEW cmd \in Typed, execute_any(c, cmd) PROVE WordInv'
  <2>1. CASE ExecuteVariable(c, cmd)
    BY <1>2, <2>1 DEF ExecuteVariable, execVars, Due, libVars
  <2>2. CASE ExecuteMutation(c, cmd)
    BY <1>2, <2>2 DEF ExecuteMutation, execVars, Due, libVars
  <2>3. CASE ExecuteObject(c, cmd)
    BY <1>2, <2>3 DEF ExecuteObject, execVars, libVars
  <2>4. CASE ExecuteOther(c, cmd)
    BY <1>2, <2>4 DEF ExecuteOther, execVars, Due, libVars
  <2> QED BY <1>4, <1>5, <1>6, <1>9, <2>1, <2>2, <2>3, <2>4 DEF execute_any
<1>10. ASSUME NEW cmd \in Typed, NEW simulated \in BOOLEAN, Type(cmd, simulated) PROVE WordInv'
  BY <1>2, <1>10 DEF Type, execVars, libVars
<1>11. ASSUME NEW c \in Consoles, Pause(c) PROVE WordInv'
  BY <1>2, <1>11 DEF Pause, execVars, libVars
<1>12. CASE UNCHANGED vars
  BY <1>2, <1>12 DEF vars, execVars, libVars
<1> QED BY <1>7, <1>8, <1>9, <1>10, <1>11, <1>12 DEF Next

-----------------------------------------------------------------------------
(***************************************************************************)
(* The theorems.                                                           *)
(***************************************************************************)

\* The invariant holds at first.
LEMMA ExecInit ==
  ASSUME Init
  PROVE  ExecInv
<1>1. ScriptInv
  BY DEF Init, ScriptInv
<1>2. TableInv
  <2>1. <<>> \in Tables
    BY ExecuteAssumption DEF Tables, OpsInTable
  <2>2. <<Noop>> \in Seq(Functors) /\ Len(<<Noop>>) = 1 /\ <<Noop>>[1] = Noop
    BY DEF Functors
  <2> QED BY <2>1, <2>2, ExecuteAssumption DEF Init, TableInv, FunctorsInTable
<1>3. HandleInv
  BY ExecuteAssumption DEF Init, HandleInv, NoParams, NoResults, Handles
<1>4. WordInv
  <2>1. 0 \in Words
    BY ExecuteAssumption DEF Words
  <2> QED BY <2>1 DEF Init, WordInv, NoParams, NoResults
<1> QED BY <1>1, <1>2, <1>3, <1>4 DEF ExecInv

\* Every step keeps it.
LEMMA ExecStep ==
  ASSUME ExecInv, [Next]_vars
  PROVE  ExecInv'
<1>1. TableGrows /\ FunctorsGrow
  BY TableStep, FunctorStep
<1>2. TableInv'
  BY <1>1 DEF TableGrows, FunctorsGrow, FunctorInv, TableInv
<1>3. HandleInv'
  BY <1>1 DEF FunctorsGrow, HandleInv
<1> QED BY <1>2, <1>3, ScriptStep, WordStep DEF ExecInv

\* It is an invariant of the interpreter.
THEOREM ExecInvHolds == Spec => []ExecInv
<1>1. Init => ExecInv
  BY ExecInit
<1>2. ExecInv /\ [Next]_vars => ExecInv'
  BY ExecStep
<1> QED BY <1>1, <1>2, PTL DEF Spec

\* The tables of variables and functors never exceed their arrays, and
\* whatever players type, every operation, functor, parameter and result
\* stays of its type.
THEOREM TypeOKHolds == Spec => []TypeOK
<1>1. ExecInv => TypeOK
  <2> SUFFICES ASSUME ExecInv PROVE TypeOK
    OBVIOUS
  <2>1. Len(script) \in Nat /\ \A n \in 1 .. Len(script) : script[n] \in Entries
    BY LenProperties, ElementOfSeq DEF ExecInv, ScriptInv
  <2>2. pos \in [Consoles -> 0 .. Len(script)]
    BY <2>1 DEF ExecInv, ScriptInv
  <2>3. \A c \in Consoles :
          /\ Len(global_var[c]) <= MaxVariable
          /\ \A i \in 1 .. Len(global_var[c]) : global_var[c][i] \in Globals
    BY ElementOfSeq DEF ExecInv, TableInv, Tables
  <2>4. \A c \in Consoles :
          /\ Len(result_func[c]) <= MaxFunc
          /\ \A i \in 1 .. Len(result_func[c]) : result_func[c][i] \in Functors
    BY ElementOfSeq DEF ExecInv, TableInv
  <2> QED BY <2>1, <2>2, <2>3, <2>4 DEF TypeOK, ExecInv, ScriptInv, HandleInv, WordInv, Entries
<1> QED BY <1>1, ExecInvHolds, PTL

\* A handle that loads a parameter leads to the functor of that parameter of
\* that function: through any sequence of commands, frames and restarts.
THEOREM LoadHandlesHolds == Spec => []LoadHandles
<1>1. Init => LoadHandles
  BY DEF Init, LoadHandles, NoParams
<1>2. LoadHandles <=> \A c \in Consoles, f \in Fns, p \in Params : Leads(c, f, p)
  BY DEF LoadHandles, Leads
<1>3. LoadHandles' <=> \A c \in Consoles, f \in Fns, p \in Params : Leads(c, f, p)'
  BY DEF LoadHandles, Leads
<1>4. ExecInv /\ LoadHandles /\ [Next]_vars => LoadHandles'
  <2> SUFFICES ASSUME ExecInv, LoadHandles, [Next]_vars,
                      NEW c \in Consoles, NEW f \in Fns, NEW p \in Params
               PROVE  Leads(c, f, p)'
    BY <1>3
  <2>1. TableGrows /\ FunctorsGrow
    BY TableStep, FunctorStep
  <2>2. \/ Leads(c, f, p)'
        \/ /\ load_param_handle'[c][f][p] = load_param_handle[c][f][p]
           /\ Extends(result_func[c], result_func'[c])
    BY <2>1 DEF FunctorsGrow
  <2>3. CASE /\ load_param_handle'[c][f][p] = load_param_handle[c][f][p]
             /\ Extends(result_func[c], result_func'[c])
    <3>1. PICK h : h = load_param_handle[c][f][p]
      OBVIOUS
    <3>2. h \in Int
      BY <3>1 DEF ExecInv, HandleInv, Handles
    <3>3. CASE ~(h > 0)
      BY <2>3, <3>1, <3>3 DEF Leads
    <3>4. CASE h > 0
      <4>1. Leads(c, f, p)
        BY <1>2
      <4>2. h < Len(result_func[c])
        BY <3>1, <3>4, <4>1 DEF Leads
      <4>3. PICK v \in 1 .. Len(global_var[c]) : result_func[c][h + 1] = LoadFunctor(f, p, v)
        BY <3>1, <3>4, <4>1 DEF Leads
      <4>4. Len(result_func[c]) \in Nat /\ Len(result_func'[c]) \in Nat
        BY <2>1, LenProperties DEF ExecInv, TableInv, FunctorsGrow
      <4>5. h < Len(result_func'[c]) /\ result_func'[c][h + 1] = result_func[c][h + 1]
        <5>1. /\ Len(result_func[c]) <= Len(result_func'[c])
              /\ \A i \in 1 .. Len(result_func[c]) : result_func'[c][i] = result_func[c][i]
          BY <2>3 DEF Extends
        <5>2. h + 1 \in 1 .. Len(result_func[c])
          BY <3>2, <3>4, <4>2, <4>4
        <5>3. h < Len(result_func'[c])
          BY <3>2, <4>2, <4>4, <5>1
        <5> QED BY <5>1, <5>2, <5>3
      <4>6. v \in 1 .. Len(global_var'[c])
        <5>1. global_var[c] \in Tables /\ global_var'[c] \in Tables
          BY <2>1 DEF ExecInv, TableInv, TableGrows
        <5>2. Len(global_var[c]) <= Len(global_var'[c])
          BY <2>1 DEF TableGrows, Grown
        <5>3. Len(global_var[c]) \in Nat /\ Len(global_var'[c]) \in Nat
          BY <5>1, LenProperties DEF Tables
        <5> QED BY <5>2, <5>3
      <4> QED BY <2>3, <3>1, <4>3, <4>5, <4>6 DEF Leads
    <3> QED BY <3>3, <3>4
  <2> QED BY <2>2, <2>3
<1> QED BY <1>1, <1>4, ExecInvHolds, PTL DEF Spec

\* A name that fits denotes one variable, whichever commands create it and
\* whatever frames and restarts come between.
THEOREM UniqueNamesHolds == Spec => []UniqueNames
<1>1. Init => UniqueNames
  BY DEF Init, UniqueNames
<1>2. ExecInv /\ UniqueNames /\ [Next]_vars => UniqueNames'
  <2> SUFFICES ASSUME ExecInv, UniqueNames, [Next]_vars,
                      \A n \in 1 .. Len(script') : ~Overlong(script'[n].command),
                      NEW c \in Consoles,
                      NEW i \in 1 .. Len(global_var'[c]), NEW j \in 1 .. Len(global_var'[c]),
                      global_var'[c][i].name = global_var'[c][j].name
               PROVE  i = j
    BY DEF UniqueNames
  <2>1. Len(script) \in Nat /\ Len(script') \in Nat /\ Len(script) <= Len(script')
        /\ \A n \in 1 .. Len(script) : script'[n] = script[n]
    BY ScriptStep, LenProperties DEF ExecInv, ScriptInv
  <2>2. \A n \in 1 .. Len(script) : ~Overlong(script[n].command)
    BY <2>1
  <2>3. PICK t : t = global_var[c]
    OBVIOUS
  <2>4. PICK u : u = global_var'[c]
    OBVIOUS
  <2>5. \A k, m \in 1 .. Len(t) : t[k].name = t[m].name => k = m
    BY <2>2, <2>3 DEF UniqueNames
  <2>6. t \in Tables /\ u \in Grown(t, Created)
    BY <2>3, <2>4, TableStep DEF TableGrows, ExecInv, TableInv
  <2>7. \A name \in Created : Stored[name] = name
    BY <2>2 DEF Created, Overlong
  <2>8. /\ Len(t) <= Len(u) /\ \A k \in 1 .. Len(t) : u[k].name = t[k].name
        /\ \/ Len(u) = Len(t)
           \/ \E name \in Created : /\ Len(u) = Len(t) + 1 /\ u[Len(t) + 1].name = Stored[name]
                                    /\ global_get(t, name) = {}
    BY <2>6 DEF Grown
  <2>9. Len(t) \in Nat /\ i \in 1 .. Len(u) /\ j \in 1 .. Len(u) /\ u[i].name = u[j].name
    BY <2>4, <2>6, LenProperties DEF Tables
  <2>10. CASE Len(u) = Len(t)
    BY <2>5, <2>8, <2>9, <2>10
  <2>11. CASE Len(u) # Len(t)
    <3>1. PICK name \in Created : /\ Len(u) = Len(t) + 1 /\ u[Len(t) + 1].name = Stored[name]
                                  /\ global_get(t, name) = {}
      BY <2>8, <2>11
    <3>2. u[Len(t) + 1].name = name
      BY <2>7, <3>1
    <3>3. \A k \in 1 .. Len(t) : u[k].name # name
      <4>1. \A k \in 1 .. Len(t) : t[k].name # name
        BY <2>6, <3>1, GetFinds
      <4>2. \A k \in 1 .. Len(t) : u[k].name = t[k].name
        BY <2>8
      <4> QED BY <4>1, <4>2
    <3>4. \A k \in 1 .. Len(u) : k \in 1 .. Len(t) \/ k = Len(t) + 1
      BY <2>9, <3>1
    <3> QED BY <2>5, <2>8, <2>9, <3>2, <3>3, <3>4
  <2> QED BY <2>10, <2>11
<1> QED BY <1>1, <1>2, ExecInvHolds, PTL DEF Spec

-----------------------------------------------------------------------------
(***************************************************************************)
(* Stored results.  The store handles are not cleared when a console       *)
(* starts over, so a handle alone says nothing: only together with a       *)
(* result command of this run does it lead to the functor of its function. *)
(***************************************************************************)

\* A function whose result was given a variable in this run has a handle that
\* leads to the functor that stores it there.
Stores(c, f) ==
  LET h == save_result_handle[c][f]
  IN  bound[c][f] # Unbound =>
        /\ h > 0 /\ h < Len(result_func[c])
        /\ \E v \in 1 .. Len(global_var[c]) :
             /\ result_func[c][h + 1] = StoreFunctor(f, v)
             /\ global_var[c][v].name = Stored[bound[c][f]]

\* The functor of handle 0 does nothing, and the names in the table are names
\* as they are stored.
StoreInv ==
  \A c \in Consoles :
    /\ Len(result_func[c]) >= 1 /\ result_func[c][1] = Noop
    /\ \A i \in 1 .. Len(global_var[c]) : Stored[global_var[c][i].name] = global_var[c][i].name
    /\ \A f \in Fns : Stores(c, f)

\* The variable that a function's result is stored in.
Target(c, f) == result_func[c][save_result_handle[c][f] + 1].var

\* A handle that is kept goes on leading there.
LEMMA StoresKept ==
  ASSUME ExecInv, TableGrows, NEW c \in Consoles, NEW f \in Fns, Stores(c, f),
         Extends(result_func[c], result_func'[c]),
         save_result_handle'[c][f] = save_result_handle[c][f],
         bound'[c][f] = bound[c][f], Len(result_func'[c]) \in Nat
  PROVE  Stores(c, f)'
<1>1. PICK h : h = save_result_handle[c][f]
  OBVIOUS
<1>2. h \in Int
  BY <1>1 DEF ExecInv, HandleInv, Handles
<1>3. CASE bound[c][f] = Unbound
  BY <1>3 DEF Stores
<1>4. CASE bound[c][f] # Unbound
  <2>1. h > 0 /\ h < Len(result_func[c])
    BY <1>1, <1>4 DEF Stores
  <2>2. PICK v \in 1 .. Len(global_var[c]) :
          /\ result_func[c][h + 1] = StoreFunctor(f, v)
          /\ global_var[c][v].name = Stored[bound[c][f]]
    BY <1>1, <1>4 DEF Stores
  <2>3. Len(result_func[c]) \in Nat
    BY LenProperties DEF ExecInv, TableInv
  <2>4. /\ Len(result_func[c]) <= Len(result_func'[c])
        /\ \A i \in 1 .. Len(result_func[c]) : result_func'[c][i] = result_func[c][i]
    BY DEF Extends
  <2>5. h < Len(result_func'[c]) /\ h + 1 \in 1 .. Len(result_func[c])
    BY <1>2, <2>1, <2>3, <2>4
  <2>6. /\ Len(global_var[c]) <= Len(global_var'[c])
        /\ \A i \in 1 .. Len(global_var[c]) : global_var'[c][i].name = global_var[c][i].name
    BY DEF TableGrows, Grown
  <2>7. global_var[c] \in Tables /\ global_var'[c] \in Tables
    BY DEF ExecInv, TableInv, TableGrows
  <2>8. v \in 1 .. Len(global_var'[c])
    <3>1. Len(global_var[c]) \in Nat /\ Len(global_var'[c]) \in Nat
      BY <2>7, LenProperties DEF Tables
    <3> QED BY <2>6, <3>1
  <2>9. result_func'[c][h + 1] = StoreFunctor(f, v) /\ global_var'[c][v].name = Stored[bound'[c][f]]
    BY <2>2, <2>4, <2>5, <2>6
  <2> QED BY <1>1, <2>1, <2>5, <2>8, <2>9 DEF Stores
<1> QED BY <1>3, <1>4

\* The entry that a name is stored under.
LEMMA EntryName ==
  ASSUME NEW t \in Tables, NEW name \in Names,
         \A i \in 1 .. Len(t) : Stored[t[i].name] = t[i].name,
         NEW i \in Entry(t, name)
  PROVE  /\ i \in 1 .. Len(global_get_or_create(t, name))
         /\ global_get_or_create(t, name)[i].name = Stored[name]
<1> DEFINE u == global_get_or_create(t, name)
<1>1. /\ i \in 1 .. Len(u) /\ \A j \in 1 .. Len(t) : u[j] = t[j]
      /\ u = t \/ (Len(u) = Len(t) + 1 /\ u[Len(t) + 1].name = Stored[name])
  BY CreateType
<1>2. Len(t) \in Nat
  BY LenProperties DEF Tables
<1> HIDE DEF u
<1>3. CASE global_get(t, name) # {}
  <2>1. i \in 1 .. Len(t) /\ t[i].name = name
    BY <1>3, GetInTable DEF Entry
  <2>2. Stored[name] = name
    BY <2>1
  <2> QED BY <1>1, <2>1, <2>2 DEF u
<1>4. CASE global_get(t, name) = {}
  <2>1. i = Len(t) + 1
    BY <1>4 DEF Entry
  <2>2. u # t
    BY <1>1, <1>2, <2>1
  <2> QED BY <1>1, <2>1, <2>2 DEF u
<1> QED BY <1>3, <1>4

\* execute_result gives the function a handle that leads there, or none.
LEMMA ResultStores ==
  ASSUME ExecInv, StoreInv, NEW c \in Consoles, NEW cmd \in Typed, ExecuteResult(c, cmd)
  PROVE  Stores(c, cmd.fn)'
<1>1. PICK t : t = global_var[c]
  OBVIOUS
<1>2. PICK r : r = result_func[c]
  OBVIOUS
<1>3. PICK i : i = CHOOSE j \in Entry(t, cmd.name) : TRUE
  OBVIOUS
<1>4. t \in Tables /\ cmd.name \in Names /\ cmd.fn \in Fns
  BY <1>1, CommandTypes DEF ExecInv, TableInv, ExecuteResult
<1>5. /\ r \in Seq(Functors) /\ Len(r) \in Nat /\ Len(r) <= MaxFunc
      /\ result_func \in [Consoles -> Seq(Functors)] /\ Len(r) >= 1
  BY <1>2, LenProperties DEF ExecInv, TableInv, StoreInv
<1>6. PICK k : k = IF Entry(t, cmd.name) = {} THEN 0 ELSE FunctorIndex(c, 0)
  OBVIOUS
<1>7. save_result_handle' = [save_result_handle EXCEPT ![c][cmd.fn] = k]
  BY <1>1, <1>6 DEF ExecuteResult
<1>8. bound' = [bound EXCEPT ![c][cmd.fn] = IF k > 0 THEN cmd.name ELSE Unbound]
  BY <1>1, <1>6 DEF ExecuteResult
<1>9. save_result_handle'[c][cmd.fn] = k
  BY <1>4, <1>7 DEF ExecInv, HandleInv
<1>10. bound'[c][cmd.fn] = IF k > 0 THEN cmd.name ELSE Unbound
  BY <1>4, <1>8 DEF ExecInv, WordInv
<1>11. CASE ~(k > 0)
  BY <1>10, <1>11 DEF Stores
<1>12. CASE k > 0
  <2>1. Entry(t, cmd.name) # {} /\ k = FunctorIndex(c, 0)
    BY <1>6, <1>12
  <2>2. Len(r) < MaxFunc /\ k = Len(r)
    BY <1>2, <1>5, <1>12, <2>1 DEF FunctorIndex
  <2>3. i \in Entry(t, cmd.name)
    BY <1>3, <2>1, Zenon
  <2>4. result_func' = [result_func EXCEPT ![c] = Append(r, StoreFunctor(cmd.fn, i))]
    <3>1. result_func' = [result_func EXCEPT ![c] =
            IF Entry(t, cmd.name) = {} \/ Len(r) >= MaxFunc THEN r
            ELSE Append(r, StoreFunctor(cmd.fn, i))]
      BY <1>1, <1>2, <1>3 DEF ExecuteResult
    <3>2. ~(Entry(t, cmd.name) = {} \/ Len(r) >= MaxFunc)
      BY <1>5, <2>1, <2>2, ExecuteAssumption
    <3> QED BY <3>1, <3>2
  <2> DEFINE e == StoreFunctor(cmd.fn, i)
  <2>5. result_func'[c] = Append(r, e)
    BY <1>5, <2>4
  <2> HIDE DEF e
  <2>6. Len(Append(r, e)) = Len(r) + 1 /\ Append(r, e)[Len(r) + 1] = e
    BY <1>5
  <2>7. \A j \in 1 .. Len(t) : Stored[t[j].name] = t[j].name
    BY <1>1 DEF StoreInv
  <2> DEFINE u == global_get_or_create(t, cmd.name)
  <2>8. i \in 1 .. Len(u) /\ u[i].name = Stored[cmd.name]
    BY <1>4, <2>3, <2>7, EntryName
  <2>9. global_var'[c] = [j \in 1 .. Len(u) |->
           IF j \in Entry(t, cmd.name) THEN [u[j] EXCEPT !.type = "i"] ELSE u[j]]
    BY <1>1 DEF ExecuteResult, ExecInv, TableInv
  <2>10. u \in Tables
    BY <1>4, CreateType
  <2> HIDE DEF u
  <2>11. u[i] \in Globals
    BY <2>8, <2>10, ElementOfSeq DEF Tables
  <2>12. global_var'[c][i] = [u[i] EXCEPT !.type = "i"]
    BY <2>3, <2>8, <2>9
  <2>13. global_var'[c][i].name = Stored[cmd.name]
    BY <2>8, <2>11, <2>12 DEF Globals
  <2>14. i \in 1 .. Len(global_var'[c])
    BY <1>1, <2>8, ResultTable DEF u
  <2>15. k < Len(result_func'[c]) /\ result_func'[c][k + 1] = e
    BY <1>5, <2>2, <2>5, <2>6
  <2>16. bound'[c][cmd.fn] = cmd.name
    BY <1>10, <1>12
  <2> QED BY <1>9, <1>12, <2>13, <2>14, <2>15, <2>16 DEF Stores, e
<1> QED BY <1>11, <1>12

\* A step other than a result command and a restart gives no function another
\* variable.
LEMMA OthersKeep ==
  ASSUME [Next]_vars, \A c \in Consoles : ~Reload(c),
         \A c \in Consoles, cmd \in Typed : ~ExecuteResult(c, cmd)
  PROVE  UNCHANGED <<save_result_handle, bound>>
<1>1. ASSUME NEW cmd \in Typed, NEW simulated \in BOOLEAN, Type(cmd, simulated)
      PROVE  UNCHANGED <<save_result_handle, bound>>
  BY <1>1 DEF Type, execVars
<1>2. ASSUME NEW c \in Consoles, NEW cmd \in Typed, execute_any(c, cmd)
      PROVE  UNCHANGED <<save_result_handle, bound>>
  <2>1. CASE ExecuteParameter(c, cmd)
    BY <2>1, Zenon DEF ExecuteParameter
  <2>2. CASE ExecuteVariable(c, cmd)
    BY <2>2 DEF ExecuteVariable, execVars
  <2>3. CASE ExecuteMutation(c, cmd)
    BY <2>3 DEF ExecuteMutation, execVars
  <2>4. CASE ExecuteBenchmark(c, cmd)
    BY <2>4 DEF ExecuteBenchmark, execVars
  <2>5. CASE ExecuteObject(c, cmd)
    BY <2>5 DEF ExecuteObject, execVars
  <2>6. CASE ExecuteOther(c, cmd)
    BY <2>6 DEF ExecuteOther, execVars
  <2> QED BY <1>2, <2>1, <2>2, <2>3, <2>4, <2>5, <2>6, Zenon DEF execute_any
<1>3. ASSUME NEW c \in Consoles, Simulate(c) PROVE UNCHANGED <<save_result_handle, bound>>
  BY <1>3 DEF Simulate
<1>4. ASSUME NEW c \in Consoles, Pause(c) PROVE UNCHANGED <<save_result_handle, bound>>
  BY <1>4 DEF Pause, execVars
<1>5. CASE UNCHANGED vars
  BY <1>5 DEF vars, execVars
<1> QED BY <1>1, <1>2, <1>3, <1>4, <1>5 DEF Next

\* Every step keeps the functors and the names as they must be.
LEMMA StoreTables ==
  ASSUME ExecInv, StoreInv, [Next]_vars, NEW c \in Consoles
  PROVE  /\ Len(result_func'[c]) >= 1 /\ result_func'[c][1] = Noop
         /\ \A i \in 1 .. Len(global_var'[c]) :
              Stored[global_var'[c][i].name] = global_var'[c][i].name
<1>1. TableGrows /\ FunctorsGrow
  BY TableStep, FunctorStep
<1>2. Len(result_func[c]) \in Nat /\ Len(result_func'[c]) \in Nat
  BY <1>1, LenProperties DEF ExecInv, TableInv, FunctorsGrow
<1>3. Len(result_func'[c]) >= 1 /\ result_func'[c][1] = Noop
  <2>1. CASE Extends(result_func[c], result_func'[c])
    <3>1. Len(result_func[c]) >= 1 /\ result_func[c][1] = Noop
      BY DEF StoreInv
    <3> QED BY <1>2, <2>1, <3>1 DEF Extends
  <2>2. CASE Reload(c)
    <3>1. result_func'[c] = <<Noop>>
      BY <2>2 DEF Reload, ExecInv, TableInv
    <3> QED BY <3>1
  <2> QED BY <1>1, <2>1, <2>2 DEF FunctorsGrow
<1>4. PICK t : t = global_var[c]
  OBVIOUS
<1>5. PICK u : u = global_var'[c]
  OBVIOUS
<1>6. /\ t \in Tables /\ u \in Tables /\ Len(t) <= Len(u)
      /\ \A i \in 1 .. Len(t) : u[i].name = t[i].name
      /\ \/ Len(u) = Len(t)
         \/ \E name \in Created : Len(u) = Len(t) + 1 /\ u[Len(t) + 1].name = Stored[name]
  BY <1>1, <1>4, <1>5 DEF TableGrows, Grown, ExecInv, TableInv
<1>7. Len(t) \in Nat /\ Len(u) \in Nat
  BY <1>6, LenProperties DEF Tables
<1>8. \A i \in 1 .. Len(t) : Stored[u[i].name] = u[i].name
  BY <1>4, <1>6 DEF StoreInv
<1>9. \A name \in Created : Stored[Stored[name]] = Stored[name]
  <2> SUFFICES ASSUME NEW n \in 1 .. Len(script),
                      script[n].command.cmd \in {"variable", "result"}
               PROVE  script[n].command.name \in Names
    BY ExecuteAssumption DEF Created
  <2>0. script[n] \in Entries
    BY ElementOfSeq DEF ExecInv, ScriptInv
  <2>1. script[n].command \in Typed
    BY <2>0 DEF Entries
  <2> QED BY <2>1, CommandTypes
<1>10. \A i \in 1 .. Len(u) : Stored[u[i].name] = u[i].name
  <2> SUFFICES ASSUME NEW i \in 1 .. Len(u), i \notin 1 .. Len(t)
               PROVE  Stored[u[i].name] = u[i].name
    BY <1>8
  <2>1. Len(u) # Len(t)
    OBVIOUS
  <2>2. PICK name \in Created : Len(u) = Len(t) + 1 /\ u[Len(t) + 1].name = Stored[name]
    BY <1>6, <2>1
  <2>3. i = Len(t) + 1
    BY <1>7, <2>2
  <2> QED BY <1>9, <2>2, <2>3
<1> QED BY <1>3, <1>5, <1>10

\* Every step keeps the handles of the functions that were given a variable.
LEMMA StoreStep ==
  ASSUME ExecInv, StoreInv, [Next]_vars
  PROVE  StoreInv'
<1>1. TableGrows /\ FunctorsGrow
  BY TableStep, FunctorStep
<1>2. \A c \in Consoles, f \in Fns : Stores(c, f)
  BY DEF StoreInv
<1>3. ASSUME NEW c \in Consoles, NEW f \in Fns PROVE Stores(c, f)'
  <2>0. Len(result_func[c]) \in Nat /\ Len(result_func'[c]) \in Nat
    BY <1>1, LenProperties DEF ExecInv, TableInv, FunctorsGrow
  <2>1. CASE Reload(c)
    <3>1. bound'[c][f] = Unbound
      BY <2>1, <1>3 DEF Reload, ExecInv, WordInv
    <3> QED BY <3>1 DEF Stores
  <2>2. ASSUME NEW d \in Consoles \ {c}, Reload(d) PROVE Stores(c, f)'
    <3>1. result_func'[c] = result_func[c] /\ bound'[c] = bound[c]
      BY <2>2 DEF Reload, ExecInv, TableInv, WordInv
    <3>2. save_result_handle'[c][f] = save_result_handle[c][f]
      BY <2>2 DEF Reload
    <3>3. Extends(result_func[c], result_func'[c])
      BY <2>0, <3>1 DEF Extends
    <3> QED BY <1>1, <1>2, <2>0, <3>1, <3>2, <3>3, StoresKept
  <2>3. ASSUME NEW d \in Consoles, NEW cmd \in Typed, ExecuteResult(d, cmd) PROVE Stores(c, f)'
    <3>1. CASE d = c /\ f = cmd.fn
      BY <2>3, <3>1, ResultStores
    <3>2. CASE ~(d = c /\ f = cmd.fn)
      <4>1. PICK k, n : /\ save_result_handle' = [save_result_handle EXCEPT ![d][cmd.fn] = k]
                        /\ bound' = [bound EXCEPT ![d][cmd.fn] = n]
        BY <2>3 DEF ExecuteResult
      <4>2. /\ save_result_handle'[c][f] = save_result_handle[c][f]
            /\ bound'[c][f] = bound[c][f]
        BY <3>2, <4>1 DEF ExecInv, HandleInv, WordInv
      <4>3. ~Reload(c)
        <5>1. phase[d] = "command" /\ phase' = [phase EXCEPT ![d] = "frame"]
          BY <2>3 DEF ExecuteResult, Due, DueThen
        <5>2. phase' # phase
          BY <5>1 DEF ExecInv, ScriptInv
        <5> QED BY <5>2 DEF Reload
      <4>4. Extends(result_func[c], result_func'[c])
        BY <1>1, <4>3 DEF FunctorsGrow
      <4> QED BY <1>1, <1>2, <2>0, <4>2, <4>4, StoresKept
    <3> QED BY <3>1, <3>2
  <2>4. CASE /\ \A d \in Consoles : ~Reload(d)
             /\ \A d \in Consoles, cmd \in Typed : ~ExecuteResult(d, cmd)
    <3>1. UNCHANGED <<save_result_handle, bound>>
      BY <2>4, OthersKeep
    <3>2. Extends(result_func[c], result_func'[c])
      BY <1>1, <2>4 DEF FunctorsGrow
    <3> QED BY <1>1, <1>2, <2>0, <3>1, <3>2, StoresKept
  <2> QED BY <2>1, <2>2, <2>3, <2>4
<1> QED BY <1>3, StoreTables DEF StoreInv

\* A result command's variable stays the one that the function's handle leads
\* to, through every later command, frame and restart of other consoles.
THEOREM StoreInvHolds == Spec => []StoreInv
<1>1. Init => StoreInv
  <2> SUFFICES ASSUME Init PROVE StoreInv
    OBVIOUS
  <2>1. \A c \in Consoles : /\ result_func[c] = <<Noop>> /\ global_var[c] = <<>>
                            /\ \A f \in Fns : bound[c][f] = Unbound
    BY DEF Init
  <2> QED BY <2>1 DEF StoreInv, Stores
<1>2. ExecInv /\ StoreInv /\ [Next]_vars => StoreInv'
  BY StoreStep
<1> QED BY <1>1, <1>2, ExecInvHolds, PTL DEF Spec

-----------------------------------------------------------------------------
(***************************************************************************)
(* A frame, function by function: after the first i functions every        *)
(* variable that results go to holds the result of the last of them that   *)
(* stores there.                                                           *)
(***************************************************************************)

\* Loading a parameter leaves the variables and the results alone, and calls
\* no functor that is not installed unless the table was full.
LEMMA InvokeLoad ==
  ASSUME ExecInv, StoreInv, LoadHandles, NEW c \in Consoles, NEW f \in Fns, NEW p \in Params,
         NEW s \in Frames(global_var[c])
  PROVE  /\ Invoke(c, load_param_handle[c][f][p], s).table = s.table
         /\ Invoke(c, load_param_handle[c][f][p], s).result = s.result
         /\ load_param_handle[c][f][p] # -1 => Invoke(c, load_param_handle[c][f][p], s).wild = s.wild
<1>1. PICK h : h = load_param_handle[c][f][p]
  OBVIOUS
<1>2. h \in Int /\ h >= -1
  BY <1>1, ExecuteAssumption DEF ExecInv, HandleInv, Handles
<1>3. /\ Len(result_func[c]) \in Nat /\ Len(result_func[c]) >= 1
      /\ result_func[c][1] = Noop
  BY LenProperties DEF ExecInv, TableInv, StoreInv
<1>4. CASE h = -1
  <2>0. h \notin 0 .. Len(result_func[c]) - 1
    BY <1>4
  <2>1. Invoke(c, h, s) = [s EXCEPT !.wild = TRUE]
    BY <2>0 DEF Invoke
  <2> QED BY <1>1, <1>4, <2>1 DEF Frames
<1>5. CASE h = 0
  <2>1. h \in 0 .. Len(result_func[c]) - 1 /\ result_func[c][h + 1] = Noop
    BY <1>3, <1>5
  <2>2. Invoke(c, h, s) = s
    BY <2>1 DEF Invoke, Noop
  <2> QED BY <1>1, <2>2
<1>6. CASE h > 0
  <2>0. h \in 0 .. Len(result_func[c]) - 1
    BY <1>1, <1>2, <1>3, <1>6 DEF LoadHandles
  <2>1. PICK v \in 1 .. Len(global_var[c]) : result_func[c][h + 1] = LoadFunctor(f, p, v)
    BY <1>1, <1>6 DEF LoadHandles
  <2>2. Invoke(c, h, s) = [s EXCEPT !.param[f][p] = s.table[v].value]
    BY <2>0, <2>1 DEF Invoke, LoadFunctor
  <2> QED BY <1>1, <2>2 DEF Frames
<1> QED BY <1>2, <1>3, <1>4, <1>5, <1>6

\* So does loading all parameters of a function.
LEMMA LoadParamKeeps ==
  ASSUME ExecInv, StoreInv, LoadHandles, NEW c \in Consoles, NEW f \in Fns,
         NEW s \in Frames(global_var[c])
  PROVE  /\ call_load_param(c, f, s).table = s.table
         /\ call_load_param(c, f, s).result = s.result
         /\ (\A p \in Params : load_param_handle[c][f][p] # -1) =>
              call_load_param(c, f, s).wild = s.wild
<1> DEFINE Full == \E p \in Params : load_param_handle[c][f][p] = -1
           S == {x \in Frames(global_var[c]) :
                   x.table = s.table /\ x.result = s.result /\ (Full \/ x.wild = s.wild)}
<1>1. ParamCount \in Nat /\ s \in S
  BY ExecuteAssumption
<1>2. PICK after : /\ after[0] = s
                   /\ \A p \in 1 .. ParamCount :
                        after[p] = Invoke(c, load_param_handle[c][f][p], after[p - 1])
                   /\ call_load_param(c, f, s) = after[ParamCount]
  BY LoadParamLoop
<1>3. ASSUME NEW p \in 1 .. ParamCount, after[p - 1] \in S PROVE after[p] \in S
  <2>1. PICK x \in Frames(global_var[c]) : x = after[p - 1]
    BY <1>3
  <2>2. after[p] = Invoke(c, load_param_handle[c][f][p], x) /\ p \in Params
    BY <1>2, <2>1 DEF Params
  <2>3. /\ after[p] \in Frames(global_var[c])
        /\ after[p].table = x.table /\ after[p].result = x.result
        /\ load_param_handle[c][f][p] # -1 => after[p].wild = x.wild
    BY <2>2, InvokeType, InvokeLoad
  <2> QED BY <1>3, <2>1, <2>2, <2>3
<1>4. after[0] \in S
  BY <1>1, <1>2
<1> HIDE DEF S
<1>5. after[ParamCount] \in S
  BY <1>1, <1>3, <1>4, LoopStays
<1> QED BY <1>2, <1>5 DEF S

\* The variable that a function stores in.
LEMMA TargetType ==
  ASSUME StoreInv, NEW c \in Consoles, NEW f \in Fns, bound[c][f] # Unbound
  PROVE  /\ save_result_handle[c][f] > 0 /\ save_result_handle[c][f] < Len(result_func[c])
         /\ Target(c, f) \in 1 .. Len(global_var[c])
         /\ result_func[c][save_result_handle[c][f] + 1] = StoreFunctor(f, Target(c, f))
         /\ global_var[c][Target(c, f)].name = Stored[bound[c][f]]
<1>1. Stores(c, f)
  BY DEF StoreInv
<1>2. PICK v \in 1 .. Len(global_var[c]) :
        /\ result_func[c][save_result_handle[c][f] + 1] = StoreFunctor(f, v)
        /\ global_var[c][v].name = Stored[bound[c][f]]
  BY <1>1 DEF Stores
<1>3. Target(c, f) = v
  BY <1>2 DEF Target, StoreFunctor
<1> QED BY <1>1, <1>2, <1>3 DEF Stores

\* Storing a result writes that variable's value and nothing else.
LEMMA StoreResult ==
  ASSUME ExecInv, StoreInv, NEW c \in Consoles, NEW f \in Fns, NEW s \in Frames(global_var[c]),
         save_result_handle[c][f] = 0 \/ bound[c][f] # Unbound
  PROVE  /\ call_store_result(c, f, s).result = s.result
         /\ call_store_result(c, f, s).wild = s.wild
         /\ \A i \in 1 .. Len(global_var[c]) :
              call_store_result(c, f, s).table[i].value =
                IF bound[c][f] # Unbound /\ i = Target(c, f) THEN s.result[f]
                ELSE s.table[i].value
<1>1. PICK h : h = save_result_handle[c][f]
  OBVIOUS
<1>2. h \in Int /\ call_store_result(c, f, s) = Invoke(c, h, s)
  BY <1>1 DEF ExecInv, HandleInv, Handles, call_store_result
<1>3. Len(result_func[c]) \in Nat /\ Len(result_func[c]) >= 1 /\ result_func[c][1] = Noop
  BY LenProperties DEF ExecInv, TableInv, StoreInv
<1>4. CASE bound[c][f] = Unbound
  <2>1. h = 0 /\ h \in 0 .. Len(result_func[c]) - 1
    BY <1>1, <1>3, <1>4
  <2>2. Invoke(c, h, s) = s
    BY <1>3, <2>1 DEF Invoke, Noop
  <2> QED BY <1>2, <1>4, <2>2
<1>5. CASE bound[c][f] # Unbound
  <2>1. PICK v : v = Target(c, f)
    OBVIOUS
  <2>2. /\ h > 0 /\ h < Len(result_func[c]) /\ v \in 1 .. Len(global_var[c])
        /\ result_func[c][h + 1] = StoreFunctor(f, v)
    BY <1>1, <1>5, <2>1, TargetType
  <2>3. h \in 0 .. Len(result_func[c]) - 1
    BY <1>2, <1>3, <2>2
  <2>4. Invoke(c, h, s) = [s EXCEPT !.table[v].value = s.result[f]]
    BY <2>2, <2>3 DEF Invoke, StoreFunctor
  <2>5. s.table \in Seq(Globals) /\ Len(s.table) = Len(global_var[c])
    BY DEF Frames, Same, Tables
  <2>6. s.table[v] \in Globals
    BY <2>2, <2>5, ElementOfSeq
  <2>7. PICK t \in Seq(Globals) : t = s.table
    BY <2>5
  <2> DEFINE e == [t[v] EXCEPT !.value = s.result[f]]
  <2>8. e.value = s.result[f] /\ e \in Globals
    BY <2>6, <2>7 DEF Globals, Frames
  <2>9. Invoke(c, h, s) = [s EXCEPT !.table = [t EXCEPT ![v] = e]]
    BY <2>4, <2>7
  <2> HIDE DEF e
  <2>10. \A i \in 1 .. Len(t) : [t EXCEPT ![v] = e][i] = IF i = v THEN e ELSE t[i]
    BY <2>2, <2>5, <2>7, <2>8, ExceptSeq
  <2> DEFINE u == [t EXCEPT ![v] = e]
  <2>11. \A i \in 1 .. Len(t) : u[i] = IF i = v THEN e ELSE t[i]
    BY <2>10
  <2> HIDE DEF u
  <2>12. /\ Invoke(c, h, s).table = u /\ Invoke(c, h, s).result = s.result
         /\ Invoke(c, h, s).wild = s.wild
    BY <2>9 DEF Frames, u
  <2> QED BY <1>2, <1>5, <2>1, <2>5, <2>7, <2>8, <2>11, <2>12
<1> QED BY <1>4, <1>5

\* One function: it changes its own result and the variable that it stores in.
LEMMA CallStores ==
  ASSUME ExecInv, StoreInv, LoadHandles, NEW c \in Consoles, NEW f \in Fns,
         NEW s \in Frames(global_var[c]),
         save_result_handle[c][f] = 0 \/ bound[c][f] # Unbound
  PROVE  /\ \A g \in Fns \ {f} : CallFunction(c, f, s).result[g] = s.result[g]
         /\ (\A p \in Params : load_param_handle[c][f][p] # -1) =>
              CallFunction(c, f, s).wild = s.wild
         /\ \A i \in 1 .. Len(global_var[c]) :
              CallFunction(c, f, s).table[i].value =
                IF bound[c][f] # Unbound /\ i = Target(c, f) THEN CallFunction(c, f, s).result[f]
                ELSE s.table[i].value
<1> DEFINE t == call_load_param(c, f, s)
           u == [t EXCEPT !.result[f] = Call(f, t.param[f]), !.called[f] = t.param[f]]
<1>1. t \in Frames(global_var[c])
  BY LoadParamType
<1>2. /\ t.table = s.table /\ t.result = s.result
      /\ (\A p \in Params : load_param_handle[c][f][p] # -1) => t.wild = s.wild
  BY LoadParamKeeps
<1>3. CallFunction(c, f, s) = call_store_result(c, f, u)
  BY DEF CallFunction
<1> HIDE DEF t
<1>4. t.param[f] \in [Params -> Words]
  BY <1>1 DEF Frames
<1>5. u \in Frames(global_var[c]) /\ u.table = s.table /\ u.wild = t.wild
      /\ \A g \in Fns \ {f} : u.result[g] = s.result[g]
  <2> DEFINE v == Call(f, t.param[f])
             w == t.param[f]
             r == [t.result EXCEPT ![f] = v]
             k == [t.called EXCEPT ![f] = w]
  <2>1. v \in Words /\ w \in [Params -> Words]
    BY <1>4, ExternalAssumption
  <2>2. t.result \in [Fns -> Words] /\ t.called \in [Fns -> {NoCall} \cup [Params -> Words]]
    BY <1>1 DEF Frames
  <2>3. u = [t EXCEPT !.result = r, !.called = k]
    OBVIOUS
  <2> HIDE DEF v, w
  <2>4. /\ r \in [Fns -> Words] /\ k \in [Fns -> {NoCall} \cup [Params -> Words]]
        /\ \A g \in Fns \ {f} : r[g] = t.result[g]
    BY <2>1, <2>2
  <2> HIDE DEF r, k, u
  <2> QED BY <1>1, <1>2, <2>3, <2>4 DEF Frames
<1> HIDE DEF u
<1>6. /\ call_store_result(c, f, u).result = u.result
      /\ call_store_result(c, f, u).wild = u.wild
      /\ \A i \in 1 .. Len(global_var[c]) :
           call_store_result(c, f, u).table[i].value =
             IF bound[c][f] # Unbound /\ i = Target(c, f) THEN u.result[f] ELSE u.table[i].value
  BY <1>5, StoreResult
<1> QED BY <1>2, <1>3, <1>5, <1>6

\* A function that stores, in a variable that none of the functions after it
\* up to i stores in.
StoresLast(c, f, i) ==
  /\ bound[c][f] # Unbound
  /\ \A g \in Fns : g > f /\ g <= i /\ bound[c][g] # Unbound =>
       Stored[bound[c][g]] # Stored[bound[c][f]]

\* The variables after a frame.
LEMMA FrameStores ==
  ASSUME ExecInv, StoreInv, LoadHandles, NEW c \in Consoles, NEW garbage \in Garbles(c),
         \A f \in Fns : save_result_handle[c][f] = 0 \/ bound[c][f] # Unbound
  PROVE  \A f \in Fns : StoresLast(c, f, NumFns) =>
           AfterFrame(c, garbage).table[Target(c, f)].value = AfterFrame(c, garbage).result[f]
<1>1. NumFns \in Nat
  BY ExecuteAssumption
<1>2. PICK after : /\ after[0] \in Frames(global_var[c])
                   /\ \A f \in 1 .. NumFns : after[f] = CallFunction(c, f, after[f - 1])
                   /\ AfterFrame(c, garbage) = after[NumFns]
  BY AfterFrameLoop
<1> DEFINE Done(i) == \A f \in 1 .. i : StoresLast(c, f, i) =>
                        after[i].table[Target(c, f)].value = after[i].result[f]
           T == {i \in 0 .. NumFns : after[i] \in Frames(global_var[c]) /\ Done(i)}
<1>3. 0 \in T
  BY <1>1, <1>2
<1>4. ASSUME NEW i \in 1 .. NumFns, i - 1 \in T PROVE i \in T
  <2>1. PICK s \in Frames(global_var[c]) : s = after[i - 1]
    BY <1>4
  <2>2. PICK r : r = after[i]
    OBVIOUS
  <2>3. i \in Fns /\ r = CallFunction(c, i, s)
    BY <1>2, <2>1, <2>2 DEF Fns
  <2>4. r \in Frames(global_var[c])
    BY <2>3, CallFunctionType
  <2>5. /\ \A g \in Fns \ {i} : r.result[g] = s.result[g]
        /\ \A j \in 1 .. Len(global_var[c]) :
             r.table[j].value = IF bound[c][i] # Unbound /\ j = Target(c, i) THEN r.result[i]
                                ELSE s.table[j].value
    BY <2>3, CallStores
  <2>6. ASSUME NEW f \in 1 .. i, StoresLast(c, f, i)
        PROVE  r.table[Target(c, f)].value = r.result[f]
    <3>1. f \in Fns /\ bound[c][f] # Unbound
      BY <1>1, <2>6 DEF Fns, StoresLast
    <3>2. Target(c, f) \in 1 .. Len(global_var[c])
          /\ global_var[c][Target(c, f)].name = Stored[bound[c][f]]
      BY <3>1, TargetType
    <3>3. CASE f = i
      BY <2>5, <3>1, <3>2, <3>3
    <3>4. CASE f # i
      <4>1. f \in 1 .. i - 1 /\ i > f
        BY <1>1, <3>4
      <4>2. StoresLast(c, f, i - 1)
        BY <1>1, <2>6 DEF StoresLast, Fns
      <4>3. s.table[Target(c, f)].value = s.result[f]
        BY <1>4, <2>1, <4>1, <4>2
      <4>4. bound[c][i] # Unbound => Target(c, i) # Target(c, f)
        <5> SUFFICES ASSUME bound[c][i] # Unbound PROVE Target(c, i) # Target(c, f)
          OBVIOUS
        <5>1. global_var[c][Target(c, i)].name = Stored[bound[c][i]]
          BY <2>3, TargetType
        <5>2. Stored[bound[c][i]] # Stored[bound[c][f]]
          BY <2>3, <2>6, <4>1 DEF StoresLast
        <5> QED BY <3>2, <5>1, <5>2
      <4>5. r.table[Target(c, f)].value = s.table[Target(c, f)].value
        BY <2>5, <3>2, <4>4
      <4> QED BY <2>5, <3>1, <3>4, <4>3, <4>5
    <3> QED BY <3>3, <3>4
  <2>7. Done(i)
    BY <2>2, <2>6
  <2> QED BY <2>2, <2>4, <2>7
<1> HIDE DEF T
<1>5. \A i \in 0 .. NumFns : i \in T
  BY <1>1, <1>3, <1>4, UpTo
<1>6. Done(NumFns)
  BY <1>1, <1>5 DEF T
<1> QED BY <1>2, <1>6 DEF Fns

\* A frame that is due ends by being simulated or paused.
LEMMA FrameEnds ==
  ASSUME ExecInv, [Next]_vars, NEW c \in Consoles, phase[c] = "frame", phase'[c] # "frame"
  PROVE  Simulate(c) \/ Pause(c)
<1>1. ASSUME NEW cmd \in Typed, NEW simulated \in BOOLEAN, Type(cmd, simulated) PROVE FALSE
  BY <1>1 DEF Type
<1>2. ASSUME NEW d \in Consoles, NEW cmd \in Typed, execute_any(d, cmd) PROVE FALSE
  <2>1. PICK next \in {"frame", "crashed"} : DueThen(d, cmd, next)
    <3>1. DueThen(d, cmd, "frame") \/ DueThen(d, cmd, "crashed")
      BY <1>2, Zenon DEF execute_any, ExecuteParameter, ExecuteVariable, ExecuteResult,
                         ExecuteMutation, ExecuteBenchmark, ExecuteObject, ExecuteOther, Due
    <3> QED BY <3>1, Zenon
  <2>2. phase[d] = "command" /\ phase' = [phase EXCEPT ![d] = next]
    BY <2>1 DEF DueThen
  <2> QED BY <2>2 DEF ExecInv, ScriptInv
<1>3. ASSUME NEW d \in Consoles, Simulate(d) PROVE Simulate(c)
  <2>1. PICK next : phase' = [phase EXCEPT ![d] = next]
    BY <1>3 DEF Simulate
  <2>2. d = c
    BY <2>1 DEF ExecInv, ScriptInv
  <2> QED BY <1>3, <2>2
<1>4. ASSUME NEW d \in Consoles, Pause(d) PROVE Pause(c)
  <2>1. phase' = [phase EXCEPT ![d] = "command"]
    BY <1>4 DEF Pause
  <2>2. d = c
    BY <2>1 DEF ExecInv, ScriptInv
  <2> QED BY <1>4, <2>2
<1>5. ASSUME NEW d \in Consoles, Reload(d) PROVE FALSE
  BY <1>5 DEF Reload
<1>6. CASE UNCHANGED vars
  BY <1>6 DEF vars
<1> QED BY <1>1, <1>2, <1>3, <1>4, <1>5, <1>6 DEF Next

\* After a simulated frame a variable that results go to holds the result of
\* the last function that stores there, whatever was rebound before it.
LEMMA SimulateStores ==
  ASSUME ExecInv, StoreInv, LoadHandles, NEW c \in Consoles, Simulate(c),
         \A f \in Fns : save_result_handle[c][f] = 0 \/ bound[c][f] # Unbound,
         NEW f \in Fns, bound[c][f] # Unbound,
         \A g \in Fns : g > f /\ bound[c][g] # Unbound =>
           Stored[bound[c][g]] # Stored[bound[c][f]]
  PROVE  \E i \in 1 .. Len(global_var'[c]) :
           /\ global_var'[c][i].name = Stored[bound[c][f]]
           /\ global_var'[c][i].value = result'[c][f]
<1>1. PICK garbage \in Garbles(c) :
        /\ global_var' = [global_var EXCEPT ![c] = AfterFrame(c, garbage).table]
        /\ result' = [result EXCEPT ![c] = AfterFrame(c, garbage).result]
  BY GarbageWords DEF Simulate
<1>2. PICK s : s = AfterFrame(c, garbage)
  OBVIOUS
<1>3. s \in Frames(global_var[c])
  BY <1>2, AfterFrameType
<1>4. global_var'[c] = s.table /\ result'[c] = s.result
  BY <1>1, <1>2 DEF ExecInv, TableInv, WordInv
<1>5. /\ Target(c, f) \in 1 .. Len(global_var[c])
      /\ global_var[c][Target(c, f)].name = Stored[bound[c][f]]
  BY TargetType
<1>6. /\ Len(s.table) = Len(global_var[c])
      /\ \A i \in 1 .. Len(global_var[c]) : s.table[i].name = global_var[c][i].name
  BY <1>3 DEF Frames, Same
<1>7. StoresLast(c, f, NumFns)
  BY DEF StoresLast
<1>8. s.table[Target(c, f)].value = s.result[f]
  BY <1>2, <1>7, FrameStores
<1> QED BY <1>4, <1>5, <1>6, <1>8

\* At the end of every simulated frame of every run the variables hold the
\* results that the result commands of the run say.
THEOREM StoredResultsHolds == Spec => StoredResults
<1> DEFINE Holds ==
     \A c \in Consoles :
       /\ phase[c] = "frame" /\ phase'[c] = "command" /\ calls'[c] # calls[c]
       /\ \A f \in Fns : save_result_handle[c][f] = 0 \/ bound[c][f] # Unbound
       => \A f \in Fns :
            /\ bound[c][f] # Unbound
            /\ \A g \in Fns : g > f /\ bound[c][g] # Unbound =>
                 Stored[bound[c][g]] # Stored[bound[c][f]]
            => \E i \in 1 .. Len(global_var'[c]) :
                 /\ global_var'[c][i].name = Stored[bound[c][f]]
                 /\ global_var'[c][i].value = result'[c][f]
<1>1. ExecInv /\ StoreInv /\ LoadHandles /\ [Next]_vars => Holds
  <2>1. \A c \in Consoles : Pause(c) => calls' = calls
    BY DEF Pause, libVars
  <2> QED BY <2>1, FrameEnds, SimulateStores
<1> HIDE DEF Holds
<1>2. ExecInv /\ StoreInv /\ LoadHandles /\ [Next]_vars => [Holds]_vars
  BY <1>1
<1>3. Spec => [][Holds]_vars
  BY <1>2, ExecInvHolds, StoreInvHolds, LoadHandlesHolds, PTL DEF Spec
<1> QED BY <1>3 DEF StoredResults, Holds

\* A frame in which every handle leads to a functor is not wild.
LEMMA FrameTame ==
  ASSUME ExecInv, StoreInv, LoadHandles, NEW c \in Consoles, NEW garbage \in Garbles(c),
         \A f \in Fns : save_result_handle[c][f] = 0 \/ bound[c][f] # Unbound,
         \A f \in Fns, p \in Params : load_param_handle[c][f][p] # -1
  PROVE  ~AfterFrame(c, garbage).wild
<1> DEFINE S == {x \in Frames(global_var[c]) : ~x.wild}
<1>1. NumFns \in Nat
  BY ExecuteAssumption
<1>2. PICK after : /\ after[0] \in Frames(global_var[c]) /\ ~after[0].wild
                   /\ \A f \in 1 .. NumFns : after[f] = CallFunction(c, f, after[f - 1])
                   /\ AfterFrame(c, garbage) = after[NumFns]
  BY AfterFrameLoop
<1>3. \A f \in 1 .. NumFns : after[f - 1] \in S => after[f] \in S
  BY <1>2, CallFunctionType, CallStores DEF Fns
<1>4. after[0] \in S
  BY <1>2
<1> HIDE DEF S
<1>5. after[NumFns] \in S
  BY <1>1, <1>3, <1>4, LoopStays
<1> QED BY <1>2, <1>5 DEF S

\* Only a store handle of an earlier run and a full table of functors make a
\* frame call through a functor that is not installed.
THEOREM CrashCausesHolds == Spec => CrashCauses
<1> DEFINE Cause(c) ==
             \/ \E f \in Fns : save_result_handle[c][f] # 0 /\ bound[c][f] = Unbound
             \/ \E f \in Fns, p \in Params : load_param_handle[c][f][p] = -1
           Holds ==
             \A c \in Consoles : phase[c] = "frame" /\ phase'[c] = "crashed" => Cause(c)
<1>1. ASSUME ExecInv, StoreInv, LoadHandles, [Next]_vars, NEW c \in Consoles,
             phase[c] = "frame", phase'[c] = "crashed"
      PROVE  Cause(c)
  <2>1. CASE Pause(c)
    <3>1. phase'[c] = "command"
      BY <1>1, <2>1 DEF Pause, ExecInv, ScriptInv
    <3> QED BY <1>1, <3>1
  <2>2. CASE Simulate(c)
    <3>1. PICK garbage \in Garbles(c) :
            phase' = [phase EXCEPT ![c] =
                        IF AfterFrame(c, garbage).wild THEN "crashed" ELSE "command"]
      BY <2>2, GarbageWords DEF Simulate
    <3>2. AfterFrame(c, garbage).wild
      BY <1>1, <3>1 DEF ExecInv, ScriptInv
    <3> QED BY <1>1, <3>2, FrameTame
  <2> QED BY <1>1, <2>1, <2>2, FrameEnds
<1>2. ExecInv /\ StoreInv /\ LoadHandles /\ [Next]_vars => Holds
  BY <1>1
<1> HIDE DEF Holds
<1>3. ExecInv /\ StoreInv /\ LoadHandles /\ [Next]_vars => [Holds]_vars
  BY <1>2
<1>4. Spec => [][Holds]_vars
  BY <1>3, ExecInvHolds, StoreInvHolds, LoadHandlesHolds, PTL DEF Spec
<1> QED BY <1>4 DEF CrashCauses, Holds
=============================================================================
