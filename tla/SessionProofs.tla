--------------------------- MODULE SessionProofs ----------------------------
(***************************************************************************)
(* Proofs about module Session, for any players, any lengths of commands   *)
(* and any size of the two buffers, and a host that sends well-formed      *)
(* messages: the receive buffer is never used beyond its end, no record    *)
(* that was not allocated is read, and command_frame refuses exactly the   *)
(* turns that do not fit.                                                  *)
(***************************************************************************)
EXTENDS Session, TLAPS, FiniteSetTheorems, SequenceTheorems, NaturalsInduction,
        WellFoundedInduction

-----------------------------------------------------------------------------
(***************************************************************************)
(* Induction over numbers, for sets instead of predicates: a set that      *)
(* holds 0 and with every number the next one holds them all.  Recursive   *)
(* functions are loops: a loop exists, and stays where its rounds stay.    *)
(***************************************************************************)

\* A set of numbers that is not empty has a least element.
LEMMA LeastExists ==
  ASSUME NEW T, T \subseteq Nat, T # {}
  PROVE  \E m \in T : \A j \in T : m <= j
<1>1. PICK m \in T : \A j \in T : ~(<<j, m>> \in OpToRel(<, Nat))
  BY WFMin, NatLessThanWellFounded
<1>2. \A j \in T : m <= j
  <2> SUFFICES ASSUME NEW j \in T PROVE m <= j
    OBVIOUS
  <2>1. m \in Nat /\ j \in Nat
    OBVIOUS
  <2>2. (j < m) => <<j, m>> \in OpToRel(<, Nat)
    BY <2>1, Zenon DEF OpToRel
  <2>3. ~(j < m)
    BY <1>1, <2>2, Zenon
  <2> QED BY <2>1, <2>3
<1> QED BY <1>2

\* Induction up to n.
LEMMA UpTo ==
  ASSUME NEW n \in Nat, NEW T, 0 \in T, \A i \in 1 .. n : i - 1 \in T => i \in T
  PROVE  \A i \in 0 .. n : i \in T
<1> SUFFICES ASSUME NEW i \in 0 .. n, i \notin T PROVE FALSE
  OBVIOUS
<1> DEFINE Bad == {j \in 0 .. n : j \notin T}
<1>1. Bad \subseteq Nat /\ Bad # {}
  OBVIOUS
<1>2. PICK m \in Bad : \A j \in Bad : m <= j
  <2> HIDE DEF Bad
  <2> QED BY <1>1, LeastExists
<1>3. m \in 0 .. n /\ m # 0
  OBVIOUS
<1>4. m \in 1 .. n /\ m - 1 \in 0 .. n /\ ~(m <= m - 1)
  BY <1>3
<1>5. m - 1 \in T
  BY <1>2, <1>4
<1> QED BY <1>4, <1>5

\* Loops of n rounds over the states S, from x on: round i is Step[i].
Rounds(n, S) == [1 .. n -> [S -> S]]
Loops(n, S, x, Step) ==
  {f \in [0 .. n -> S] : f[0] = x /\ \A i \in 1 .. n : f[i] = Step[i][f[i - 1]]}

\* There is such a loop.
LEMMA LoopExists ==
  ASSUME NEW n \in Nat, NEW S, NEW x \in S, NEW Step \in Rounds(n, S)
  PROVE  Loops(n, S, x, Step) # {}
<1> USE DEF Rounds
<1> DEFINE Done(m) == \E f \in [0 .. m -> S] :
                        f[0] = x /\ \A i \in 1 .. m : f[i] = Step[i][f[i - 1]]
           T == {m \in 0 .. n : Done(m)}
<1>1. 0 \in T
  <2> DEFINE f == [i \in 0 .. 0 |-> x]
  <2>1. f \in [0 .. 0 -> S] /\ f[0] = x
    OBVIOUS
  <2>2. Done(0)
    <3> HIDE DEF f
    <3> QED BY <2>1
  <2> HIDE DEF Done
  <2> QED BY <2>2
<1>2. ASSUME NEW m \in 1 .. n, m - 1 \in T PROVE m \in T
  <2>1. PICK f \in [0 .. m - 1 -> S] :
          f[0] = x /\ \A i \in 1 .. m - 1 : f[i] = Step[i][f[i - 1]]
    BY <1>2
  <2> DEFINE g == [i \in 0 .. m |-> IF i = m THEN Step[m][f[m - 1]] ELSE f[i]]
  <2>2. Step[m][f[m - 1]] \in S
    OBVIOUS
  <2>3. g \in [0 .. m -> S]
    BY <2>2
  <2>4. g[0] = x
    BY <2>1
  <2>5. \A i \in 1 .. m : g[i] = Step[i][g[i - 1]]
    <3> SUFFICES ASSUME NEW i \in 1 .. m PROVE g[i] = Step[i][g[i - 1]]
      OBVIOUS
    <3>1. i - 1 \in 0 .. m /\ i - 1 # m /\ g[i - 1] = f[i - 1]
      OBVIOUS
    <3>2. CASE i = m
      BY <3>1, <3>2
    <3>3. CASE i # m
      <4>1. i \in 1 .. m - 1 /\ g[i] = f[i]
        BY <3>3
      <4> HIDE DEF g
      <4> QED BY <2>1, <3>1, <4>1
    <3> QED BY <3>2, <3>3
  <2> HIDE DEF g
  <2>6. Done(m)
    BY <2>3, <2>4, <2>5
  <2> HIDE DEF Done
  <2> QED BY <2>6
<1>3. \A m \in 0 .. n : m \in T
  <2> HIDE DEF T
  <2> QED BY <1>1, <1>2, UpTo
<1>4. Done(n)
  BY <1>3
<1> QED BY <1>4 DEF Loops

\* A loop whose rounds stay in S stays in S.
LEMMA LoopStays ==
  ASSUME NEW n \in Nat, NEW S, NEW f, f[0] \in S,
         \A i \in 1 .. n : f[i - 1] \in S => f[i] \in S
  PROVE  f[n] \in S
<1> DEFINE T == {i \in 0 .. n : f[i] \in S}
<1>1. 0 \in T /\ \A i \in 1 .. n : i - 1 \in T => i \in T
  OBVIOUS
<1> HIDE DEF T
<1>2. \A i \in 0 .. n : i \in T
  BY <1>1, UpTo
<1> QED BY <1>2 DEF T

-----------------------------------------------------------------------------
(***************************************************************************)
(* Sums.                                                                   *)
(***************************************************************************)

\* The sums of the first 0, 1, ... of some numbers.
Sums(a, n) ==
  {s \in [0 .. n -> Nat] : s[0] = 0 /\ \A i \in 1 .. n : s[i] = s[i - 1] + a[i]}

\* Sum is the last of them.
LEMMA SumSteps ==
  ASSUME NEW n \in Nat, NEW a, \A i \in 1 .. n : a[i] \in Nat
  PROVE  \E s \in Sums(a, n) : Sum(a, n) = s[n]
<1> DEFINE Run(f) == [i \in 0 .. n |-> IF i = 0 THEN 0 ELSE f[i - 1] + a[i]]
           sum == CHOOSE f : f = Run(f)
<1>1. Sum(a, n) = sum[n]
  BY DEF Sum
<1>2. \E f : f = Run(f)
  <2> DEFINE Step == [i \in 1 .. n |-> [x \in Nat |-> x + a[i]]]
  <2>1. Step \in Rounds(n, Nat)
    BY DEF Rounds
  <2>2. \A i \in 1 .. n : \A x \in Nat : Step[i][x] = x + a[i]
    OBVIOUS
  <2> HIDE DEF Step
  <2>3. PICK f \in [0 .. n -> Nat] : f[0] = 0 /\ \A i \in 1 .. n : f[i] = Step[i][f[i - 1]]
    <3>1. Loops(n, Nat, 0, Step) # {}
      BY <2>1, LoopExists
    <3> QED BY <3>1 DEF Loops
  <2>4. \A i \in 1 .. n : f[i] = f[i - 1] + a[i]
    <3>1. \A i \in 1 .. n : i - 1 \in 0 .. n
      OBVIOUS
    <3> QED BY <2>2, <2>3, <3>1
  <2>5. f = Run(f)
    BY <2>3, <2>4
  <2> QED BY <2>5
<1>3. sum = Run(sum)
  BY <1>2, Zenon
<1> HIDE DEF sum
<1>4. sum[0] = 0 /\ \A i \in 1 .. n : sum[i] = sum[i - 1] + a[i]
  BY <1>3
<1>5. sum = [i \in 0 .. n |-> sum[i]]
  BY <1>3
<1> HIDE DEF Run
<1>6. \A i \in 0 .. n : sum[i] \in Nat
  <2> DEFINE T == {i \in 0 .. n : sum[i] \in Nat}
  <2>1. 0 \in T /\ \A i \in 1 .. n : i - 1 \in T => i \in T
    BY <1>4
  <2> HIDE DEF T
  <2>2. \A i \in 0 .. n : i \in T
    BY <2>1, UpTo
  <2> QED BY <2>2 DEF T
<1>7. sum \in [0 .. n -> Nat]
  BY <1>5, <1>6
<1> QED BY <1>1, <1>4, <1>7 DEF Sums

\* There is one way to add the numbers up.
LEMMA SameSums ==
  ASSUME NEW n \in Nat, NEW a, NEW s \in Sums(a, n), NEW t \in Sums(a, n)
  PROVE  s = t
<1> DEFINE T == {i \in 0 .. n : s[i] = t[i]}
<1>1. 0 \in T /\ \A i \in 1 .. n : i - 1 \in T => i \in T
  BY DEF Sums
<1> HIDE DEF T
<1>2. \A i \in 0 .. n : i \in T
  BY <1>1, UpTo
<1>3. \A i \in 0 .. n : s[i] = t[i]
  BY <1>2 DEF T
<1> QED BY <1>3 DEF Sums

\* Sums of numbers that agree as far as they are added up.
LEMMA SumAgrees ==
  ASSUME NEW n \in Nat, NEW a, NEW b, \A i \in 1 .. n : a[i] \in Nat /\ b[i] = a[i]
  PROVE  Sum(a, n) = Sum(b, n)
<1>1. PICK s \in Sums(a, n) : Sum(a, n) = s[n]
  BY SumSteps
<1>2. PICK t \in Sums(b, n) : Sum(b, n) = t[n]
  BY SumSteps
<1>3. t \in Sums(a, n)
  BY <1>2 DEF Sums
<1>4. s = t
  BY <1>3, SameSums
<1> QED BY <1>1, <1>2, <1>4

\* A sum is a number; no numbers make 0, one more is added.
LEMMA SumStep ==
  ASSUME NEW n \in Nat, NEW a, \A i \in 1 .. n : a[i] \in Nat
  PROVE  /\ Sum(a, n) \in Nat
         /\ n = 0 => Sum(a, n) = 0
         /\ n > 0 => Sum(a, n) = Sum(a, n - 1) + a[n]
<1>1. PICK s \in Sums(a, n) : Sum(a, n) = s[n]
  BY SumSteps
<1>2. ASSUME n > 0 PROVE Sum(a, n - 1) = s[n - 1]
  <2> DEFINE m == n - 1
             r == [i \in 0 .. m |-> s[i]]
  <2>1. m \in Nat /\ \A i \in 1 .. m : a[i] \in Nat
    BY <1>2
  <2>2. PICK t \in Sums(a, m) : Sum(a, m) = t[m]
    <3> HIDE DEF m
    <3> QED BY <2>1, SumSteps
  <2>3. r \in Sums(a, m)
    BY <1>2 DEF Sums
  <2>4. r[m] = s[m]
    BY <2>1
  <2> HIDE DEF m, r
  <2>5. r = t
    BY <2>1, <2>3, SameSums
  <2> QED BY <2>2, <2>4, <2>5 DEF m
<1> QED BY <1>1, <1>2 DEF Sums

\* Sums of numbers grow.
LEMMA SumGrows ==
  ASSUME NEW n \in Nat, NEW m \in 0 .. n, NEW a, \A i \in 1 .. n : a[i] \in Nat
  PROVE  Sum(a, m) \in Nat /\ Sum(a, m) <= Sum(a, n)
<1> DEFINE T == {k \in 0 .. n : m <= k => Sum(a, m) <= Sum(a, k)}
<1>1. \A k \in 0 .. n : /\ Sum(a, k) \in Nat
                        /\ k > 0 => Sum(a, k) = Sum(a, k - 1) + a[k]
  <2> SUFFICES ASSUME NEW k \in 0 .. n
               PROVE  /\ Sum(a, k) \in Nat
                      /\ k > 0 => Sum(a, k) = Sum(a, k - 1) + a[k]
    OBVIOUS
  <2>1. k \in Nat /\ \A i \in 1 .. k : a[i] \in Nat
    OBVIOUS
  <2> QED BY <2>1, SumStep
<1>2. 0 \in T
  BY <1>1
<1>3. \A k \in 1 .. n : k - 1 \in T => k \in T
  BY <1>1
<1> HIDE DEF T
<1>4. \A k \in 0 .. n : k \in T
  BY <1>2, <1>3, UpTo
<1> QED BY <1>1, <1>4 DEF T

-----------------------------------------------------------------------------
(***************************************************************************)
(* The bytes of the messages.                                              *)
(***************************************************************************)

Messages == [player : Players, len : Lengths]
Sizes(s) == [i \in 1 .. Len(s) |-> Size(s[i])]

\* A message has at least its header and its NUL.
LEMMA SizeType ==
  ASSUME NEW m \in Messages
  PROVE  Size(m) \in Nat \ {0}
<1>1. m.len \in Nat /\ Header \in Nat
  BY SessionAssumption DEF Messages
<1> QED BY <1>1 DEF Size

\* Bytes adds up the sizes of the messages.
LEMMA BytesOfSizes ==
  ASSUME NEW n
  PROVE  Bytes(n) = Sum(Sizes(stream), n) /\ Bytes(n)' = Sum(Sizes(stream'), n)
BY DEF Bytes, Sizes

\* The bytes of the first messages, message by message.
LEMMA MessageBytes ==
  ASSUME NEW s \in Seq(Messages), NEW n \in 0 .. Len(s)
  PROVE  /\ Sum(Sizes(s), n) \in Nat
         /\ n = 0 => Sum(Sizes(s), n) = 0
         /\ n > 0 => /\ s[n] \in Messages /\ Size(s[n]) \in Nat \ {0}
                     /\ Sum(Sizes(s), n) = Sum(Sizes(s), n - 1) + Size(s[n])
<1>1. Len(s) \in Nat /\ n \in Nat
  BY LenProperties
<1>2. \A i \in 1 .. Len(s) : s[i] \in Messages
  BY ElementOfSeq
<1>3. \A i \in 1 .. Len(s) : Size(s[i]) \in Nat \ {0} /\ Sizes(s)[i] = Size(s[i])
  BY <1>2, SizeType DEF Sizes
<1>4. \A i \in 1 .. n : Sizes(s)[i] \in Nat
  BY <1>1, <1>3
<1>5. /\ Sum(Sizes(s), n) \in Nat
      /\ n = 0 => Sum(Sizes(s), n) = 0
      /\ n > 0 => Sum(Sizes(s), n) = Sum(Sizes(s), n - 1) + Sizes(s)[n]
  BY <1>1, <1>4, SumStep
<1> QED BY <1>1, <1>2, <1>3, <1>5

\* A later message does not change them.
LEMMA MessageSent ==
  ASSUME NEW s \in Seq(Messages), NEW m \in Messages, NEW n \in 0 .. Len(s)
  PROVE  Sum(Sizes(Append(s, m)), n) = Sum(Sizes(s), n)
<1> DEFINE t == Append(s, m)
<1>1. /\ t \in Seq(Messages) /\ Len(t) = Len(s) + 1 /\ Len(s) \in Nat
      /\ \A i \in 1 .. Len(s) : t[i] = s[i]
  BY AppendProperties, LenProperties
<1> HIDE DEF t
<1>2. \A i \in 1 .. n : i \in 1 .. Len(s) /\ i \in 1 .. Len(t)
  BY <1>1
<1>3. \A i \in 1 .. n : Sizes(t)[i] = Sizes(s)[i]
  BY <1>1, <1>2 DEF Sizes
<1>4. \A i \in 1 .. n : Sizes(s)[i] \in Nat
  <2>1. \A i \in 1 .. n : s[i] \in Messages
    BY <1>2, ElementOfSeq
  <2>2. \A i \in 1 .. n : Size(s[i]) \in Nat
    BY <2>1, SizeType
  <2> QED BY <1>2, <2>2 DEF Sizes
<1>5. n \in Nat
  BY <1>1
<1> QED BY <1>3, <1>4, <1>5, SumAgrees DEF t

-----------------------------------------------------------------------------
(***************************************************************************)
(* The inductive invariant.  The bytes in the receive buffer are bytes of  *)
(* messages that the host sent, so a whole message in the buffer is one of *)
(* them; and every message that was processed is of a player whose record  *)
(* is allocated.                                                           *)
(***************************************************************************)

ControlInv ==
  /\ pc \in {"configure", "connect", "ready", "failed", "io", "process", "send",
             "turn", "term", "left", "crashed", "killed"}
  /\ sfd \in {"none", "bad", "open"}
  /\ connecting \in BOOLEAN /\ disconnected \in BOOLEAN
  /\ net \in {"closed", "opening", "open", "fin", "refused", "reset"}
  /\ sk_err \in {"none", "ECONNRESET", "ECONNREFUSED", "EPIPE"}
  /\ sent \in Nat

StreamInv ==
  /\ stream \in Seq(Messages)
  /\ arrived \in Nat /\ arrived <= Bytes(Len(stream))
  /\ taken \in Nat /\ taken <= arrived
  /\ done \in Nat /\ done <= Len(stream)
  /\ Bytes(done) <= taken /\ taken - Bytes(done) <= ClientMax

PlayersInv ==
  /\ known \subseteq {p \in Players : p < MaxPlayer}
  /\ player_count \in 0 .. MaxPlayer
  /\ turn \in 0 .. MaxTurns
  /\ \A i \in 1 .. done : stream[i].player \in known

SessionInv == ControlInv /\ StreamInv /\ PlayersInv

\* It says that every variable has its type.
LEMMA SessionInvType ==
  ASSUME SessionInv
  PROVE  TypeOK
<1>1. Len(stream) \in Nat /\ done \in 0 .. Len(stream) /\ stream \in Seq(Messages)
  BY LenProperties DEF SessionInv, StreamInv
<1>2. Bytes(done) \in Nat
  BY <1>1, MessageBytes, BytesOfSizes
<1>3. used >= 0 /\ used <= ClientMax /\ taken \in 0 .. arrived
  BY <1>2, SessionAssumption DEF SessionInv, StreamInv, used
<1> QED BY <1>1, <1>3 DEF SessionInv, ControlInv, StreamInv, PlayersInv, TypeOK, Messages

-----------------------------------------------------------------------------
(***************************************************************************)
(* The steps.                                                              *)
(***************************************************************************)

\* Where the main thread and the connection are.
LEMMA ControlStep ==
  ASSUME ControlInv, [Next]_vars
  PROVE  ControlInv'
<1> USE DEF ControlInv, epVars, netVars, runVars
<1>1. CASE NetworkConfigure
  BY <1>1 DEF NetworkConfigure
<1>2. CASE NetworkConnect
  BY <1>2 DEF NetworkConnect
<1>3. CASE NetworkReady
  BY <1>3 DEF NetworkReady
<1>4. CASE NetworkFails
  BY <1>4 DEF NetworkFails
<1>5. CASE ConnectionIoFails
  <2>1. disconnected' \in BOOLEAN
    <3>1. CASE UNCHANGED disconnected
      BY <3>1
    <3>2. CASE \E room \in BOOLEAN : disconnected' = ("POLLERR" \in Revents(room))
      <4>1. PICK room \in BOOLEAN : disconnected' = ("POLLERR" \in Revents(room))
        BY <3>2
      <4> QED BY <4>1
    <3> QED BY <1>5, <3>1, <3>2 DEF ConnectionIoFails
  <2> QED BY <1>5, <2>1 DEF ConnectionIoFails
<1>6. CASE ConnectionIo
  <2>1. disconnected' \in BOOLEAN
    BY <1>6 DEF ConnectionIo
  <2> QED BY <1>6, <2>1 DEF ConnectionIo
<1>7. CASE ForeignPlayer \/ NewPlayer \/ ConnectionProcessing \/ ConnectionProcessed
  BY <1>7 DEF ForeignPlayer, NewPlayer, ConnectionProcessing, ConnectionProcessed
<1>8. CASE ConnectionSend \/ ConnectionOk
  BY <1>8 DEF ConnectionSend, ConnectionOk
<1>9. CASE Stall \/ TakeTurn \/ FrameFails \/ ConnectionTerm \/ Quit
  BY <1>9 DEF Stall, TakeTurn, FrameFails, ConnectionTerm, Quit
<1>10. CASE NetOpens \/ BytesArrive \/ HostCloses \/ HostResets
  BY <1>10 DEF NetOpens, BytesArrive, HostCloses, HostResets
<1>11. ASSUME NEW msg, HostSends(msg)
       PROVE  ControlInv'
  BY <1>11 DEF HostSends
<1>12. CASE UNCHANGED vars
  BY <1>12 DEF vars
<1> QED BY <1>1, <1>2, <1>3, <1>4, <1>5, <1>6, <1>7, <1>8, <1>9, <1>10, <1>11, <1>12
        DEF Next, Console, Network

\* What the receive buffer and the records depend on.
bufferVars == <<stream, arrived, taken, done, known, player_count, turn>>

\* A step that leaves them alone.
LEMMA QuietStep ==
  ASSUME SessionInv, UNCHANGED bufferVars
  PROVE  StreamInv' /\ PlayersInv'
<1>1. /\ stream' = stream /\ arrived' = arrived /\ taken' = taken /\ done' = done
      /\ known' = known /\ player_count' = player_count /\ turn' = turn
  BY DEF bufferVars
<1>2. Bytes(Len(stream))' = Bytes(Len(stream)) /\ Bytes(done)' = Bytes(done)
  BY <1>1 DEF Bytes
<1>3. StreamInv'
  BY <1>1, <1>2 DEF SessionInv, StreamInv
<1>4. PlayersInv'
  BY <1>1 DEF SessionInv, PlayersInv
<1> QED BY <1>3, <1>4

\* A whole message in the receive buffer is one that the host sent.
LEMMA WholeIsSent ==
  ASSUME SessionInv, WholeMessage
  PROVE  /\ done + 1 \in 1 .. Len(stream)
         /\ stream[done + 1] \in Messages
         /\ Bytes(done + 1) = Bytes(done) + Size(stream[done + 1])
         /\ Bytes(done) \in Nat /\ Size(stream[done + 1]) \in Nat
         /\ Bytes(done + 1) <= taken
<1>1. /\ stream \in Seq(Messages) /\ Len(stream) \in Nat /\ done \in 0 .. Len(stream)
      /\ taken \in Nat /\ taken <= arrived /\ arrived \in Nat /\ arrived <= Bytes(Len(stream))
      /\ Bytes(done) <= taken
  BY LenProperties DEF SessionInv, StreamInv
<1>2. Bytes(done) \in Nat
  BY <1>1, MessageBytes, BytesOfSizes
<1>3. done # Len(stream)
  <2> SUFFICES ASSUME done = Len(stream) PROVE FALSE
    OBVIOUS
  <2>1. taken - Bytes(done) <= 0
    BY <1>1, <1>2
  <2>2. taken - Bytes(done) >= Header
    BY DEF WholeMessage, used
  <2> QED BY <1>1, <1>2, <2>1, <2>2, SessionAssumption
<1>4. done + 1 \in 1 .. Len(stream) /\ done + 1 \in 0 .. Len(stream) /\ done + 1 > 0 /\ (done + 1) - 1 = done
  BY <1>1, <1>3
<1>5. /\ stream[done + 1] \in Messages /\ Size(stream[done + 1]) \in Nat
      /\ Bytes(done + 1) = Bytes((done + 1) - 1) + Size(stream[done + 1])
  BY <1>1, <1>4, MessageBytes, BytesOfSizes
<1>6. taken - Bytes(done) >= Size(stream[done + 1])
  BY DEF WholeMessage, used
<1>7. Bytes(done + 1) = Bytes(done) + Size(stream[done + 1])
  BY <1>4, <1>5
<1>8. Bytes(done + 1) <= taken
  BY <1>1, <1>2, <1>5, <1>6, <1>7
<1> QED BY <1>2, <1>4, <1>5, <1>7, <1>8

\* network_read: at most as many bytes as there is room for.
LEMMA ReadStep ==
  ASSUME SessionInv, ConnectionIo
  PROVE  StreamInv' /\ PlayersInv'
<1>1. /\ stream' = stream /\ arrived' = arrived /\ done' = done
      /\ known' = known /\ player_count' = player_count /\ turn' = turn
      /\ taken' = taken + ReadBytes \/ taken' = taken
  BY DEF ConnectionIo, netVars, runVars
<1>2. /\ stream \in Seq(Messages) /\ Len(stream) \in Nat /\ done \in 0 .. Len(stream)
      /\ taken \in Nat /\ taken <= arrived /\ arrived \in Nat
      /\ Bytes(done) <= taken /\ taken - Bytes(done) <= ClientMax /\ ClientMax \in Nat
  BY LenProperties, SessionAssumption DEF SessionInv, StreamInv
<1>3. Bytes(done) \in Nat
  BY <1>2, MessageBytes, BytesOfSizes
<1>4. /\ ReadBytes \in Nat /\ taken + ReadBytes <= arrived
      /\ taken + ReadBytes - Bytes(done) <= ClientMax
  BY <1>2, <1>3 DEF ReadBytes, Least, used
<1>5. Bytes(Len(stream))' = Bytes(Len(stream)) /\ Bytes(done)' = Bytes(done)
  BY <1>1 DEF Bytes
<1>6. /\ taken' \in Nat /\ taken' <= arrived /\ Bytes(done) <= taken'
      /\ taken' - Bytes(done) <= ClientMax
  BY <1>1, <1>2, <1>3, <1>4
<1>7. StreamInv'
  BY <1>1, <1>5, <1>6 DEF SessionInv, StreamInv
<1>8. PlayersInv'
  BY <1>1 DEF SessionInv, PlayersInv
<1> QED BY <1>7, <1>8

\* A command is recorded and its message is behind the buffer's start.
LEMMA ProcessingStep ==
  ASSUME SessionInv, ConnectionProcessing
  PROVE  StreamInv' /\ PlayersInv'
<1>1. /\ stream' = stream /\ arrived' = arrived /\ taken' = taken /\ done' = done + 1
      /\ known' = known /\ player_count' = player_count /\ turn' = turn
      /\ stream[done + 1].player \in known /\ WholeMessage
  BY DEF ConnectionProcessing, netVars, runVars, next_player
<1>2. /\ done + 1 \in 1 .. Len(stream) /\ Bytes(done + 1) <= taken
      /\ Bytes(done + 1) = Bytes(done) + Size(stream[done + 1])
      /\ Bytes(done) \in Nat /\ Size(stream[done + 1]) \in Nat
  BY <1>1, WholeIsSent
<1>3. Bytes(Len(stream))' = Bytes(Len(stream)) /\ Bytes(done)' = Bytes(done + 1)
  BY <1>1 DEF Bytes
<1>4. done \in Nat /\ taken \in Nat /\ taken - Bytes(done) <= ClientMax /\ ClientMax \in Nat
  BY SessionAssumption DEF SessionInv, StreamInv
<1>5. taken - Bytes(done + 1) <= ClientMax /\ done + 1 \in Nat /\ done + 1 <= Len(stream)
  BY <1>2, <1>4
<1>6. StreamInv'
  BY <1>1, <1>2, <1>3, <1>5 DEF SessionInv, StreamInv
<1>7. \A i \in 1 .. done + 1 : stream[i].player \in known
  <2> SUFFICES ASSUME NEW i \in 1 .. done + 1 PROVE stream[i].player \in known
    OBVIOUS
  <2>1. i \in 1 .. done \/ i = done + 1
    BY <1>4
  <2> QED BY <1>1, <2>1 DEF SessionInv, PlayersInv
<1>8. PlayersInv'
  BY <1>1, <1>7 DEF SessionInv, PlayersInv
<1> QED BY <1>6, <1>8

\* A record is allocated, inside the array; there are not more players than it
\* has entries.
LEMMA NewPlayerStep ==
  ASSUME SessionInv, NewPlayer
  PROVE  StreamInv' /\ PlayersInv'
<1> DEFINE Slots == 0 .. MaxPlayer - 1
<1>1. /\ stream' = stream /\ arrived' = arrived /\ taken' = taken /\ done' = done
      /\ known' = known \cup {stream[done + 1].player} /\ turn' = 0
      /\ player_count' = Cardinality(known')
      /\ stream[done + 1].player < MaxPlayer /\ WholeMessage
  BY DEF NewPlayer, netVars, next_player
<1>2. stream[done + 1].player \in Players
  BY <1>1, WholeIsSent DEF Messages
<1>3. known' \subseteq {p \in Players : p < MaxPlayer}
  BY <1>1, <1>2 DEF SessionInv, PlayersInv
<1>4. known' \in SUBSET Slots
  BY <1>3, SessionAssumption
<1>5. IsFiniteSet(Slots) /\ Cardinality(Slots) = MaxPlayer
  BY SessionAssumption, FS_Interval
<1>6. IsFiniteSet(known') /\ Cardinality(known') <= MaxPlayer
  <2> HIDE DEF Slots
  <2> QED BY <1>4, <1>5, FS_Subset
<1>7. player_count' \in 0 .. MaxPlayer
  BY <1>1, <1>6, FS_CardinalityType, SessionAssumption
<1>8. turn' \in 0 .. MaxTurns
  BY <1>1, SessionAssumption
<1>9. Bytes(Len(stream))' = Bytes(Len(stream)) /\ Bytes(done)' = Bytes(done)
  BY <1>1 DEF Bytes
<1>10. StreamInv'
  BY <1>1, <1>9 DEF SessionInv, StreamInv
<1>11. PlayersInv'
  BY <1>1, <1>3, <1>7, <1>8 DEF SessionInv, PlayersInv
<1> QED BY <1>10, <1>11

\* A turn is counted.
LEMMA TurnStep ==
  ASSUME SessionInv, TakeTurn
  PROVE  StreamInv' /\ PlayersInv'
<1>1. /\ stream' = stream /\ arrived' = arrived /\ taken' = taken /\ done' = done
      /\ known' = known /\ player_count' = player_count /\ turn' = Least(turn + 1, MaxTurns)
  BY DEF TakeTurn, netVars
<1>2. turn' \in 0 .. MaxTurns
  BY <1>1, SessionAssumption DEF SessionInv, PlayersInv, Least
<1>3. Bytes(Len(stream))' = Bytes(Len(stream)) /\ Bytes(done)' = Bytes(done)
  BY <1>1 DEF Bytes
<1>4. StreamInv'
  BY <1>1, <1>3 DEF SessionInv, StreamInv
<1>5. PlayersInv'
  BY <1>1, <1>2 DEF SessionInv, PlayersInv
<1> QED BY <1>4, <1>5

\* The host sends one more message.
LEMMA SendsStep ==
  ASSUME SessionInv, NEW msg \in Messages, HostSends(msg)
  PROVE  StreamInv' /\ PlayersInv'
<1>1. /\ stream' = Append(stream, msg) /\ arrived' = arrived /\ taken' = taken /\ done' = done
      /\ known' = known /\ player_count' = player_count /\ turn' = turn
  BY DEF HostSends, runVars
<1>2. /\ stream \in Seq(Messages) /\ Len(stream) \in Nat /\ done \in 0 .. Len(stream)
      /\ arrived \in Nat /\ arrived <= Bytes(Len(stream))
  BY LenProperties DEF SessionInv, StreamInv
<1>3. /\ stream' \in Seq(Messages) /\ Len(stream') = Len(stream) + 1
      /\ \A i \in 1 .. Len(stream) : stream'[i] = stream[i]
  BY <1>1, <1>2, AppendProperties
<1>5. /\ Sum(Sizes(stream'), Len(stream) + 1) =
           Sum(Sizes(stream'), Len(stream)) + Size(stream'[Len(stream) + 1])
      /\ Size(stream'[Len(stream) + 1]) \in Nat
  <2>1. Len(stream) + 1 \in 0 .. Len(stream') /\ Len(stream) + 1 > 0 /\ (Len(stream) + 1) - 1 = Len(stream)
    BY <1>2, <1>3
  <2>2. /\ Size(stream'[Len(stream) + 1]) \in Nat
        /\ Sum(Sizes(stream'), Len(stream) + 1) =
             Sum(Sizes(stream'), (Len(stream) + 1) - 1) + Size(stream'[Len(stream) + 1])
    BY <1>3, <2>1, MessageBytes
  <2> QED BY <2>1, <2>2
<1>6. Bytes(Len(stream)) \in Nat /\ Len(stream) \in 0 .. Len(stream)
  BY <1>2, MessageBytes, BytesOfSizes
<1>7. Sum(Sizes(stream'), Len(stream)) = Bytes(Len(stream))
  BY <1>1, <1>2, <1>6, MessageSent, BytesOfSizes
<1>8. Bytes(Len(stream))' = Sum(Sizes(stream'), Len(stream) + 1)
  BY <1>3 DEF Bytes, Sizes
<1>9. arrived <= Bytes(Len(stream))'
  BY <1>2, <1>5, <1>6, <1>7, <1>8
<1>10. Bytes(done)' = Bytes(done)
  <2>1. Sum(Sizes(stream'), done) = Sum(Sizes(stream), done)
    BY <1>1, <1>2, MessageSent
  <2>2. Bytes(done)' = Sum(Sizes(stream'), done)
    BY <1>1 DEF Bytes, Sizes
  <2> QED BY <2>1, <2>2, BytesOfSizes
<1>11. done <= Len(stream')
  BY <1>2, <1>3
<1>12. StreamInv'
  BY <1>1, <1>3, <1>9, <1>10, <1>11 DEF SessionInv, StreamInv
<1>13. \A i \in 1 .. done : stream'[i].player \in known
  <2>1. \A i \in 1 .. done : i \in 1 .. Len(stream)
    BY <1>2
  <2> QED BY <1>3, <2>1 DEF SessionInv, PlayersInv
<1>14. PlayersInv'
  BY <1>1, <1>13 DEF SessionInv, PlayersInv
<1> QED BY <1>12, <1>14

\* Bytes of the messages arrive.
LEMMA ArriveStep ==
  ASSUME SessionInv, BytesArrive
  PROVE  StreamInv' /\ PlayersInv'
<1>1. /\ stream' = stream /\ taken' = taken /\ done' = done
      /\ known' = known /\ player_count' = player_count /\ turn' = turn
      /\ arrived' \in arrived + 1 .. Bytes(Len(stream))
  BY DEF BytesArrive, runVars
<1>2. stream \in Seq(Messages) /\ Len(stream) \in 0 .. Len(stream)
  BY LenProperties DEF SessionInv, StreamInv
<1>3. Bytes(Len(stream)) \in Nat
  BY <1>2, MessageBytes, BytesOfSizes
<1>4. taken \in Nat /\ taken <= arrived /\ arrived \in Nat
  BY DEF SessionInv, StreamInv
<1>5. arrived' \in Nat /\ arrived' <= Bytes(Len(stream)) /\ taken <= arrived'
  BY <1>1, <1>3, <1>4
<1>6. Bytes(Len(stream))' = Bytes(Len(stream)) /\ Bytes(done)' = Bytes(done)
  BY <1>1 DEF Bytes
<1>7. StreamInv'
  BY <1>1, <1>5, <1>6 DEF SessionInv, StreamInv
<1>8. PlayersInv'
  BY <1>1 DEF SessionInv, PlayersInv
<1> QED BY <1>7, <1>8

\* Every step.
LEMMA SessionInvStep ==
  ASSUME SessionInv, [Next]_vars
  PROVE  SessionInv'
<1>1. ControlInv'
  BY ControlStep DEF SessionInv
<1> SUFFICES StreamInv' /\ PlayersInv'
  BY <1>1 DEF SessionInv
<1>2. CASE \/ NetworkConfigure \/ NetworkConnect \/ NetworkReady \/ NetworkFails
           \/ ConnectionIoFails \/ ForeignPlayer \/ ConnectionProcessed
  <2>1. UNCHANGED bufferVars
    BY <1>2 DEF NetworkConfigure, NetworkConnect, NetworkReady, NetworkFails,
                ConnectionIoFails, ForeignPlayer, ConnectionProcessed,
                bufferVars, epVars, netVars, runVars
  <2> QED BY <2>1, QuietStep
<1>3. CASE ConnectionSend \/ ConnectionOk \/ Stall \/ FrameFails \/ ConnectionTerm \/ Quit
  <2>1. UNCHANGED bufferVars
    BY <1>3 DEF ConnectionSend, ConnectionOk, Stall, FrameFails, ConnectionTerm, Quit,
                bufferVars, epVars, netVars, runVars
  <2> QED BY <2>1, QuietStep
<1>4. CASE NetOpens \/ HostCloses \/ HostResets \/ UNCHANGED vars
  <2>1. UNCHANGED bufferVars
    BY <1>4 DEF NetOpens, HostCloses, HostResets, vars, bufferVars, epVars, netVars, runVars
  <2> QED BY <2>1, QuietStep
<1>5. CASE ConnectionIo
  BY <1>5, ReadStep
<1>6. CASE ConnectionProcessing
  BY <1>6, ProcessingStep
<1>7. CASE NewPlayer
  BY <1>7, NewPlayerStep
<1>8. CASE TakeTurn
  BY <1>8, TurnStep
<1>9. CASE BytesArrive
  BY <1>9, ArriveStep
<1>10. CASE \E p \in Players, n \in Lengths : HostSends([player |-> p, len |-> n])
  <2>1. PICK p \in Players, n \in Lengths : HostSends([player |-> p, len |-> n])
    BY <1>10
  <2>2. [player |-> p, len |-> n] \in Messages
    BY DEF Messages
  <2> QED BY <2>1, <2>2, SendsStep
<1> QED BY <1>2, <1>3, <1>4, <1>5, <1>6, <1>7, <1>8, <1>9, <1>10
        DEF Next, Console, Network

\* The initial state.
LEMMA SessionInvInit ==
  ASSUME Init
  PROVE  SessionInv
<1>1. stream \in Seq(Messages) /\ Len(stream) = 0 /\ done = 0 /\ taken = 0 /\ arrived = 0
  BY DEF Init
<1>2. Bytes(Len(stream)) = 0 /\ Bytes(done) = 0
  <2>1. 0 \in 0 .. Len(stream)
    BY <1>1
  <2> QED BY <1>1, <2>1, MessageBytes, BytesOfSizes
<1>3. StreamInv
  BY <1>1, <1>2, SessionAssumption DEF StreamInv
<1>4. ControlInv
  BY DEF Init, ControlInv
<1>5. PlayersInv
  BY <1>1, SessionAssumption DEF Init, PlayersInv
<1> QED BY <1>3, <1>4, <1>5 DEF SessionInv

-----------------------------------------------------------------------------
(***************************************************************************)
(* The turn.                                                               *)
(***************************************************************************)

\* A record holds messages, and none unless it was allocated.
LEMMA RecordType ==
  ASSUME SessionInv, NEW p
  PROVE  Record(p) \in Seq({m \in Messages : p \in known})
<1> DEFINE M == {m \in Messages : p \in known}
           Put(i, r) == IF stream[i].player = p THEN Append(r, stream[i]) ELSE r
           Run(f) == [i \in 0 .. done |-> IF i = 0 THEN <<>> ELSE Put(i, f[i - 1])]
           record == CHOOSE f : f = Run(f)
<1>1. done \in Nat /\ <<>> \in Seq(M)
  BY DEF SessionInv, StreamInv
<1>2. Record(p) = record[done]
  BY DEF Record
<1>3. \A i \in 1 .. done : stream[i].player = p => stream[i] \in M
  <2> SUFFICES ASSUME NEW i \in 1 .. done, stream[i].player = p PROVE stream[i] \in M
    OBVIOUS
  <2>1. stream \in Seq(Messages) /\ i \in 1 .. Len(stream)
    BY <1>1, LenProperties DEF SessionInv, StreamInv
  <2>2. stream[i] \in Messages
    BY <2>1, ElementOfSeq
  <2>3. p \in known
    BY DEF SessionInv, PlayersInv
  <2> QED BY <2>2, <2>3
<1> HIDE DEF M
<1>4. \A i \in 1 .. done : \A r \in Seq(M) : Put(i, r) \in Seq(M)
  <2> SUFFICES ASSUME NEW i \in 1 .. done, NEW r \in Seq(M) PROVE Put(i, r) \in Seq(M)
    OBVIOUS
  <2>1. CASE stream[i].player = p
    BY <1>3, <2>1, AppendProperties
  <2>2. CASE stream[i].player # p
    BY <2>2
  <2> QED BY <2>1, <2>2
<1> HIDE DEF Put
<1>5. \E f : f = Run(f)
  <2> DEFINE Step == [i \in 1 .. done |-> [r \in Seq(M) |-> Put(i, r)]]
  <2>1. Step \in Rounds(done, Seq(M))
    BY <1>4 DEF Rounds
  <2>2. \A i \in 1 .. done : \A r \in Seq(M) : Step[i][r] = Put(i, r)
    OBVIOUS
  <2> HIDE DEF Step
  <2>3. PICK f \in [0 .. done -> Seq(M)] :
          f[0] = <<>> /\ \A i \in 1 .. done : f[i] = Step[i][f[i - 1]]
    <3>1. Loops(done, Seq(M), <<>>, Step) # {}
      BY <1>1, <2>1, LoopExists
    <3> QED BY <3>1 DEF Loops
  <2>4. \A i \in 1 .. done : f[i] = Put(i, f[i - 1])
    <3>1. \A i \in 1 .. done : i - 1 \in 0 .. done
      BY <1>1
    <3> QED BY <2>2, <2>3, <3>1
  <2>5. f = Run(f)
    BY <1>1, <2>3, <2>4
  <2> QED BY <2>5
<1>6. record = Run(record)
  BY <1>5, Zenon
<1> HIDE DEF record
<1>7. record[0] = <<>> /\ \A i \in 1 .. done : record[i] = Put(i, record[i - 1])
  BY <1>1, <1>6
<1> HIDE DEF Run
<1>8. \A i \in 1 .. done : record[i - 1] \in Seq(M) => record[i] \in Seq(M)
  BY <1>4, <1>7
<1>9. record[done] \in Seq(M)
  <2>1. record[0] \in Seq(M)
    BY <1>1, <1>7
  <2> DEFINE S == Seq(M)
  <2>2. record[0] \in S /\ \A i \in 1 .. done : record[i - 1] \in S => record[i] \in S
    BY <1>8, <2>1
  <2>3. record[done] \in S
    <3> HIDE DEF S
    <3> QED BY <1>1, <2>2, LoopStays
  <2> QED BY <2>3
<1> QED BY <1>2, <1>9 DEF M

\* When nobody is waited for, every player of the turn has a command, and the
\* record it is in is allocated.
LEMMA EveryoneHasCommand ==
  ASSUME SessionInv, Waiting = {}, NEW p \in TurnPlayers
  PROVE  p \in known /\ cmd_len(p) \in Nat
<1> DEFINE M == {m \in Messages : p \in known}
<1>1. Record(p) \in Seq(M) /\ Len(Record(p)) \in Nat
  BY RecordType, LenProperties
<1>2. turn \in Nat
  BY SessionAssumption DEF SessionInv, PlayersInv
<1>3. turn + 1 \in 1 .. Len(Record(p))
  BY <1>1, <1>2 DEF Waiting
<1>4. Record(p)[turn + 1] \in M
  <2> HIDE DEF M
  <2> QED BY <1>1, <1>3, ElementOfSeq
<1>5. Record(p)[turn + 1].len \in Lengths
  BY <1>4 DEF Messages
<1> QED BY <1>4, <1>5, SessionAssumption DEF cmd_len

\* command_frame adds the commands up.
LEMMA FrameSum ==
  ASSUME SessionInv, Waiting = {}
  PROVE  command_frame <=>
           Sum([n \in 1 .. player_count |-> cmd_len(n - 1) + 1], player_count) <= FrameMax
<1> DEFINE N == player_count
           a == [n \in 1 .. N |-> cmd_len(n - 1) + 1]
<1>1. N \in Nat /\ FrameMax \in Nat
  BY SessionAssumption DEF SessionInv, PlayersInv
<1>2. \A p \in 0 .. N - 1 : cmd_len(p) \in Nat
  BY EveryoneHasCommand DEF TurnPlayers
<1>3. \A n \in 1 .. N : a[n] \in Nat /\ a[n] = cmd_len(n - 1) + 1
  BY <1>1, <1>2
<1>4. ASSUME NEW p \in 0 .. N - 1
      PROVE  /\ buffer_write(p) = Sum(a, p) /\ Sum(a, p) \in Nat
             /\ Sum(a, p + 1) = Sum(a, p) + cmd_len(p) + 1
             /\ Sum(a, p + 1) <= Sum(a, N) /\ Sum(a, p + 1) \in Nat
  <2> DEFINE b == [n \in 1 .. p |-> cmd_len(n - 1) + 1]
  <2>1. /\ p \in Nat /\ p \in 0 .. N /\ p + 1 \in Nat /\ p + 1 \in 0 .. N /\ p + 1 > 0
        /\ p + 1 \in 1 .. N /\ (p + 1) - 1 = p
    BY <1>1
  <2>2. \A n \in 1 .. p : n \in 1 .. N /\ b[n] = cmd_len(n - 1) + 1
    BY <1>1
  <2>3. \A n \in 1 .. p : a[n] \in Nat /\ b[n] = a[n]
    BY <1>3, <2>2
  <2>4. \A n \in 1 .. p + 1 : a[n] \in Nat
    BY <1>1, <1>3
  <2>5. buffer_write(p) = Sum(b, p)
    BY DEF buffer_write
  <2>6. a[p + 1] = cmd_len(p) + 1
    <3>1. a[p + 1] = cmd_len((p + 1) - 1) + 1
      BY <2>1
    <3> QED BY <2>1, <3>1
  <2> HIDE DEF a, b
  <2>7. Sum(a, p) = Sum(b, p)
    BY <2>1, <2>3, SumAgrees
  <2>8. Sum(a, p + 1) = Sum(a, (p + 1) - 1) + a[p + 1]
    BY <2>1, <2>4, SumStep
  <2>9. /\ Sum(a, p) \in Nat
        /\ Sum(a, p + 1) \in Nat /\ Sum(a, p + 1) <= Sum(a, N)
    BY <1>1, <1>3, <2>1, SumGrows
  <2>10. Sum(a, p + 1) = Sum(a, p) + (cmd_len(p) + 1)
    BY <2>1, <2>6, <2>8
  <2>11. cmd_len(p) \in Nat
    BY <1>2
  <2> QED BY <2>5, <2>7, <2>9, <2>10, <2>11
<1> HIDE DEF a
<1>5. Sum(a, N) \in Nat /\ (N = 0 => Sum(a, N) = 0)
  BY <1>1, <1>3, SumStep
<1>6. command_frame <=> \A p \in 0 .. N - 1 : Sum(a, p) + cmd_len(p) < FrameMax
  BY <1>4 DEF command_frame, TurnPlayers
<1>7. ASSUME NEW p \in 0 .. N - 1
      PROVE  Sum(a, p) + cmd_len(p) < FrameMax <=> Sum(a, p + 1) <= FrameMax
  <2>1. Sum(a, p) \in Nat /\ cmd_len(p) \in Nat /\ Sum(a, p + 1) = Sum(a, p) + cmd_len(p) + 1
    BY <1>2, <1>4
  <2> QED BY <1>1, <2>1
<1>8. ASSUME command_frame PROVE Sum(a, N) <= FrameMax
  <2>1. CASE N = 0
    BY <1>1, <1>5, <2>1
  <2>2. CASE N # 0
    <3>1. N - 1 \in 0 .. N - 1 /\ (N - 1) + 1 = N
      BY <1>1, <2>2
    <3>2. Sum(a, (N - 1) + 1) <= FrameMax
      BY <1>6, <1>7, <1>8, <3>1
    <3> QED BY <3>1, <3>2
  <2> QED BY <2>1, <2>2
<1>9. ASSUME Sum(a, N) <= FrameMax PROVE command_frame
  <2>1. \A p \in 0 .. N - 1 : Sum(a, p + 1) <= FrameMax
    BY <1>1, <1>4, <1>5, <1>9
  <2> QED BY <1>6, <1>7, <2>1
<1> QED BY <1>8, <1>9 DEF a

-----------------------------------------------------------------------------
(***************************************************************************)
(* Theorems.                                                               *)
(***************************************************************************)

\* The inductive invariant holds in every behaviour.
THEOREM SessionInvHolds == Spec => []SessionInv
<1>1. Init => SessionInv
  BY SessionInvInit
<1>2. SessionInv /\ [Next]_vars => SessionInv'
  BY SessionInvStep
<1> QED BY <1>1, <1>2, PTL DEF Spec

\* As long as the host sends well-formed messages (a player's number and the
\* true length of the command: Players, Lengths \subseteq Nat), every variable has
\* its type; in particular connection_io never reads beyond the end of the receive
\* buffer, connection_processing never takes more bytes out of it than it holds,
\* and no record beyond the array is allocated.  connection_processing does not
\* check the header, so nothing follows for a host that sends other lengths.
THEOREM TypeOKHolds == Spec => []TypeOK
<1>1. SessionInv => TypeOK
  BY SessionInvType
<1> QED BY <1>1, SessionInvHolds, PTL

\* A turn that command_preview lets go ahead reads allocated records only, in
\* whatever order the players were heard of.
THEOREM OnlyAllocatedHolds == Spec => []OnlyAllocated
<1>1. SessionInv => OnlyAllocated
  BY EveryoneHasCommand DEF OnlyAllocated
<1> QED BY <1>1, SessionInvHolds, PTL

\* command_frame refuses exactly the turns whose commands and NULs together
\* are longer than its buffer, for any number of players.
THEOREM FrameFitsHolds == Spec => []FrameFits
<1>1. SessionInv => FrameFits
  BY FrameSum DEF FrameFits
<1> QED BY <1>1, SessionInvHolds, PTL
=============================================================================
