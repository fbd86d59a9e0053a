--------------------------- MODULE LockstepProofs ---------------------------
(***************************************************************************)
(* Proofs about module Lockstep, for any number of consoles, any frame     *)
(* rates, any socket capacity and any choice of the bounds: no console is  *)
(* ahead of the input, nothing is lost or reordered while writes are       *)
(* whole, the consoles implement one log per player, and those that took   *)
(* the same turns agree.                                                   *)
(***************************************************************************)
EXTENDS Lockstep, TLAPS, FiniteSetTheorems, SequenceTheorems

\* A non-empty set of player numbers has a largest element, so the last
\* simulation command of a turn is well defined.
LEMMA MaxExists ==
  ASSUME NEW n \in Nat, NEW S, S \subseteq 0 .. n, S # {}
  PROVE  \E m \in S : \A j \in S : j <= m
<1> DEFINE T == {n - i : i \in S}
<1>1. T \subseteq Nat /\ T # {}
  <2>1. \A i \in S : i \in 0 .. n /\ n - i \in Nat
    OBVIOUS
  <2>2. PICK i \in S : TRUE
    OBVIOUS
  <2>3. n - i \in T
    OBVIOUS
  <2> QED BY <2>1, <2>3
<1>2. PICK x \in T : \A y \in T : ~(<<y, x>> \in OpToRel(<, Nat))
  <2> HIDE DEF T
  <2> QED BY <1>1, WFMin, NatLessThanWellFounded
<1>3. \A y \in T : x <= y
  <2> HIDE DEF T
  <2> SUFFICES ASSUME NEW y \in T PROVE x <= y
    OBVIOUS
  <2>1. x \in Nat /\ y \in Nat
    BY <1>1
  <2>2. (y < x) => <<y, x>> \in OpToRel(<, Nat)
    BY <2>1, Zenon DEF OpToRel
  <2>3. ~(y < x)
    BY <1>2, <2>2, Zenon
  <2> QED BY <2>1, <2>3
<1>4. PICK m \in S : x = n - m
  BY <1>2
<1>5. \A j \in S : j <= m
  BY <1>3, <1>4
<1> QED BY <1>5

\* The players of a run are players: player_count counts records of the array.
LEMMA CardinalityOfKnown ==
  ASSUME NEW S, S \subseteq Clients
  PROVE  Cardinality(S) \in 0 .. NumClients
<1>1. IsFiniteSet(Clients) /\ Cardinality(Clients) = NumClients
  BY FS_Interval, ConstantsAssumption DEF Clients
<1>2. IsFiniteSet(S) /\ Cardinality(S) <= NumClients
  BY <1>1, FS_Subset
<1> QED BY <1>2, FS_CardinalityType, ConstantsAssumption

\* The goal after a turn is a number.
LEMMA GoalAfterType ==
  ASSUME TypeOK, NEW c \in Clients
  PROVE  GoalAfter(c) \in Nat
<1> DEFINE setters == {i \in TurnPlayers(c) : NextCommand(c, i) \in Goals}
<1>1. CASE setters = {}
  BY <1>1 DEF GoalAfter, TypeOK, MainTypeOK
<1>2. CASE setters # {}
  <2>1. setters \subseteq 0 .. NumClients
    BY ConstantsAssumption DEF TypeOK, MainTypeOK, TurnPlayers
  <2>2. \E m \in setters : \A j \in setters : j <= m
    <3> HIDE DEF setters
    <3> QED BY <1>2, <2>1, MaxExists, ConstantsAssumption
  <2>3. NextCommand(c, CHOOSE i \in setters : \A j \in setters : j <= i) \in Goals
    BY <2>2
  <2> QED BY <1>2, <2>3, ConstantsAssumption DEF GoalAfter
<1> QED BY <1>1, <1>2

\* The turns that FillInput adds are finitely many empty commands.
LEMMA FillType ==
  ASSUME TypeOK, NEW c \in Clients
  PROVE  /\ Missing(c) \in Nat
         /\ [i \in 1 .. Missing(c) |-> Empty] \in Seq(Commands)
         /\ Len([i \in 1 .. Missing(c) |-> Empty]) = Missing(c)
<1>1. Missing(c) \in Nat
  <2>1. loop_write_frame(c) \in Nat
    BY DEF TypeOK, LoopTypeOK, loop_write_frame, Turn
  <2>2. Len(input[c]) \in Nat
    BY LenProperties DEF TypeOK, RecTypeOK
  <2> QED BY <2>1, <2>2 DEF Missing
<1>2. Empty \in Commands
  BY DEF Commands
<1> QED BY <1>1, <1>2

\* Every variable keeps its type and the input queue stays within
\* input_queue_max, through every step of main.c's loop and of the relay.
THEOREM TypeCorrect == Spec => []TypeOK
<1>1. Init => TypeOK
  BY ConstantsAssumption
  DEF Init, TypeOK, LoopTypeOK, MainTypeOK, RecTypeOK, NetTypeOK, Labels
<1>2. TypeOK /\ [Next]_vars => TypeOK'
  <2> SUFFICES ASSUME TypeOK, [Next]_vars PROVE TypeOK'
    OBVIOUS
  <2> USE ConstantsAssumption DEF loopVars, mainVars, recVars, netVars, Labels, Goto
  <2> USE DEF TypeOK
  <2>1. ASSUME NEW c \in Clients, GameRestart(c) PROVE TypeOK'
    <3>1. LoopTypeOK'
      BY <2>1 DEF GameRestart, EndRun, RewoundReads, GoalAtStart, LoopTypeOK
    <3>2. MainTypeOK'
      <4>1. Cardinality(known[c]) \in 0 .. NumClients
        BY CardinalityOfKnown DEF RecTypeOK
      <4> QED BY <2>1, <4>1
          DEF GameRestart, EndRun, RewoundReads, GoalAtStart, MainTypeOK
    <3>3. RecTypeOK'
      BY <2>1 DEF GameRestart, EndRun, RewoundReads, GoalAtStart, RecTypeOK
    <3>4. NetTypeOK'
      BY <2>1 DEF GameRestart, EndRun, RewoundReads, GoalAtStart, NetTypeOK
    <3> QED BY <3>1, <3>2, <3>3, <3>4
  <2>2. ASSUME NEW c \in Clients, GameExit(c) PROVE TypeOK'
    <3>1. LoopTypeOK'
      BY <2>2 DEF GameExit, EndRun, RewoundReads, LoopTypeOK
    <3>2. MainTypeOK'
      BY <2>2 DEF GameExit, EndRun, RewoundReads, MainTypeOK
    <3>3. RecTypeOK'
      BY <2>2 DEF GameExit, EndRun, RewoundReads, RecTypeOK
    <3>4. NetTypeOK'
      BY <2>2 DEF GameExit, EndRun, RewoundReads, NetTypeOK
    <3> QED BY <3>1, <3>2, <3>3, <3>4
  <2>3. ASSUME NEW c \in Clients, NEW cmd \in Commands, InputLine(c, cmd) PROVE TypeOK'
    <3>1. LoopTypeOK'
      BY <2>3 DEF InputLine, LoopTypeOK
    <3>2. MainTypeOK'
      BY <2>3 DEF InputLine, MainTypeOK
    <3>3. RecTypeOK'
      BY <2>3 DEF InputLine, RecTypeOK
    <3>4. NetTypeOK'
      BY <2>3 DEF InputLine, NetTypeOK
    <3> QED BY <3>1, <3>2, <3>3, <3>4
  <2>4. ASSUME NEW c \in Clients, Reload(c) PROVE TypeOK'
    <3>1. LoopTypeOK'
      BY <2>4 DEF Reload, loop_halt, LoopTypeOK
    <3>2. MainTypeOK'
      BY <2>4 DEF Reload, loop_halt, MainTypeOK
    <3>3. RecTypeOK'
      BY <2>4 DEF Reload, loop_halt, RecTypeOK
    <3>4. NetTypeOK'
      BY <2>4 DEF Reload, loop_halt, NetTypeOK
    <3> QED BY <3>1, <3>2, <3>3, <3>4
  <2>5. ASSUME NEW c \in Clients, Quit(c) PROVE TypeOK'
    <3>1. LoopTypeOK'
      BY <2>5 DEF Quit, loop_halt, LoopTypeOK
    <3>2. MainTypeOK'
      BY <2>5 DEF Quit, loop_halt, MainTypeOK
    <3>3. RecTypeOK'
      BY <2>5 DEF Quit, loop_halt, RecTypeOK
    <3>4. NetTypeOK'
      BY <2>5 DEF Quit, loop_halt, NetTypeOK
    <3> QED BY <3>1, <3>2, <3>3, <3>4
  <2>6. ASSUME NEW c \in Clients, ConnectionIo(c) PROVE TypeOK'
    <3>1. LoopTypeOK'
      BY <2>6 DEF ConnectionIo, FillInput, LoopTypeOK
    <3>2. MainTypeOK'
      BY <2>6 DEF ConnectionIo, FillInput, MainTypeOK
    <3>3. RecTypeOK'
      <4>1. input[c] \o [i \in 1 .. Missing(c) |-> Empty] \in Seq(Commands)
        BY FillType, ConcatProperties DEF RecTypeOK
      <4> QED BY <2>6, <4>1 DEF ConnectionIo, FillInput, RecTypeOK
    <3>4. NetTypeOK'
      BY <2>6 DEF ConnectionIo, FillInput, NetTypeOK
    <3> QED BY <3>1, <3>2, <3>3, <3>4
  <2>7. ASSUME NEW c \in Clients, ConnectionTerm(c) PROVE TypeOK'
    <3>1. LoopTypeOK'
      BY <2>7 DEF ConnectionTerm, FillInput, loop_halt, LoopTypeOK
    <3>2. MainTypeOK'
      BY <2>7 DEF ConnectionTerm, FillInput, loop_halt, MainTypeOK
    <3>3. RecTypeOK'
      <4>1. input[c] \o [i \in 1 .. Missing(c) |-> Empty] \in Seq(Commands)
        BY FillType, ConcatProperties DEF RecTypeOK
      <4> QED BY <2>7, <4>1 DEF ConnectionTerm, FillInput, RecTypeOK
    <3>4. NetTypeOK'
      BY <2>7 DEF ConnectionTerm, FillInput, loop_halt, NetTypeOK
    <3> QED BY <3>1, <3>2, <3>3, <3>4
  <2>8. ASSUME NEW c \in Clients, NEW p \in Clients, Receive(c, p) PROVE TypeOK'
    <3>1. LoopTypeOK'
      BY <2>8 DEF Receive, LoopTypeOK
    <3>2. MainTypeOK'
      BY <2>8 DEF Receive, MainTypeOK
    <3>3. RecTypeOK'
      <4>1. Head(inbox[c][p]) \in Commands
        BY <2>8, HeadTailProperties DEF Receive, NetTypeOK
      <4>2. Append(rec[c][p], Head(inbox[c][p])) \in Seq(Commands)
        BY <4>1, AppendProperties DEF RecTypeOK
      <4> QED BY <2>8, <4>2 DEF Receive, RecTypeOK
    <3>4. NetTypeOK'
      BY <2>8 DEF Receive, NetTypeOK
    <3> QED BY <3>1, <3>2, <3>3, <3>4
  <2>9. ASSUME NEW c \in Clients, NEW p \in Clients, NewPlayer(c, p) PROVE TypeOK'
    <3>1. LoopTypeOK'
      BY <2>9 DEF NewPlayer, MessageKept, loop_halt, LoopTypeOK
    <3>2. MainTypeOK'
      BY <2>9 DEF NewPlayer, MessageKept, loop_halt, MainTypeOK
    <3>3. RecTypeOK'
      BY <2>9 DEF NewPlayer, MessageKept, loop_halt, RecTypeOK
    <3>4. NetTypeOK'
      BY <2>9 DEF NewPlayer, MessageKept, loop_halt, NetTypeOK
    <3> QED BY <3>1, <3>2, <3>3, <3>4
  <2>10. ASSUME NEW c \in Clients, ReceiveEnd(c) PROVE TypeOK'
    <3>1. LoopTypeOK'
      BY <2>10 DEF ReceiveEnd, LoopTypeOK
    <3>2. MainTypeOK'
      BY <2>10 DEF ReceiveEnd, MainTypeOK
    <3>3. RecTypeOK'
      BY <2>10 DEF ReceiveEnd, RecTypeOK
    <3>4. NetTypeOK'
      BY <2>10 DEF ReceiveEnd, NetTypeOK
    <3> QED BY <3>1, <3>2, <3>3, <3>4
  <2>11. ASSUME NEW c \in Clients, Send(c) PROVE TypeOK'
    <3>1. LoopTypeOK'
      BY <2>11 DEF Send, LoopTypeOK
    <3>2. MainTypeOK'
      BY <2>11 DEF Send, MainTypeOK
    <3>3. RecTypeOK'
      BY <2>11 DEF Send, RecTypeOK
    <3>4. NetTypeOK'
      <4>1. input[c][input_read[c] + 1] \in Commands
        BY <2>11, ElementOfSeq, LenProperties DEF Send, RecTypeOK
      <4>2. Append(outbox[c], input[c][input_read[c] + 1]) \in Seq(Commands)
        BY <4>1, AppendProperties DEF NetTypeOK
      <4> QED BY <2>11, <4>2 DEF Send, NetTypeOK
    <3> QED BY <3>1, <3>2, <3>3, <3>4
  <2>12. ASSUME NEW c \in Clients, Stall(c) PROVE TypeOK'
    <3>1. LoopTypeOK'
      BY <2>12 DEF Stall, LoopHead, QueueAfterStall, LoopTypeOK
    <3>2. MainTypeOK'
      BY <2>12 DEF Stall, LoopHead, QueueAfterStall, MainTypeOK
    <3>3. RecTypeOK'
      BY <2>12 DEF Stall, LoopHead, QueueAfterStall, RecTypeOK
    <3>4. NetTypeOK'
      BY <2>12 DEF Stall, LoopHead, QueueAfterStall, NetTypeOK
    <3> QED BY <3>1, <3>2, <3>3, <3>4
  <2>13. ASSUME NEW c \in Clients, TakeTurn(c) PROVE TypeOK'
    <3>1. LoopTypeOK'
      BY <2>13 DEF TakeTurn, LoopHead, ReadsAfterTurn, LoopTypeOK
    <3>2. MainTypeOK'
      BY <2>13, GoalAfterType DEF TakeTurn, MainTypeOK
    <3>3. RecTypeOK'
      BY <2>13, SMTT(30) DEF TakeTurn, LoopHead, ReadsAfterTurn, RecTypeOK
    <3>4. NetTypeOK'
      BY <2>13 DEF TakeTurn, LoopHead, ReadsAfterTurn, NetTypeOK
    <3> QED BY <3>1, <3>2, <3>3, <3>4
  <2>14. ASSUME NEW p \in Clients, Relay(p) PROVE TypeOK'
    <3>1. LoopTypeOK'
      BY <2>14 DEF Relay, LoopTypeOK
    <3>2. MainTypeOK'
      BY <2>14 DEF Relay, MainTypeOK
    <3>3. RecTypeOK'
      BY <2>14 DEF Relay, RecTypeOK
    <3>4. NetTypeOK'
      BY <2>14 DEF Relay, NetTypeOK
    <3> QED BY <3>1, <3>2, <3>3, <3>4
  <2>15. CASE UNCHANGED vars
    BY <2>15 DEF vars, LoopTypeOK, MainTypeOK, RecTypeOK, NetTypeOK
  <2> QED BY <2>1, <2>2, <2>3, <2>4, <2>5, <2>6, <2>7, <2>8, <2>9, <2>10,
             <2>11, <2>12, <2>13, <2>14, <2>15 DEF Next, User, Console
<1> QED BY <1>1, <1>2, PTL DEF Spec

-----------------------------------------------------------------------------
(***************************************************************************)
(* Lockstep.  TurnCount is not inductive: a turn reads a command of each   *)
(* player only if there is one, so the readers must be known to stay       *)
(* behind the writers, and NeverAhead needs the length of what is between  *)
(* the sender and the record.                                              *)
(***************************************************************************)

\* A reader is never ahead of the record it reads.
ReadBehindWrite == \A c, p \in Clients : read[c][p] <= Len(rec[c][p])

\* What has been received and what is on its way was sent.
SentBound ==
  \A c, p \in Clients :
    Len(rec[c][p]) + Len(inbox[c][p]) + Len(outbox[p]) <= input_read[p]

LockstepInv == ReadBehindWrite /\ TurnCount /\ SentBound

\* A message moves from the socket (o) to the way back (i), from there to
\* the record (w), and is sent (s); r reads the record.
LEMMA Sums ==
  \A w, i, o, s \in Nat :
    w + i + o <= s =>
      /\ w <= s
      /\ (w + 1) + (i - 1) + o <= s
      /\ w + (i + 1) + (o - 1) <= s
      /\ w + i + o <= s + 1
      /\ w + i + (o + 1) <= s + 1
OBVIOUS

\* Comparisons are transitive.
LEMMA Transitive ==
  \A r, w, s \in Nat : r <= w => (r <= w + 1 /\ (w <= s => r <= s))
OBVIOUS

\* Lengths are numbers.
LEMMA Lengths ==
  ASSUME TypeOK
  PROVE  /\ \A c \in Clients : Len(input[c]) \in Nat /\ Len(outbox[c]) \in Nat
         /\ \A c, p \in Clients : Len(rec[c][p]) \in Nat /\ Len(inbox[c][p]) \in Nat
BY LenProperties DEF TypeOK, RecTypeOK, NetTypeOK

\* A rewound reader is at 0, behind every writer.
LEMMA RewindBehindWrite ==
  ASSUME TypeOK, ReadBehindWrite, NEW c \in Clients,
         read' = [read EXCEPT ![c] = [p \in Clients |-> 0]], rec' = rec
  PROVE  ReadBehindWrite'
<1> SUFFICES ASSUME NEW d \in Clients, NEW q \in Clients
             PROVE  read'[d][q] <= Len(rec[d][q])
  BY DEF ReadBehindWrite
<1>1. Len(rec[d][q]) \in Nat
  BY Lengths
<1>2. read'[d][q] = 0 \/ read'[d][q] = read[d][q]
  BY DEF TypeOK, RecTypeOK
<1> QED BY <1>1, <1>2 DEF ReadBehindWrite

\* Players of a run are consoles.
LEMMA TurnPlayersAreClients ==
  ASSUME TypeOK, NEW c \in Clients
  PROVE  TurnPlayers(c) \subseteq Clients
BY ConstantsAssumption DEF TypeOK, MainTypeOK, TurnPlayers, Clients

\* A reader of a turn with no missing command moves by one.
LEMMA ReadsMove ==
  ASSUME TypeOK, ReadBehindWrite, NEW c \in Clients, Waiting(c) = {}
  PROVE  /\ \A p \in TurnPlayers(c) : ReadsAfterTurn(c)[p] = read[c][p] + 1
         /\ \A p \in Clients : ReadsAfterTurn(c)[p] <= Len(rec[c][p])
<1>1. ASSUME NEW p \in Clients
      PROVE  /\ read[c][p] \in Nat /\ Len(rec[c][p]) \in Nat
             /\ read[c][p] <= Len(rec[c][p])
             /\ ReadsAfterTurn(c)[p] = IF p \in TurnPlayers(c) /\ HasCommand(c, p)
                                         THEN read[c][p] + 1 ELSE read[c][p]
  BY <1>1, Lengths DEF TypeOK, RecTypeOK, ReadBehindWrite, ReadsAfterTurn
<1>2. \A p \in TurnPlayers(c) : p \in Clients /\ Len(rec[c][p]) # read[c][p]
  BY TurnPlayersAreClients DEF Waiting
<1> QED BY <1>1, <1>2 DEF HasCommand

\* Every step preserves the invariant.
LEMMA LockstepInvStep ==
  TypeOK /\ LockstepInv /\ [Next]_vars => LockstepInv'
<1> SUFFICES ASSUME TypeOK, LockstepInv, [Next]_vars PROVE LockstepInv'
  OBVIOUS
<1> USE DEF LockstepInv, Goto
<1>1. ASSUME NEW c \in Clients, GameRestart(c) PROVE LockstepInv'
  <2>1. /\ read' = [read EXCEPT ![c] = [p \in Clients |-> 0]]
        /\ frame' = [frame EXCEPT ![c] = 0]
        /\ pause_frame' = [pause_frame EXCEPT ![c] = 0]
        /\ pc' = [pc EXCEPT ![c] = "poll"] /\ pc[c] = "stop"
        /\ player_count' = [player_count EXCEPT ![c] = Cardinality(known[c])]
        /\ UNCHANGED <<rec, input_read, inbox, outbox>>
    BY <1>1 DEF GameRestart, EndRun, RewoundReads, netVars
  <2>2. ReadBehindWrite'
    BY <2>1, RewindBehindWrite
  <2>3. TurnCount'
    <3> SUFFICES ASSUME NEW d \in Clients, pc'[d] # "done", NEW q \in TurnPlayers(d)'
                 PROVE  read'[d][q] = Turn(d)'
      BY DEF TurnCount
    <3>1. CASE d = c
      <4>1. player_count'[c] \in 0 .. NumClients
        BY <2>1, CardinalityOfKnown DEF TypeOK, MainTypeOK, RecTypeOK
      <4>2. q \in Clients
        BY <3>1, <4>1, ConstantsAssumption DEF TurnPlayers, Clients
      <4> QED BY <2>1, <3>1, <4>2 DEF Turn, TypeOK, LoopTypeOK, RecTypeOK
    <3>2. CASE d # c
      BY <2>1, <3>2 DEF TurnCount, Turn, TurnPlayers, TypeOK, LoopTypeOK, MainTypeOK, RecTypeOK
    <3> QED BY <3>1, <3>2
  <2>4. SentBound'
    BY <2>1 DEF SentBound
  <2> QED BY <2>2, <2>3, <2>4
<1>2. ASSUME NEW c \in Clients, GameExit(c) PROVE LockstepInv'
  <2>1. /\ read' = [read EXCEPT ![c] = [p \in Clients |-> 0]]
        /\ pc' = [pc EXCEPT ![c] = "done"]
        /\ UNCHANGED <<frame, pause_frame, player_count, rec, input_read, inbox, outbox>>
    BY <1>2 DEF GameExit, EndRun, RewoundReads, mainVars, netVars
  <2>2. ReadBehindWrite'
    BY <2>1, RewindBehindWrite
  <2>3. TurnCount'
    BY <2>1 DEF TurnCount, Turn, TurnPlayers, TypeOK, LoopTypeOK, RecTypeOK
  <2>4. SentBound'
    BY <2>1 DEF SentBound
  <2> QED BY <2>2, <2>3, <2>4
<1>3. ASSUME NEW c \in Clients, NEW cmd \in Commands, InputLine(c, cmd) PROVE LockstepInv'
  <2>1. /\ pc' = pc
        /\ UNCHANGED <<frame, pause_frame, player_count, rec, read, input_read, outbox, inbox>>
    BY <1>3 DEF InputLine, loopVars, mainVars, recVars, netVars, TypeOK, LoopTypeOK, NetTypeOK
  <2> QED BY <2>1 DEF ReadBehindWrite, TurnCount, SentBound, Turn, TurnPlayers
<1>4. ASSUME NEW c \in Clients, Reload(c) PROVE LockstepInv'
  <2>1. /\ pc' = pc
        /\ UNCHANGED <<frame, pause_frame, player_count, rec, read, input_read, outbox, inbox>>
    BY <1>4 DEF Reload, loopVars, mainVars, recVars, netVars, TypeOK, LoopTypeOK, NetTypeOK
  <2> QED BY <2>1 DEF ReadBehindWrite, TurnCount, SentBound, Turn, TurnPlayers
<1>5. ASSUME NEW c \in Clients, Quit(c) PROVE LockstepInv'
  <2>1. /\ pc' = pc
        /\ UNCHANGED <<frame, pause_frame, player_count, rec, read, input_read, outbox, inbox>>
    BY <1>5 DEF Quit, loopVars, mainVars, recVars, netVars, TypeOK, LoopTypeOK, NetTypeOK
  <2> QED BY <2>1 DEF ReadBehindWrite, TurnCount, SentBound, Turn, TurnPlayers
<1>6. ASSUME NEW c \in Clients, ConnectionIo(c) PROVE LockstepInv'
  <2>1. /\ \A d \in Clients : pc'[d] # "done" => pc[d] # "done"
        /\ UNCHANGED <<frame, pause_frame, player_count, rec, read, input_read, outbox, inbox>>
    BY <1>6 DEF ConnectionIo, FillInput, loopVars, mainVars, recVars, netVars, TypeOK, LoopTypeOK, NetTypeOK
  <2> QED BY <2>1 DEF ReadBehindWrite, TurnCount, SentBound, Turn, TurnPlayers
<1>7. ASSUME NEW c \in Clients, ConnectionTerm(c) PROVE LockstepInv'
  <2>1. /\ \A d \in Clients : pc'[d] # "done" => pc[d] # "done"
        /\ UNCHANGED <<frame, pause_frame, player_count, rec, read, input_read, outbox, inbox>>
    BY <1>7 DEF ConnectionTerm, Corrupt, FillInput, loopVars, mainVars, recVars, netVars, TypeOK, LoopTypeOK, NetTypeOK
  <2> QED BY <2>1 DEF ReadBehindWrite, TurnCount, SentBound, Turn, TurnPlayers
<1>8. ASSUME NEW c \in Clients, NEW p \in Clients, Receive(c, p) PROVE LockstepInv'
  <2>1. /\ pc[c] = "recv" /\ inbox[c][p] # <<>>
        /\ rec' = [rec EXCEPT ![c][p] = Append(@, Head(inbox[c][p]))]
        /\ inbox' = [inbox EXCEPT ![c][p] = Tail(@)]
        /\ UNCHANGED <<pc, frame, pause_frame, player_count, read, input_read, outbox>>
    BY <1>8 DEF Receive, loopVars, mainVars
  <2>2. /\ Len(Append(rec[c][p], Head(inbox[c][p]))) = Len(rec[c][p]) + 1
        /\ Len(Tail(inbox[c][p])) = Len(inbox[c][p]) - 1
    BY <2>1, HeadTailProperties, AppendProperties DEF TypeOK, RecTypeOK, NetTypeOK
  <2>3. \A d, q \in Clients :
          \/ Len(rec'[d][q]) = Len(rec[d][q]) /\ Len(inbox'[d][q]) = Len(inbox[d][q])
          \/ Len(rec'[d][q]) = Len(rec[d][q]) + 1 /\ Len(inbox'[d][q]) = Len(inbox[d][q]) - 1
    BY <2>1, <2>2 DEF TypeOK, RecTypeOK, NetTypeOK
  <2>4. ReadBehindWrite'
    <3> SUFFICES ASSUME NEW d \in Clients, NEW q \in Clients
                 PROVE  read[d][q] <= Len(rec'[d][q])
      BY <2>1 DEF ReadBehindWrite
    <3>1. read[d][q] \in Nat /\ Len(rec[d][q]) \in Nat
      BY Lengths DEF TypeOK, RecTypeOK
    <3>2. read[d][q] <= Len(rec[d][q])
      BY DEF ReadBehindWrite
    <3>3. read[d][q] <= Len(rec[d][q]) + 1
      BY <3>1, <3>2, Transitive, Zenon
    <3> QED BY <2>3, <3>2, <3>3, Zenon
  <2>5. TurnCount'
    BY <2>1 DEF TurnCount, Turn, TurnPlayers
  <2>6. SentBound'
    <3> SUFFICES ASSUME NEW d \in Clients, NEW q \in Clients
                 PROVE  Len(rec'[d][q]) + Len(inbox'[d][q]) + Len(outbox[q]) <= input_read[q]
      BY <2>1 DEF SentBound
    <3>1. /\ Len(rec[d][q]) \in Nat /\ Len(inbox[d][q]) \in Nat
          /\ Len(outbox[q]) \in Nat /\ input_read[q] \in Nat
      BY Lengths DEF TypeOK, RecTypeOK
    <3>2. Len(rec[d][q]) + Len(inbox[d][q]) + Len(outbox[q]) <= input_read[q]
      BY DEF SentBound
    <3>3. (Len(rec[d][q]) + 1) + (Len(inbox[d][q]) - 1) + Len(outbox[q]) <= input_read[q]
      BY <3>1, <3>2, Sums, Zenon
    <3> QED BY <2>3, <3>2, <3>3, Zenon
  <2> QED BY <2>4, <2>5, <2>6
<1>9. ASSUME NEW c \in Clients, NEW p \in Clients, NewPlayer(c, p) PROVE LockstepInv'
  <2>1. /\ \A d \in Clients : pc'[d] # "done" => pc[d] # "done"
        /\ UNCHANGED <<frame, pause_frame, player_count, rec, read, input_read, outbox, inbox>>
    BY <1>9 DEF NewPlayer, MessageKept, loopVars, mainVars, recVars, netVars, TypeOK, LoopTypeOK, NetTypeOK
  <2> QED BY <2>1 DEF ReadBehindWrite, TurnCount, SentBound, Turn, TurnPlayers
<1>10. ASSUME NEW c \in Clients, ReceiveEnd(c) PROVE LockstepInv'
  <2>1. /\ \A d \in Clients : pc'[d] # "done" => pc[d] # "done"
        /\ UNCHANGED <<frame, pause_frame, player_count, rec, read, input_read, outbox, inbox>>
    BY <1>10 DEF ReceiveEnd, loopVars, mainVars, recVars, netVars, TypeOK, LoopTypeOK, NetTypeOK
  <2> QED BY <2>1 DEF ReadBehindWrite, TurnCount, SentBound, Turn, TurnPlayers
<1>11. ASSUME NEW c \in Clients, Send(c) PROVE LockstepInv'
  <2>1. /\ input_read' = [input_read EXCEPT ![c] = @ + 1]
        /\ UNCHANGED <<pc, frame, pause_frame, player_count, rec, read, inbox>>
        /\ \/ outbox' = outbox
           \/ outbox' = [outbox EXCEPT ![c] = Append(@, input[c][input_read[c] + 1])]
    BY <1>11 DEF Send, loopVars, mainVars
  <2>2. \A p \in Clients : \/ p # c /\ Len(outbox'[p]) = Len(outbox[p])
                           \/ p = c /\ Len(outbox'[p]) \in {Len(outbox[p]), Len(outbox[p]) + 1}
    <3>1. input[c][input_read[c] + 1] \in Commands
      BY <1>11, ElementOfSeq, LenProperties DEF Send, TypeOK, RecTypeOK
    <3>2. Len(Append(outbox[c], input[c][input_read[c] + 1])) = Len(outbox[c]) + 1
      BY <3>1, AppendProperties DEF TypeOK, NetTypeOK
    <3>3. Len(outbox[c]) \in Nat
      BY Lengths
    <3> QED BY <2>1, <3>2, <3>3 DEF TypeOK, NetTypeOK
  <2>3. SentBound'
    <3> SUFFICES ASSUME NEW d \in Clients, NEW p \in Clients
                 PROVE  Len(rec[d][p]) + Len(inbox[d][p]) + Len(outbox'[p]) <= input_read'[p]
      BY <2>1 DEF SentBound
    <3>1. Len(rec[d][p]) + Len(inbox[d][p]) + Len(outbox[p]) <= input_read[p]
      BY DEF SentBound
    <3>2. input_read'[p] = IF p = c THEN input_read[p] + 1 ELSE input_read[p]
      BY <2>1 DEF TypeOK, RecTypeOK
    <3>3. /\ Len(rec[d][p]) \in Nat /\ Len(inbox[d][p]) \in Nat
          /\ Len(outbox[p]) \in Nat /\ input_read[p] \in Nat
      BY Lengths DEF TypeOK, RecTypeOK
    <3>4. Len(rec[d][p]) + Len(inbox[d][p]) + Len(outbox[p]) <= input_read[p] + 1
      BY <3>1, <3>3, Sums, Zenon
    <3>5. Len(rec[d][p]) + Len(inbox[d][p]) + (Len(outbox[p]) + 1) <= input_read[p] + 1
      BY <3>1, <3>3, Sums, Zenon
    <3> QED BY <2>2, <3>1, <3>2, <3>4, <3>5, Zenon
  <2> QED BY <2>1, <2>3 DEF ReadBehindWrite, TurnCount, Turn, TurnPlayers
<1>12. ASSUME NEW c \in Clients, Stall(c) PROVE LockstepInv'
  <2>1. /\ \A d \in Clients : pc'[d] # "done" => pc[d] # "done"
        /\ UNCHANGED <<frame, pause_frame, player_count, rec, read, input_read, outbox, inbox>>
    BY <1>12 DEF Stall, Synced, LoopHead, loopVars, mainVars, recVars, netVars, TypeOK, LoopTypeOK, NetTypeOK
  <2> QED BY <2>1 DEF ReadBehindWrite, TurnCount, SentBound, Turn, TurnPlayers
<1>13. ASSUME NEW c \in Clients, TakeTurn(c) PROVE LockstepInv'
  <2>1. /\ pc[c] = "send" /\ Waiting(c) = {}
        /\ read' = [read EXCEPT ![c] = ReadsAfterTurn(c)]
        /\ UNCHANGED <<player_count, rec, input_read, inbox, outbox>>
    BY <1>13 DEF TakeTurn, Synced, netVars
  <2>2. /\ Turn(c)' = Turn(c) + 1
        /\ \A d \in Clients \ {c} : Turn(d)' = Turn(d) /\ pc'[d] = pc[d]
    <3>1. /\ pc' = [pc EXCEPT ![c] = IF running[c] THEN "poll" ELSE "stop"]
          /\ \/ frame' = frame /\ pause_frame' = [pause_frame EXCEPT ![c] = @ + 1]
             \/ frame' = [frame EXCEPT ![c] = @ + 1] /\ pause_frame' = pause_frame
      BY <1>13 DEF TakeTurn, LoopHead
    <3> QED BY <3>1 DEF Turn, TypeOK, LoopTypeOK
  <2>3. \A d \in Clients : read'[d] = IF d = c THEN ReadsAfterTurn(c) ELSE read[d]
    BY <2>1 DEF TypeOK, RecTypeOK
  <2>4. ReadBehindWrite'
    BY <2>1, <2>3, ReadsMove DEF ReadBehindWrite
  <2>5. TurnCount'
    <3> SUFFICES ASSUME NEW d \in Clients, pc'[d] # "done", NEW q \in TurnPlayers(d)
                 PROVE  read'[d][q] = Turn(d)'
      BY <2>1 DEF TurnCount, TurnPlayers
    <3>1. CASE d = c
      BY <2>1, <2>2, <2>3, <3>1, ReadsMove DEF TurnCount
    <3>2. CASE d # c
      BY <2>2, <2>3, <3>2 DEF TurnCount
    <3> QED BY <3>1, <3>2
  <2>6. SentBound'
    BY <2>1 DEF SentBound
  <2> QED BY <2>4, <2>5, <2>6
<1>14. ASSUME NEW p \in Clients, Relay(p) PROVE LockstepInv'
  <2>1. /\ outbox[p] # <<>>
        /\ outbox' = [outbox EXCEPT ![p] = Tail(@)]
        /\ inbox' = [c \in Clients |-> [inbox[c] EXCEPT ![p] = Append(@, Head(outbox[p]))]]
        /\ UNCHANGED <<pc, frame, pause_frame, player_count, rec, read, input_read>>
    BY <1>14 DEF Relay, loopVars, mainVars, recVars
  <2>2. Head(outbox[p]) \in Commands /\ Len(Tail(outbox[p])) = Len(outbox[p]) - 1
    BY <2>1, HeadTailProperties DEF TypeOK, NetTypeOK
  <2>3. \A c \in Clients : Len(Append(inbox[c][p], Head(outbox[p]))) = Len(inbox[c][p]) + 1
    BY <2>2, AppendProperties DEF TypeOK, NetTypeOK
  <2>4. SentBound'
    <3> SUFFICES ASSUME NEW d \in Clients, NEW q \in Clients
                 PROVE  Len(rec[d][q]) + Len(inbox'[d][q]) + Len(outbox'[q]) <= input_read[q]
      BY <2>1 DEF SentBound
    <3>1. Len(rec[d][q]) + Len(inbox[d][q]) + Len(outbox[q]) <= input_read[q]
      BY DEF SentBound
    <3>2. CASE q = p
      <4>1. /\ Len(inbox'[d][q]) = Len(inbox[d][q]) + 1
            /\ Len(outbox'[q]) = Len(outbox[q]) - 1
        BY <2>1, <2>2, <2>3, <3>2 DEF TypeOK, NetTypeOK
      <4>2. /\ Len(rec[d][q]) \in Nat /\ Len(inbox[d][q]) \in Nat
            /\ Len(outbox[q]) \in Nat /\ input_read[q] \in Nat
        BY Lengths DEF TypeOK, RecTypeOK
      <4>3. Len(rec[d][q]) + (Len(inbox[d][q]) + 1) + (Len(outbox[q]) - 1) <= input_read[q]
        BY <3>1, <4>2, Sums, Zenon
      <4> QED BY <4>1, <4>3, Zenon
    <3>3. CASE q # p
      BY <2>1, <3>1, <3>3 DEF TypeOK, NetTypeOK
    <3> QED BY <3>2, <3>3
  <2> QED BY <2>1, <2>4 DEF ReadBehindWrite, TurnCount, Turn, TurnPlayers
<1>15. CASE UNCHANGED vars
  BY <1>15 DEF vars, loopVars, mainVars, recVars, netVars,
               ReadBehindWrite, TurnCount, SentBound, Turn, TurnPlayers
<1> QED BY <1>1, <1>2, <1>3, <1>4, <1>5, <1>6, <1>7, <1>8, <1>9, <1>10,
           <1>11, <1>12, <1>13, <1>14, <1>15 DEF Next, User, Console

\* In every reachable state every reader of a run has moved once per turn.
THEOREM TurnCountHolds == Spec => []TurnCount
<1>1. Init => LockstepInv
  BY ConstantsAssumption
  DEF Init, LockstepInv, ReadBehindWrite, TurnCount, SentBound, TurnPlayers
<1>2. LockstepInv => TurnCount
  BY DEF LockstepInv
<1> QED BY <1>1, <1>2, TypeCorrect, LockstepInvStep, PTL DEF Spec

\* No console takes a turn before every player of its run sent the command
\* of that turn, for any number of consoles and any frame rates.
THEOREM NeverAheadHolds == Spec => []NeverAhead
<1>1. Init => LockstepInv
  BY ConstantsAssumption
  DEF Init, LockstepInv, ReadBehindWrite, TurnCount, SentBound, TurnPlayers
<1>2. TypeOK /\ LockstepInv => NeverAhead
  <2> SUFFICES ASSUME TypeOK, LockstepInv, NEW c \in Clients, pc[c] # "done",
                      NEW p \in TurnPlayers(c)
               PROVE  Turn(c) <= input_read[p]
    BY DEF NeverAhead
  <2>1. p \in Clients
    BY TurnPlayersAreClients
  <2>2. Turn(c) = read[c][p] /\ read[c][p] <= Len(rec[c][p])
    BY <2>1 DEF LockstepInv, TurnCount, ReadBehindWrite
  <2>3. Len(rec[c][p]) + Len(inbox[c][p]) + Len(outbox[p]) <= input_read[p]
    BY <2>1 DEF LockstepInv, SentBound
  <2>4. /\ read[c][p] \in Nat /\ Len(rec[c][p]) \in Nat /\ Len(inbox[c][p]) \in Nat
        /\ Len(outbox[p]) \in Nat /\ input_read[p] \in Nat
    BY <2>1, Lengths DEF TypeOK, RecTypeOK
  <2>5. Len(rec[c][p]) <= input_read[p]
    BY <2>3, <2>4, Sums, Zenon
  <2>6. read[c][p] <= input_read[p]
    BY <2>2, <2>4, <2>5, Transitive, Zenon
  <2> QED BY <2>2, <2>6, Zenon
<1> QED BY <1>1, <1>2, TypeCorrect, LockstepInvStep, PTL DEF Spec

-----------------------------------------------------------------------------
(***************************************************************************)
(* The input record.  FillInput has filled it before connection_sync reads *)
(* it, and the reader never passes its end.                                *)
(***************************************************************************)

\* What is due to be sent is recorded while connection_sync runs.
FilledUp ==
  \A c \in Clients :
    pc[c] \in {"recv", "send"} => loop_write_frame(c) <= Len(input[c])

\* Only recorded commands were sent.
SentRecorded == \A c \in Clients : input_read[c] <= Len(input[c])

InputInv == FilledUp /\ SentRecorded

\* After FillInput the record holds every turn up to loop_write_frame.
LEMMA FillLength ==
  ASSUME TypeOK, NEW c \in Clients
  PROVE  LET new == input[c] \o [i \in 1 .. Missing(c) |-> Empty]
         IN  /\ Len(new) \in Nat
             /\ Len(input[c]) <= Len(new)
             /\ loop_write_frame(c) <= Len(new)
<1>1. input[c] \in Seq(Commands) /\ Len(input[c]) \in Nat
  BY Lengths DEF TypeOK, RecTypeOK
<1>2. loop_write_frame(c) \in Nat
  BY DEF TypeOK, LoopTypeOK, loop_write_frame, Turn
<1>3. Len(input[c] \o [i \in 1 .. Missing(c) |-> Empty]) = Len(input[c]) + Missing(c)
  <2> DEFINE fill == [i \in 1 .. Missing(c) |-> Empty]
  <2>1. fill \in Seq(Commands) /\ Len(fill) = Missing(c)
    BY FillType
  <2> HIDE DEF fill
  <2>2. Len(input[c] \o fill) = Len(input[c]) + Missing(c)
    <3>1. Len(input[c] \o fill) = Len(input[c]) + Len(fill)
      BY <1>1, <2>1, ConcatProperties
    <3> QED BY <2>1, <3>1, Zenon
  <2> QED BY <2>2 DEF fill
<1>4. Missing(c) \in Nat /\ loop_write_frame(c) <= Len(input[c]) + Missing(c)
  BY <1>1, <1>2, FillType DEF Missing
<1> QED BY <1>1, <1>2, <1>3, <1>4

\* Every step preserves the invariant of the input record.
LEMMA InputInvStep == TypeOK /\ InputInv /\ [Next]_vars => InputInv'
<1> SUFFICES ASSUME TypeOK, InputInv, [Next]_vars PROVE InputInv'
  OBVIOUS
<1> USE DEF InputInv, Goto
<1>1. ASSUME NEW c \in Clients, GameRestart(c) PROVE InputInv'
  <2>1. /\ UNCHANGED <<input, input_read>> /\ pc'[c] = "poll"
        /\ \A d \in Clients \ {c} : /\ pc'[d] = pc[d]
                                    /\ loop_write_frame(d)' = loop_write_frame(d)
    BY <1>1 DEF GameRestart, loop_write_frame, Turn, TypeOK, LoopTypeOK
  <2> QED BY <2>1 DEF FilledUp, SentRecorded
<1>2. ASSUME NEW c \in Clients, NEW cmd \in Commands, InputLine(c, cmd) PROVE InputInv'
  <2>1. /\ pc[c] = "poll" /\ UNCHANGED <<pc, frame, pause_frame, input_queue, input_read>>
        /\ input' = [input EXCEPT ![c] = Append(@, cmd)]
    BY <1>2 DEF InputLine, loopVars
  <2>2. Len(Append(input[c], cmd)) = Len(input[c]) + 1
    BY AppendProperties DEF TypeOK, RecTypeOK
  <2>3. FilledUp'
    BY <2>1 DEF FilledUp, loop_write_frame, Turn, TypeOK, RecTypeOK
  <2>4. SentRecorded'
    <3>1. input_read[c] <= Len(input[c]) + 1
      <4>1. input_read[c] \in Nat /\ Len(input[c]) \in Nat
        BY Lengths DEF TypeOK, RecTypeOK
      <4> QED BY <4>1, Transitive, Zenon DEF SentRecorded
    <3> QED BY <2>1, <2>2, <3>1 DEF SentRecorded, TypeOK, RecTypeOK
  <2> QED BY <2>3, <2>4
<1>3. ASSUME NEW c \in Clients, GameExit(c) \/ ReceiveEnd(c) \/ Reload(c) \/ Quit(c)
      PROVE  InputInv'
  <2>1. /\ UNCHANGED <<frame, pause_frame, input_queue, input, input_read>>
        /\ \A d \in Clients : pc'[d] \in {"recv", "send"} => pc[d] \in {"recv", "send"}
    BY <1>3 DEF GameExit, ReceiveEnd, Reload, Quit, loopVars, recVars, TypeOK, LoopTypeOK
  <2> QED BY <2>1 DEF FilledUp, SentRecorded, loop_write_frame, Turn
<1>4. ASSUME NEW c \in Clients, ConnectionIo(c) \/ ConnectionTerm(c) PROVE InputInv'
  <2>1. /\ UNCHANGED <<frame, pause_frame, input_queue, input_read>>
        /\ \A d \in Clients \ {c} : pc'[d] = pc[d]
    BY <1>4 DEF ConnectionIo, ConnectionTerm, loopVars, TypeOK, LoopTypeOK
  <2>2. CASE FillInput(c)
    <3>1. /\ Len(input'[c]) \in Nat
          /\ Len(input[c]) <= Len(input'[c])
          /\ loop_write_frame(c) <= Len(input'[c])
          /\ \A d \in Clients \ {c} : input'[d] = input[d]
      BY <2>2, FillLength DEF FillInput, TypeOK, RecTypeOK
    <3>2. input_read[c] <= Len(input'[c])
      <4>1. input_read[c] \in Nat /\ Len(input[c]) \in Nat
        BY Lengths DEF TypeOK, RecTypeOK
      <4> QED BY <3>1, <4>1, Transitive, Zenon DEF SentRecorded
    <3>3. FilledUp'
      BY <2>1, <3>1 DEF FilledUp, loop_write_frame, Turn
    <3>4. SentRecorded'
      BY <2>1, <3>1, <3>2 DEF SentRecorded
    <3> QED BY <3>3, <3>4
  <2>3. CASE ~FillInput(c)
    <3>1. input' = input /\ pc'[c] = "stop"
      BY <1>4, <2>3 DEF ConnectionIo, ConnectionTerm, TypeOK, LoopTypeOK
    <3> QED BY <2>1, <3>1 DEF FilledUp, SentRecorded, loop_write_frame, Turn
  <2> QED BY <2>2, <2>3
<1>5. ASSUME NEW c \in Clients, NEW p \in Clients, Receive(c, p) \/ NewPlayer(c, p)
      PROVE  InputInv'
  <2>1. /\ UNCHANGED <<frame, pause_frame, input_queue, input, input_read>>
        /\ \A d \in Clients : pc'[d] \in {"recv", "send"} => pc[d] \in {"recv", "send"}
    BY <1>5 DEF Receive, NewPlayer, loopVars, TypeOK, LoopTypeOK
  <2> QED BY <2>1 DEF FilledUp, SentRecorded, loop_write_frame, Turn
<1>6. ASSUME NEW c \in Clients, Send(c) PROVE InputInv'
  <2>1. /\ UNCHANGED <<pc, frame, pause_frame, input_queue, input>>
        /\ input_read[c] < Len(input[c])
        /\ input_read' = [input_read EXCEPT ![c] = @ + 1]
    BY <1>6 DEF Send, loopVars
  <2>2. input_read[c] + 1 <= Len(input[c])
    BY <2>1, Lengths DEF TypeOK, RecTypeOK
  <2> QED BY <2>1, <2>2 DEF FilledUp, SentRecorded, loop_write_frame, Turn, TypeOK, RecTypeOK
<1>7. ASSUME NEW c \in Clients, Stall(c) \/ TakeTurn(c) PROVE InputInv'
  <2>1. /\ UNCHANGED <<input, input_read>>
        /\ pc'[c] \in {"poll", "stop"}
        /\ \A d \in Clients \ {c} : /\ pc'[d] = pc[d]
                                    /\ loop_write_frame(d)' = loop_write_frame(d)
    BY <1>7 DEF Stall, TakeTurn, LoopHead, recVars, loop_write_frame, Turn, TypeOK, LoopTypeOK
  <2> QED BY <2>1 DEF FilledUp, SentRecorded
<1>8. ASSUME NEW p \in Clients, Relay(p) PROVE InputInv'
  BY <1>8 DEF Relay, loopVars, recVars, FilledUp, SentRecorded, loop_write_frame, Turn
<1>9. CASE UNCHANGED vars
  BY <1>9 DEF vars, loopVars, recVars, FilledUp, SentRecorded, loop_write_frame, Turn
<1> QED BY <1>1, <1>2, <1>3, <1>4, <1>5, <1>6, <1>7, <1>8, <1>9
        DEF Next, User, Console

\* The invariant of the input record holds in every reachable state.
LEMMA InputInvHolds == Spec => []InputInv
<1>1. Init => InputInv
  BY DEF Init, InputInv, FilledUp, SentRecorded
<1> QED BY <1>1, TypeCorrect, InputInvStep, PTL DEF Spec

\* connection_sync never finds the input record exhausted: CONN_CORRUPT is
\* never returned, whatever is typed, reloaded or stalled.
THEOREM NeverCorruptHolds == Spec => []NeverCorrupt
<1>1. TypeOK /\ InputInv => NeverCorrupt
  <2> SUFFICES ASSUME TypeOK, InputInv, NEW c \in Clients, Corrupt(c) PROVE FALSE
    BY DEF NeverCorrupt
  <2>1. /\ loop_write_frame(c) > input_read[c]
        /\ input_read[c] >= Len(input[c])
        /\ loop_write_frame(c) <= Len(input[c])
    BY DEF Corrupt, InputInv, FilledUp
  <2>2. loop_write_frame(c) \in Nat /\ input_read[c] \in Nat /\ Len(input[c]) \in Nat
    BY Lengths DEF TypeOK, LoopTypeOK, RecTypeOK, loop_write_frame, Turn
  <2> QED BY <2>1, <2>2
<1> QED BY <1>1, TypeCorrect, InputInvHolds, PTL

-----------------------------------------------------------------------------
(***************************************************************************)
(* Conservation of input: facts about sequences first.                     *)
(***************************************************************************)

\* Moving the first element of a sequence to the end of the one before it.
LEMMA MoveHead ==
  ASSUME NEW S, NEW a \in Seq(S), NEW b \in Seq(S), b # <<>>
  PROVE  Append(a, Head(b)) \o Tail(b) = a \o b
<1>1. Len(b) \in Nat \ {0} /\ Head(b) \in S /\ Tail(b) \in Seq(S) /\ Head(b) = b[1]
  BY HeadTailProperties, EmptySeq
<1>2. b = <<b[1]>> \o SubSeq(b, 2, Len(b))
  BY <1>1, SubSeqRecursiveFirst, SubSeqFull
<1>3. b = <<Head(b)>> \o Tail(b)
  BY <1>1, <1>2, TailIsSubSeq
<1>4. Append(a, Head(b)) = a \o <<Head(b)>>
  BY <1>1, AppendIsConcat
<1>5. <<Head(b)>> \in Seq(S)
  BY <1>1
<1>6. (a \o <<Head(b)>>) \o Tail(b) = a \o (<<Head(b)>> \o Tail(b))
  BY <1>1, <1>5, ConcatAssociative
<1> QED BY <1>3, <1>4, <1>6

\* An element appended to the last part of a sequence.
LEMMA AppendAtEnd ==
  ASSUME NEW S, NEW a \in Seq(S), NEW b \in Seq(S), NEW e \in S
  PROVE  a \o Append(b, e) = Append(a \o b, e)
<1>1. <<e>> \in Seq(S)
  OBVIOUS
<1>2. Append(b, e) = b \o <<e>>
  BY AppendIsConcat
<1>3. a \o b \in Seq(S) /\ Append(a \o b, e) = (a \o b) \o <<e>>
  BY ConcatProperties, AppendIsConcat
<1>4. (a \o b) \o <<e>> = a \o (b \o <<e>>)
  BY <1>1, ConcatAssociative
<1> QED BY <1>2, <1>3, <1>4

\* The commands sent, after one more is sent.
LEMMA PrefixGrows ==
  ASSUME NEW S, NEW s \in Seq(S), NEW n \in Nat, n < Len(s)
  PROVE  SubSeq(s, 1, n + 1) = Append(SubSeq(s, 1, n), s[n + 1])
<1>1. Len(s) \in Nat
  BY LenProperties
<1>2. SubSeq(s, 1, n) \in Seq(S) /\ s[n + 1] \in S
  BY <1>1, SubSeqProperties, ElementOfSeq
<1>3. SubSeq(s, 1, n + 1) = SubSeq(s, 1, n) \o <<s[n + 1]>>
  BY <1>1, SubSeqRecursiveSecond
<1> QED BY <1>2, <1>3, AppendIsConcat

\* The commands sent, after more are recorded.
LEMMA PrefixStays ==
  ASSUME NEW S, NEW s \in Seq(S), NEW t \in Seq(S), NEW n \in Nat, n <= Len(s)
  PROVE  SubSeq(s \o t, 1, n) = SubSeq(s, 1, n)
<1>1. Len(s) \in Nat
  BY LenProperties
<1>2. CASE n = 0
  BY <1>2, SubSeqEmpty
<1>3. CASE n # 0
  BY <1>1, <1>3, SubSeqOfConcat1
<1> QED BY <1>2, <1>3

\* Every step preserves InputConservation.
LEMMA ConservationStep ==
  TypeOK /\ InputInv /\ InputConservation /\ [Next]_vars => InputConservation'
<1> SUFFICES ASSUME TypeOK, InputInv, InputConservation, [Next]_vars
             PROVE  InputConservation'
  OBVIOUS
<1> DEFINE Sent(d) == SubSeq(input[d], 1, input_read[d])
           Chain(d, q) == rec[d][q] \o inbox[d][q] \o outbox[q]
<1>a. ASSUME UNCHANGED <<rec, inbox, outbox, buffering>>,
             \A q \in Clients : Sent(q)' = Sent(q)
      PROVE  InputConservation'
  BY <1>a DEF InputConservation
<1>b. ASSUME NEW c \in Clients, NEW new \in Seq(Commands),
             input' = [input EXCEPT ![c] = input[c] \o new], input_read' = input_read
      PROVE  \A q \in Clients : Sent(q)' = Sent(q)
  <2>1. SubSeq(input[c] \o new, 1, input_read[c]) = SubSeq(input[c], 1, input_read[c])
    BY <1>b, PrefixStays DEF TypeOK, RecTypeOK, InputInv, SentRecorded
  <2> QED BY <1>b, <2>1 DEF TypeOK, RecTypeOK
<1>1. ASSUME NEW c \in Clients, GameRestart(c) \/ GameExit(c) \/ Reload(c) \/ Quit(c)
                                \/ ReceiveEnd(c) \/ Stall(c) \/ TakeTurn(c)
      PROVE  InputConservation'
  <2>1. UNCHANGED <<rec, inbox, outbox, buffering, input, input_read>>
    BY <1>1 DEF GameRestart, GameExit, Reload, Quit, ReceiveEnd, Stall, TakeTurn,
                recVars, netVars
  <2> QED BY <1>a, <2>1
<1>2. ASSUME NEW c \in Clients, NEW cmd \in Commands, InputLine(c, cmd)
      PROVE  InputConservation'
  <2>1. /\ UNCHANGED <<rec, inbox, outbox, buffering, input_read>>
        /\ input' = [input EXCEPT ![c] = Append(input[c], cmd)]
    BY <1>2 DEF InputLine, netVars
  <2>2. Append(input[c], cmd) = input[c] \o <<cmd>> /\ <<cmd>> \in Seq(Commands)
    BY AppendIsConcat DEF TypeOK, RecTypeOK
  <2>3. input' = [input EXCEPT ![c] = input[c] \o <<cmd>>]
    BY <2>1, <2>2, Zenon
  <2> QED BY <1>a, <1>b, <2>1, <2>2, <2>3
<1>3. ASSUME NEW c \in Clients, ConnectionIo(c) \/ ConnectionTerm(c)
      PROVE  InputConservation'
  <2>1. UNCHANGED <<rec, inbox, outbox, buffering, input_read>>
    BY <1>3 DEF ConnectionIo, ConnectionTerm, netVars
  <2>2. CASE input' = input
    BY <1>a, <2>1, <2>2
  <2>3. CASE FillInput(c)
    <3> DEFINE fill == [i \in 1 .. Missing(c) |-> Empty]
    <3>1. fill \in Seq(Commands) /\ input' = [input EXCEPT ![c] = input[c] \o fill]
      BY <2>3, FillType DEF FillInput
    <3> HIDE DEF fill
    <3> QED BY <1>a, <1>b, <2>1, <3>1
  <2> QED BY <1>3, <2>2, <2>3 DEF ConnectionIo, ConnectionTerm
<1>4. ASSUME NEW c \in Clients, NEW p \in Clients, Receive(c, p)
      PROVE  InputConservation'
  <2>1. /\ inbox[c][p] # <<>>
        /\ rec' = [rec EXCEPT ![c][p] = Append(@, Head(inbox[c][p]))]
        /\ inbox' = [inbox EXCEPT ![c][p] = Tail(@)]
        /\ outbox' = outbox /\ buffering' = buffering
        /\ input' = input /\ input_read' = input_read
    BY <1>4 DEF Receive
  <2>2. Append(rec[c][p], Head(inbox[c][p])) \o Tail(inbox[c][p]) = rec[c][p] \o inbox[c][p]
    <3>1. rec[c][p] \in Seq(Commands) /\ inbox[c][p] \in Seq(Commands)
      BY SMTT(30) DEF TypeOK, RecTypeOK, NetTypeOK
    <3> QED BY <2>1, <3>1, MoveHead, Zenon
  <2>3. \A d, q \in Clients : rec'[d][q] \o inbox'[d][q] = rec[d][q] \o inbox[d][q]
    BY <2>1, <2>2 DEF TypeOK, RecTypeOK, NetTypeOK
  <2> SUFFICES ASSUME NEW d \in Clients, NEW q \in Clients, ~buffering'[q]
               PROVE  Chain(d, q)' = Sent(q)'
    BY DEF InputConservation
  <2>4. Chain(d, q) = Sent(q)
    BY <2>1 DEF InputConservation
  <2>5. Chain(d, q)' = Chain(d, q) /\ Sent(q)' = Sent(q)
    BY <2>1, <2>3, Zenon
  <2> HIDE DEF Chain, Sent
  <2> QED BY <2>4, <2>5
<1>5. ASSUME NEW c \in Clients, NEW p \in Clients, NewPlayer(c, p)
      PROVE  InputConservation'
  <2>1. UNCHANGED <<rec, inbox, outbox, buffering, input, input_read>>
    BY <1>5 DEF NewPlayer, MessageKept, TypeOK, NetTypeOK
  <2> QED BY <1>a, <2>1
<1>6. ASSUME NEW c \in Clients, Send(c) PROVE InputConservation'
  <2> DEFINE cmd == input[c][input_read[c] + 1]
  <2>1. /\ UNCHANGED <<rec, inbox, input>>
        /\ input_read[c] < Len(input[c])
        /\ input_read' = [input_read EXCEPT ![c] = @ + 1]
        /\ \/ outbox' = [outbox EXCEPT ![c] = Append(@, cmd)] /\ buffering' = buffering
           \/ outbox' = outbox /\ buffering' = [buffering EXCEPT ![c] = TRUE]
    BY <1>6 DEF Send
  <2>2. cmd \in Commands
    BY <2>1, ElementOfSeq, Lengths DEF TypeOK, RecTypeOK
  <2>3. Sent(c)' = Append(Sent(c), cmd)
    BY <2>1, PrefixGrows DEF TypeOK, RecTypeOK
  <2> HIDE DEF cmd
  <2>4. \A d \in Clients :
          (rec[d][c] \o inbox[d][c]) \o Append(outbox[c], cmd) = Append(Chain(d, c), cmd)
    <3> TAKE d \in Clients
    <3>1. rec[d][c] \in Seq(Commands) /\ inbox[d][c] \in Seq(Commands)
      BY DEF TypeOK, RecTypeOK, NetTypeOK
    <3>2. outbox[c] \in Seq(Commands)
      BY DEF TypeOK, NetTypeOK
    <3>3. rec[d][c] \o inbox[d][c] \in Seq(Commands)
      BY <3>1, ConcatProperties
    <3> DEFINE a == rec[d][c] \o inbox[d][c]
               b == outbox[c]
    <3>4. a \in Seq(Commands) /\ b \in Seq(Commands)
      BY <3>2, <3>3
    <3> HIDE DEF a, b
    <3>5. a \o Append(b, cmd) = Append(a \o b, cmd)
      BY <2>2, <3>4, AppendAtEnd
    <3> QED BY <3>5 DEF a, b
  <2> SUFFICES ASSUME NEW d \in Clients, NEW q \in Clients, ~buffering'[q]
               PROVE  Chain(d, q)' = Sent(q)'
    BY DEF InputConservation
  <2>5. CASE q = c
    <3>1. ~buffering[c] /\ outbox' = [outbox EXCEPT ![c] = Append(@, cmd)]
      BY <2>1, <2>5 DEF TypeOK, NetTypeOK
    <3>2. Chain(d, c) = Sent(c)
      BY <3>1 DEF InputConservation
    <3>3. Chain(d, c)' = (rec[d][c] \o inbox[d][c]) \o Append(outbox[c], cmd)
      BY <2>1, <3>1 DEF TypeOK, NetTypeOK
    <3> HIDE DEF Chain, Sent
    <3> QED BY <2>3, <2>4, <2>5, <3>2, <3>3
  <2>6. CASE q # c
    <3>1. ~buffering[q] /\ outbox'[q] = outbox[q] /\ Sent(q)' = Sent(q)
      BY <2>1, <2>6 DEF TypeOK, RecTypeOK, NetTypeOK
    <3> QED BY <2>1, <3>1 DEF InputConservation
  <2> QED BY <2>5, <2>6
<1>7. ASSUME NEW p \in Clients, Relay(p) PROVE InputConservation'
  <2>1. /\ outbox[p] # <<>>
        /\ outbox' = [outbox EXCEPT ![p] = Tail(@)]
        /\ inbox' = [c \in Clients |-> [inbox[c] EXCEPT ![p] = Append(@, Head(outbox[p]))]]
        /\ UNCHANGED <<rec, input, input_read, buffering>>
    BY <1>7 DEF Relay, recVars
  <2> SUFFICES ASSUME NEW d \in Clients, NEW q \in Clients, ~buffering[q]
               PROVE  rec[d][q] \o inbox'[d][q] \o outbox'[q] = Sent(q)
    BY <2>1 DEF InputConservation
  <2>2. rec[d][q] \o inbox[d][q] \o outbox[q] = Sent(q)
    BY DEF InputConservation
  <2>3. CASE q = p
    <3>1. inbox'[d][p] = Append(inbox[d][p], Head(outbox[p])) /\ outbox'[p] = Tail(outbox[p])
      BY <2>1 DEF TypeOK, NetTypeOK
    <3>2. Head(outbox[p]) \in Commands
      BY <2>1, HeadTailProperties DEF TypeOK, NetTypeOK
    <3>3. rec[d][p] \o Append(inbox[d][p], Head(outbox[p]))
            = Append(rec[d][p] \o inbox[d][p], Head(outbox[p]))
      <4>1. rec[d][p] \in Seq(Commands) /\ inbox[d][p] \in Seq(Commands)
        BY DEF TypeOK, RecTypeOK, NetTypeOK
      <4> DEFINE a == rec[d][p]
                 b == inbox[d][p]
                 e == Head(outbox[p])
      <4>2. a \in Seq(Commands) /\ b \in Seq(Commands) /\ e \in Commands
        BY <3>2, <4>1
      <4> HIDE DEF a, b, e
      <4>3. a \o Append(b, e) = Append(a \o b, e)
        BY <4>2, AppendAtEnd
      <4> QED BY <4>3 DEF a, b, e
    <3>4. rec[d][p] \o inbox[d][p] \in Seq(Commands)
      BY ConcatProperties DEF TypeOK, RecTypeOK, NetTypeOK
    <3>5. Append(rec[d][p] \o inbox[d][p], Head(outbox[p])) \o Tail(outbox[p])
            = (rec[d][p] \o inbox[d][p]) \o outbox[p]
      BY <2>1, <3>4, MoveHead, ZenonT(60) DEF TypeOK, NetTypeOK
    <3> HIDE DEF Sent
    <3> QED BY <2>2, <2>3, <3>1, <3>3, <3>5, Zenon
  <2>4. CASE q # p
    BY <2>1, <2>2, <2>4 DEF TypeOK, NetTypeOK
  <2> QED BY <2>3, <2>4
<1>8. CASE UNCHANGED vars
  BY <1>8 DEF vars, recVars, netVars, InputConservation
<1> QED BY <1>1, <1>2, <1>3, <1>4, <1>5, <1>6, <1>7, <1>8 DEF Next, User, Console

\* Between a console that sends and the record of any console nothing is
\* lost, repeated or reordered, as long as no write was cut short.
THEOREM InputConservationHolds == Spec => []InputConservation
<1>1. Init => InputConservation
  <2> SUFFICES ASSUME Init, NEW c \in Clients, NEW p \in Clients
               PROVE  <<>> \o <<>> \o <<>> = SubSeq(<<>>, 1, 0)
    BY DEF Init, InputConservation
  <2>1. <<>> \o <<>> = <<>>
    BY ConcatEmptySeq, EmptySeq
  <2> QED BY <2>1, SubSeqEmpty
<1> QED BY <1>1, TypeCorrect, InputInvHolds, ConservationStep, PTL DEF Spec

-----------------------------------------------------------------------------
(***************************************************************************)
(* Agreement: Lockstep implements TurnLog, and consoles that took the same *)
(* turns agree.                                                            *)
(***************************************************************************)

\* What a console received of a player and what is on its way to it is the
\* same for every console, also when writes were cut short.
OneLog ==
  \A c, p \in Clients : rec[c][p] \o inbox[c][p] = rec[p][p] \o inbox[p][p]

\* A console that left the loop was halted.
Stopped == \A c \in Clients : pc[c] \in {"stop", "done"} => ~running[c]

\* The logs and the games of TurnLog, as Lockstep maps them.
Log == [p \in Clients |-> SharedLog(p)]
Game ==
  [c \in Clients |->
     IF running[c]
       THEN [on |-> TRUE, players |-> player_count[c], turn |-> Turn(c),
             frame |-> frame[c], goal |-> simulation_goal[c]]
       ELSE [on |-> FALSE, players |-> 0, turn |-> 0, frame |-> 0, goal |-> 0]]

-----------------------------------------------------------------------------
(***************************************************************************)
(* One log per player.                                                     *)
(***************************************************************************)

\* A message that is received stays in the log.
LEMMA ReceiveKeeps ==
  ASSUME TypeOK, NEW c \in Clients, NEW p \in Clients, Receive(c, p)
  PROVE  \A d, q \in Clients : rec'[d][q] \o inbox'[d][q] = rec[d][q] \o inbox[d][q]
<1>1. /\ inbox[c][p] # <<>>
      /\ rec' = [rec EXCEPT ![c][p] = Append(@, Head(inbox[c][p]))]
      /\ inbox' = [inbox EXCEPT ![c][p] = Tail(@)]
  BY DEF Receive
<1>2. rec[c][p] \in Seq(Commands) /\ inbox[c][p] \in Seq(Commands)
  BY DEF TypeOK, RecTypeOK, NetTypeOK
<1>3. Append(rec[c][p], Head(inbox[c][p])) \o Tail(inbox[c][p]) = rec[c][p] \o inbox[c][p]
  BY <1>1, <1>2, MoveHead, Zenon
<1> QED BY <1>1, <1>3 DEF TypeOK, RecTypeOK, NetTypeOK

\* A message that is relayed is added to what every console receives, and
\* stays in the log.
LEMMA RelayKeeps ==
  ASSUME TypeOK, NEW p \in Clients, Relay(p)
  PROVE  /\ \A d, q \in Clients :
              rec'[d][q] \o inbox'[d][q] =
                IF q = p THEN Append(rec[d][q] \o inbox[d][q], Head(outbox[p]))
                         ELSE rec[d][q] \o inbox[d][q]
         /\ \A d, q \in Clients :
              rec'[d][q] \o inbox'[d][q] \o outbox'[q] = rec[d][q] \o inbox[d][q] \o outbox[q]
<1>1. /\ outbox[p] # <<>> /\ rec' = rec
      /\ outbox' = [outbox EXCEPT ![p] = Tail(@)]
      /\ inbox' = [c \in Clients |-> [inbox[c] EXCEPT ![p] = Append(@, Head(outbox[p]))]]
  BY DEF Relay, recVars
<1> SUFFICES ASSUME NEW d \in Clients, NEW q \in Clients
             PROVE  /\ rec[d][q] \o inbox'[d][q] =
                         IF q = p THEN Append(rec[d][q] \o inbox[d][q], Head(outbox[p]))
                                  ELSE rec[d][q] \o inbox[d][q]
                    /\ rec[d][q] \o inbox'[d][q] \o outbox'[q]
                         = rec[d][q] \o inbox[d][q] \o outbox[q]
  BY <1>1, Zenon
<1>2. CASE q = p
  <2> DEFINE a == rec[d][q]
             b == inbox[d][q]
             o == outbox[q]
  <2>1. a \in Seq(Commands) /\ b \in Seq(Commands) /\ o \in Seq(Commands) /\ o # <<>>
    BY <1>1, <1>2 DEF TypeOK, RecTypeOK, NetTypeOK
  <2>2. inbox'[d][q] = Append(b, Head(o)) /\ outbox'[q] = Tail(o)
    BY <1>1, <1>2 DEF TypeOK, NetTypeOK
  <2> HIDE DEF a, b, o
  <2>3. Head(o) \in Commands
    BY <2>1, HeadTailProperties
  <2>4. a \o Append(b, Head(o)) = Append(a \o b, Head(o))
    BY <2>1, <2>3, AppendAtEnd
  <2>5. a \o b \in Seq(Commands)
    BY <2>1, ConcatProperties
  <2>6. Append(a \o b, Head(o)) \o Tail(o) = (a \o b) \o o
    BY <2>1, <2>5, MoveHead
  <2>7. /\ a \o inbox'[d][q] = Append(a \o b, Head(o))
        /\ (a \o inbox'[d][q]) \o outbox'[q] = (a \o b) \o o
    BY <2>2, <2>4, <2>6, Zenon
  <2> QED BY <1>2, <2>7, Zenon DEF a, b, o
<1>3. CASE q # p
  <2>1. inbox'[d][q] = inbox[d][q] /\ outbox'[q] = outbox[q]
    BY <1>1, <1>3 DEF TypeOK, NetTypeOK
  <2> QED BY <1>3, <2>1, Zenon
<1> QED BY <1>2, <1>3

\* The other steps leave what is received alone; one of them sends.
LEMMA OtherStepsKeep ==
  ASSUME TypeOK, [Next]_vars,
         ~ \E c, p \in Clients : Receive(c, p), ~ \E p \in Clients : Relay(p)
  PROVE  /\ UNCHANGED <<rec, inbox>>
         /\ outbox' = outbox \/ \E c \in Clients : Send(c)
<1>1. ASSUME NEW c \in Clients, User(c) PROVE UNCHANGED <<rec, inbox, outbox>>
  BY <1>1 DEF User, InputLine, Reload, Quit, recVars, netVars
<1>2. ASSUME NEW c \in Clients, GameRestart(c) \/ GameExit(c) \/ ConnectionIo(c)
               \/ ConnectionTerm(c) \/ ReceiveEnd(c) \/ Stall(c) \/ TakeTurn(c)
      PROVE  UNCHANGED <<rec, inbox, outbox>>
  BY <1>2 DEF GameRestart, GameExit, ConnectionIo, ConnectionTerm, ReceiveEnd, Stall,
              TakeTurn, recVars, netVars
<1>3. ASSUME NEW c \in Clients, NEW p \in Clients, NewPlayer(c, p)
      PROVE  UNCHANGED <<rec, inbox, outbox>>
  BY <1>3 DEF NewPlayer, MessageKept, TypeOK, NetTypeOK
<1>4. ASSUME NEW c \in Clients, Send(c) PROVE UNCHANGED <<rec, inbox>>
  BY <1>4 DEF Send
<1>5. CASE UNCHANGED vars
  BY <1>5 DEF vars, recVars, netVars
<1> QED BY <1>1, <1>2, <1>3, <1>4, <1>5 DEF Next, Console

\* Every console keeps receiving the same.
LEMMA OneLogStep == TypeOK /\ OneLog /\ [Next]_vars => OneLog'
<1> SUFFICES ASSUME TypeOK, OneLog, [Next]_vars PROVE OneLog'
  OBVIOUS
<1> SUFFICES ASSUME NEW c \in Clients, NEW p \in Clients
             PROVE  rec'[c][p] \o inbox'[c][p] = rec'[p][p] \o inbox'[p][p]
  BY DEF OneLog
<1>1. rec[c][p] \o inbox[c][p] = rec[p][p] \o inbox[p][p]
  BY DEF OneLog
<1>2. CASE \E d, q \in Clients : Receive(d, q)
  BY <1>1, <1>2, ReceiveKeeps
<1>3. CASE \E q \in Clients : Relay(q)
  <2>1. PICK q \in Clients : Relay(q)
    BY <1>3
  <2>2. \A d, r \in Clients : rec'[d][r] \o inbox'[d][r] =
                IF r = q THEN Append(rec[d][r] \o inbox[d][r], Head(outbox[q]))
                         ELSE rec[d][r] \o inbox[d][r]
    BY <2>1, RelayKeeps
  <2> QED BY <1>1, <2>2, ZenonT(60)
<1>4. CASE /\ ~ \E d, q \in Clients : Receive(d, q)
           /\ ~ \E q \in Clients : Relay(q)
  BY <1>1, <1>4, OtherStepsKeep
<1> QED BY <1>2, <1>3, <1>4

\* A step leaves the logs alone or a console sends a command of its input.
LEMMA LogStep ==
  ASSUME TypeOK, [Next]_vars
  PROVE  \/ Log' = Log
         \/ \E c \in Clients, cmd \in Commands :
              Send(c) /\ Log' = [Log EXCEPT ![c] = Append(@, cmd)]
<1>1. CASE \E d, q \in Clients : Receive(d, q)
  <2>1. \A d, q \in Clients : rec'[d][q] \o inbox'[d][q] = rec[d][q] \o inbox[d][q]
    BY <1>1, ReceiveKeeps
  <2>2. outbox' = outbox
    BY <1>1 DEF Receive
  <2>3. \A p \in Clients : SharedLog(p)' = SharedLog(p)
    BY <2>1, <2>2, Zenon DEF SharedLog
  <2> QED BY <2>3, Zenon DEF Log
<1>2. CASE \E q \in Clients : Relay(q)
  <2>1. \A d, q \in Clients :
          rec'[d][q] \o inbox'[d][q] \o outbox'[q] = rec[d][q] \o inbox[d][q] \o outbox[q]
    BY <1>2, RelayKeeps
  <2>2. \A p \in Clients : SharedLog(p)' = SharedLog(p)
    BY <2>1, Zenon DEF SharedLog
  <2> QED BY <2>2, Zenon DEF Log
<1>3. CASE /\ ~ \E d, q \in Clients : Receive(d, q)
           /\ ~ \E q \in Clients : Relay(q)
  <2>1. UNCHANGED <<rec, inbox>>
    BY <1>3, OtherStepsKeep
  <2>2. CASE outbox' = outbox
    BY <2>1, <2>2 DEF Log, SharedLog
  <2>3. CASE outbox' # outbox
    <3>1. PICK c \in Clients : Send(c)
      BY <1>3, <2>3, OtherStepsKeep
    <3> DEFINE cmd == input[c][input_read[c] + 1]
    <3>2. /\ outbox' = [outbox EXCEPT ![c] = Append(@, cmd)]
          /\ input_read[c] < Len(input[c])
      BY <2>3, <3>1 DEF Send
    <3>3. cmd \in Commands
      BY <3>2, ElementOfSeq, Lengths DEF TypeOK, RecTypeOK
    <3> HIDE DEF cmd
    <3>4. SharedLog(c)' = Append(SharedLog(c), cmd)
      <4> DEFINE a == rec[c][c] \o inbox[c][c]
                 b == outbox[c]
      <4>1. a \in Seq(Commands) /\ b \in Seq(Commands)
        BY ConcatProperties DEF TypeOK, RecTypeOK, NetTypeOK
      <4>2. SharedLog(c) = a \o b /\ SharedLog(c)' = a \o Append(b, cmd)
        BY <2>1, <3>2 DEF SharedLog, TypeOK, NetTypeOK
      <4> HIDE DEF a, b
      <4> QED BY <3>3, <4>1, <4>2, AppendAtEnd
    <3>5. \A p \in Clients \ {c} : SharedLog(p)' = SharedLog(p)
      BY <2>1, <3>2 DEF SharedLog, TypeOK, NetTypeOK
    <3>6. Log' = [Log EXCEPT ![c] = Append(@, cmd)]
      BY <3>4, <3>5 DEF Log
    <3> QED BY <3>1, <3>3, <3>6
  <2> QED BY <2>2, <2>3
<1> QED BY <1>1, <1>2, <1>3

-----------------------------------------------------------------------------
(***************************************************************************)
(* The games.                                                              *)
(***************************************************************************)

\* A step that does not restart a game, does not halt one and takes no turn
\* leaves the games alone.
LEMMA GameStays ==
  ASSUME UNCHANGED <<running, player_count, frame, pause_frame, simulation_goal>>
  PROVE  Game' = Game
BY DEF Game, Turn

\* A console that is halted shows no game any more.
LEMMA GameHalts ==
  ASSUME TypeOK, NEW c \in Clients, loop_halt(c), Log' = Log,
         UNCHANGED <<player_count, frame, pause_frame>>,
         \A d \in Clients \ {c} : simulation_goal'[d] = simulation_goal[d]
  PROVE  TL!Stop(c) \/ (Log' = Log /\ Game' = Game)
<1>1. /\ running'[c] = FALSE
      /\ \A d \in Clients \ {c} : running'[d] = running[d]
  BY DEF loop_halt, TypeOK, LoopTypeOK
<1>2. \A d \in Clients \ {c} : Game'[d] = Game[d]
  BY <1>1 DEF Game, Turn
<1>3. Game'[c] = [on |-> FALSE, players |-> 0, turn |-> 0, frame |-> 0, goal |-> 0]
  BY <1>1 DEF Game
<1>4. CASE running[c]
  <2>1. Game[c].on
    BY <1>4 DEF Game
  <2>2. Game' = [Game EXCEPT ![c] = TL!Idle]
    BY <1>2, <1>3 DEF Game, TL!Idle
  <2> QED BY <2>1, <2>2 DEF TL!Stop, Log, Game
<1>5. CASE ~running[c]
  <2>1. Game'[c] = Game[c]
    BY <1>3, <1>5 DEF Game
  <2>2. Game' = Game
    BY <1>2, <2>1 DEF Game
  <2> QED BY <2>2
<1> QED BY <1>4, <1>5

\* A console that left the loop stays halted until it starts over.
LEMMA StoppedStep == TypeOK /\ Stopped /\ [Next]_vars => Stopped'
<1> SUFFICES ASSUME TypeOK, Stopped, [Next]_vars PROVE Stopped'
  OBVIOUS
<1> USE DEF Stopped, Goto, loop_halt, TypeOK, LoopTypeOK
<1>1. ASSUME NEW c \in Clients, User(c) PROVE Stopped'
  BY <1>1 DEF User, InputLine, Reload, Quit, loopVars
<1>2. ASSUME NEW c \in Clients, GameRestart(c) \/ GameExit(c) PROVE Stopped'
  BY <1>2 DEF GameRestart, GameExit, EndRun
<1>3. ASSUME NEW c \in Clients, ConnectionIo(c) \/ ConnectionTerm(c) \/ ReceiveEnd(c)
                                \/ Send(c)
      PROVE  Stopped'
  BY <1>3 DEF ConnectionIo, ConnectionTerm, ReceiveEnd, Send, loopVars
<1>4. ASSUME NEW c \in Clients, NEW p \in Clients, Receive(c, p) \/ NewPlayer(c, p)
      PROVE  Stopped'
  BY <1>4 DEF Receive, NewPlayer, loopVars
<1>5. ASSUME NEW c \in Clients, Stall(c) \/ TakeTurn(c) PROVE Stopped'
  <2>1. running' = running /\ pc' = [pc EXCEPT ![c] = IF running[c] THEN "poll" ELSE "stop"]
    BY <1>5 DEF Stall, TakeTurn, LoopHead
  <2> QED BY <2>1
<1>6. ASSUME NEW p \in Clients, Relay(p) PROVE Stopped'
  BY <1>6 DEF Relay, loopVars
<1>7. CASE UNCHANGED vars
  BY <1>7 DEF vars, loopVars
<1> QED BY <1>1, <1>2, <1>3, <1>4, <1>5, <1>6, <1>7 DEF Next, Console

\* The first commands of a log are what any console has recorded.
LEMMA RecordedIsLogged ==
  ASSUME TypeOK, OneLog, NEW c \in Clients, NEW p \in Clients,
         NEW i \in 1 .. Len(rec[c][p])
  PROVE  /\ Len(Log[p]) \in Nat /\ i <= Len(Log[p])
         /\ rec[c][p][i] = Log[p][i]
<1> DEFINE a == rec[c][p]
           b == inbox[c][p]
           o == outbox[p]
<1>1. a \in Seq(Commands) /\ b \in Seq(Commands) /\ o \in Seq(Commands)
  BY DEF TypeOK, RecTypeOK, NetTypeOK
<1>2. Log[p] = (a \o b) \o o
  <2>1. Log[p] = (rec[p][p] \o inbox[p][p]) \o outbox[p]
    BY DEF Log, SharedLog
  <2>2. a \o b = rec[p][p] \o inbox[p][p]
    BY DEF OneLog
  <2> QED BY <2>1, <2>2, Zenon
<1>3. i \in 1 .. Len(a)
  OBVIOUS
<1> HIDE DEF a, b, o
<1>4. /\ a \o b \in Seq(Commands) /\ Len(a \o b) = Len(a) + Len(b)
      /\ Len(a) \in Nat /\ Len(b) \in Nat /\ Len(o) \in Nat
      /\ (a \o b)[i] = a[i]
  BY <1>1, <1>3, ConcatProperties, LenProperties
<1>5. i \in 1 .. Len(a \o b)
  BY <1>3, <1>4
<1>6. /\ Len((a \o b) \o o) = Len(a \o b) + Len(o)
      /\ ((a \o b) \o o)[i] = (a \o b)[i]
  <2> DEFINE ab == a \o b
  <2>1. ab \in Seq(Commands) /\ i \in 1 .. Len(ab)
    BY <1>4, <1>5
  <2> HIDE DEF ab
  <2>2. Len(ab \o o) = Len(ab) + Len(o) /\ (ab \o o)[i] = ab[i]
    BY <1>1, <1>4, <2>1, ConcatProperties
  <2> QED BY <2>2 DEF ab
<1>7. a[i] = Log[p][i] /\ Len(Log[p]) = Len(a \o b) + Len(o)
  BY <1>2, <1>4, <1>6, Zenon
<1>8. Len(Log[p]) \in Nat /\ i <= Len(Log[p])
  BY <1>3, <1>4, <1>7
<1> QED BY <1>7, <1>8 DEF a

\* The commands of a turn are the commands of that turn in the logs.
LEMMA TurnCommands ==
  ASSUME TypeOK, LockstepInv, OneLog, NEW c \in Clients, pc[c] # "done",
         Waiting(c) = {}, NEW p \in TurnPlayers(c)
  PROVE  /\ p \in Clients /\ Turn(c) \in Nat
         /\ Len(Log[p]) \in Nat /\ Turn(c) < Len(Log[p])
         /\ Turn(c) < Len(rec[c][p])
         /\ NextCommand(c, p) = Log[p][Turn(c) + 1]
<1>1. p \in Clients
  BY TurnPlayersAreClients
<1>2. /\ read[c][p] = Turn(c) /\ Turn(c) \in Nat /\ Len(rec[c][p]) \in Nat
      /\ read[c][p] <= Len(rec[c][p]) /\ Len(rec[c][p]) # read[c][p]
  BY <1>1, Lengths, SMTT(30) DEF LockstepInv, TurnCount, ReadBehindWrite, Waiting, Turn, TypeOK, LoopTypeOK
<1>3. Turn(c) + 1 \in 1 .. Len(rec[c][p]) /\ HasCommand(c, p)
  BY <1>2 DEF HasCommand
<1>4. /\ Len(Log[p]) \in Nat /\ Turn(c) + 1 <= Len(Log[p])
      /\ rec[c][p][Turn(c) + 1] = Log[p][Turn(c) + 1]
  BY <1>1, <1>3, RecordedIsLogged
<1>5. NextCommand(c, p) = Log[p][Turn(c) + 1]
  BY <1>2, <1>3, <1>4, Zenon DEF NextCommand
<1>6. Turn(c) < Len(Log[p]) /\ Turn(c) < Len(rec[c][p])
  BY <1>2, <1>3, <1>4
<1> QED BY <1>1, <1>2, <1>4, <1>5, <1>6

\* The goal after the turn is the one that the logs determine.
LEMMA GoalFromLog ==
  ASSUME TypeOK, LockstepInv, OneLog, NEW c \in Clients, running[c], pc[c] # "done",
         Waiting(c) = {}
  PROVE  GoalAfter(c) = TL!GoalOf(Game[c])
<1> DEFINE R == {i \in TurnPlayers(c) : NextCommand(c, i) \in Goals}
           L == {p \in 0 .. Game[c].players - 1 : Log[p][Game[c].turn + 1] \in Goals}
           last == CHOOSE p \in L : \A q \in L : q <= p
<1>1. /\ 0 .. Game[c].players - 1 = TurnPlayers(c)
      /\ Game[c].turn = Turn(c) /\ Game[c].goal = simulation_goal[c]
  BY DEF Game, TurnPlayers
<1>2. \A p \in TurnPlayers(c) : NextCommand(c, p) = Log[p][Turn(c) + 1]
  BY TurnCommands
<1>3. R = L
  BY <1>1, <1>2, Zenon
<1>4. TL!GoalOf(Game[c]) = IF L = {} THEN Game[c].goal ELSE Log[last][Game[c].turn + 1]
  BY DEF TL!GoalOf, Log
<1>5. GoalAfter(c) = IF R = {} THEN simulation_goal[c]
                     ELSE NextCommand(c, CHOOSE i \in R : \A j \in R : j <= i)
  BY DEF GoalAfter
<1>6. GoalAfter(c) = IF L = {} THEN simulation_goal[c] ELSE NextCommand(c, last)
  BY <1>3, <1>5
<1>7. CASE L = {}
  BY <1>1, <1>4, <1>6, <1>7, Zenon
<1>8. CASE L # {}
  <2>1. L \subseteq 0 .. NumClients
    <3>1. L \subseteq TurnPlayers(c)
      BY <1>1, Zenon
    <3>2. TurnPlayers(c) \subseteq 0 .. NumClients
      BY ConstantsAssumption DEF TypeOK, MainTypeOK, TurnPlayers
    <3> QED BY <3>1, <3>2, Zenon
  <2>2. \E m \in L : \A j \in L : j <= m
    <3> HIDE DEF L
    <3> QED BY <1>8, <2>1, MaxExists, ConstantsAssumption
  <2>3. last \in L
    BY <2>2, Zenon
  <2>4. last \in TurnPlayers(c)
    BY <1>1, <2>3, Zenon
  <2> HIDE DEF last
  <2> QED BY <1>1, <1>2, <1>4, <1>6, <1>8, <2>4, Zenon
<1> QED BY <1>7, <1>8

\* A turn of a running console is a turn of the abstract game; a console
\* that was halted takes its last turn unseen.
LEMMA TurnPlays ==
  ASSUME TypeOK, LockstepInv, OneLog, NEW c \in Clients, TakeTurn(c), Log' = Log
  PROVE  TL!Play(c) \/ Game' = Game
<1>1. /\ pc[c] # "done" /\ Waiting(c) = {} /\ UNCHANGED <<running, player_count>>
      /\ simulation_goal' = [simulation_goal EXCEPT ![c] = GoalAfter(c)]
      /\ IF simulation_goal'[c] <= frame[c]
           THEN pause_frame' = [pause_frame EXCEPT ![c] = @ + 1] /\ frame' = frame
           ELSE frame' = [frame EXCEPT ![c] = @ + 1] /\ pause_frame' = pause_frame
  BY DEF TakeTurn, Synced
<1>2. /\ simulation_goal'[c] = GoalAfter(c)
      /\ Turn(c)' = Turn(c) + 1
      /\ frame'[c] = IF GoalAfter(c) > frame[c] THEN frame[c] + 1 ELSE frame[c]
  <2>1. frame[c] \in Nat /\ pause_frame[c] \in Nat /\ GoalAfter(c) \in Nat
    BY GoalAfterType DEF TypeOK, LoopTypeOK
  <2>2. simulation_goal'[c] = GoalAfter(c)
    BY <1>1 DEF TypeOK, MainTypeOK
  <2> QED BY <1>1, <2>1, <2>2 DEF Turn, TypeOK, LoopTypeOK
<1>3. \A d \in Clients \ {c} : Game'[d] = Game[d]
  <2>1. \A d \in Clients \ {c} :
          frame'[d] = frame[d] /\ pause_frame'[d] = pause_frame[d]
            /\ simulation_goal'[d] = simulation_goal[d]
    BY <1>1 DEF TypeOK, LoopTypeOK, MainTypeOK
  <2> QED BY <1>1, <2>1 DEF Game, Turn
<1>4. CASE running[c]
  <2>1. Game[c] = [on |-> TRUE, players |-> player_count[c], turn |-> Turn(c),
                   frame |-> frame[c], goal |-> simulation_goal[c]]
    BY <1>4 DEF Game
  <2>2. Game'[c] = [on |-> TRUE, players |-> player_count[c], turn |-> Turn(c)',
                    frame |-> frame'[c], goal |-> simulation_goal'[c]]
    BY <1>1, <1>4 DEF Game
  <2>3. GoalAfter(c) = TL!GoalOf(Game[c])
    BY <1>1, <1>4, GoalFromLog
  <2>4. Game'[c] = TL!After(Game[c])
    <3> DEFINE goal == TL!GoalOf(Game[c])
    <3>1. goal = GoalAfter(c)
      BY <2>3
    <3>2. TL!After(Game[c]) =
            [on |-> TRUE, players |-> Game[c].players, turn |-> Game[c].turn + 1,
             frame |-> IF goal > Game[c].frame THEN Game[c].frame + 1 ELSE Game[c].frame,
             goal |-> goal]
      BY DEF TL!After, TL!GameState
    <3> HIDE DEF goal
    <3> QED BY <1>2, <2>1, <2>2, <3>1, <3>2
  <2>5. Game' = [Game EXCEPT ![c] = TL!After(@)]
    BY <1>3, <2>4 DEF Game
  <2>6. \A p \in 0 .. Game[c].players - 1 : Game[c].turn < Len(Log[p])
    BY <1>1, <2>1, TurnCommands DEF TurnPlayers
  <2>7. Game[c].on
    BY <2>1
  <2> QED BY <2>5, <2>6, <2>7 DEF TL!Play, Log, Game
<1>5. CASE ~running[c]
  <2>1. Game'[c] = Game[c]
    BY <1>1, <1>5 DEF Game
  <2> QED BY <1>3, <2>1 DEF Game
<1> QED BY <1>4, <1>5

-----------------------------------------------------------------------------
(***************************************************************************)
(* The refinement.                                                         *)
(***************************************************************************)

\* Every step of the consoles and of the relay is a step of the abstract
\* game or leaves it alone.
LEMMA ImplementsStep ==
  TypeOK /\ LockstepInv /\ OneLog /\ Stopped /\ [Next]_vars
    => [TL!Next]_(TL!logVars)
<1> SUFFICES ASSUME TypeOK, LockstepInv, OneLog, Stopped, [Next]_vars
             PROVE  [TL!Next]_(TL!logVars)
  OBVIOUS
<1>a. ASSUME Log' = Log, Game' = Game PROVE [TL!Next]_(TL!logVars)
  BY <1>a DEF TL!logVars, Log, Game
<1>b. Clients = TL!Clients
  BY DEF Clients, TL!Clients
<1>c. ASSUME NEW c \in Clients, TL!Play(c) \/ TL!Stop(c) PROVE [TL!Next]_(TL!logVars)
  BY <1>b, <1>c DEF TL!Next
<1>d. ASSUME ~ \E c \in Clients : Send(c) PROVE Log' = Log
  BY <1>d, LogStep
<1>1. ASSUME NEW c \in Clients, Send(c) PROVE [TL!Next]_(TL!logVars)
  <2>1. Game' = Game
    BY <1>1, GameStays DEF Send, loopVars, mainVars
  <2>2. CASE Log' = Log
    BY <1>a, <2>1, <2>2
  <2>3. CASE \E d \in Clients, cmd \in Commands : Log' = [Log EXCEPT ![d] = Append(@, cmd)]
    <3>1. PICK d \in Clients, cmd \in Commands : Log' = [Log EXCEPT ![d] = Append(@, cmd)]
      BY <2>3
    <3>2. TL!Commit(d, cmd)
      BY <2>1, <3>1 DEF TL!Commit, Log, Game
    <3> QED BY <1>b, <3>2 DEF TL!Next
  <2> QED BY <2>2, <2>3, LogStep
<1> SUFFICES ASSUME ~ \E c \in Clients : Send(c) PROVE [TL!Next]_(TL!logVars)
  BY <1>1
<1>2. Log' = Log
  BY <1>d
<1>3. ASSUME NEW c \in Clients, (\E cmd \in Commands : InputLine(c, cmd)) \/ GameExit(c)
               \/ ConnectionIo(c) \/ ReceiveEnd(c) \/ Stall(c)
      PROVE  [TL!Next]_(TL!logVars)
  <2>1. UNCHANGED <<running, player_count, frame, pause_frame, simulation_goal>>
    BY <1>3 DEF InputLine, GameExit, ConnectionIo, ReceiveEnd, Stall, loopVars, mainVars
  <2> QED BY <1>2, <1>a, <2>1, GameStays
<1>4. ASSUME NEW c \in Clients, Reload(c) \/ Quit(c) \/ ConnectionTerm(c)
                                \/ \E p \in Clients : NewPlayer(c, p)
      PROVE  [TL!Next]_(TL!logVars)
  <2>1. /\ loop_halt(c) /\ UNCHANGED <<player_count, frame, pause_frame>>
        /\ \A d \in Clients \ {c} : simulation_goal'[d] = simulation_goal[d]
    BY <1>4 DEF Reload, Quit, ConnectionTerm, NewPlayer, mainVars, TypeOK, MainTypeOK
  <2> QED BY <1>2, <1>a, <1>c, <2>1, GameHalts
<1>5. ASSUME NEW c \in Clients, NEW p \in Clients, Receive(c, p)
      PROVE  [TL!Next]_(TL!logVars)
  <2>1. UNCHANGED <<running, player_count, frame, pause_frame, simulation_goal>>
    BY <1>5 DEF Receive, loopVars, mainVars
  <2> QED BY <1>2, <1>a, <2>1, GameStays
<1>6. ASSUME NEW c \in Clients, TakeTurn(c) PROVE [TL!Next]_(TL!logVars)
  BY <1>2, <1>6, <1>a, <1>c, TurnPlays
<1>7. ASSUME NEW c \in Clients, GameRestart(c) PROVE [TL!Next]_(TL!logVars)
  <2>1. PICK count \in 0 .. NumClients : count = Cardinality(known[c])
    BY CardinalityOfKnown DEF TypeOK, RecTypeOK
  <2>2. /\ ~running[c]
        /\ running' = [running EXCEPT ![c] = TRUE]
        /\ player_count' = [player_count EXCEPT ![c] = count]
        /\ frame' = [frame EXCEPT ![c] = 0]
        /\ pause_frame' = [pause_frame EXCEPT ![c] = 0]
        /\ simulation_goal' = [simulation_goal EXCEPT ![c] = 0]
    BY <1>7, <2>1 DEF GameRestart, EndRun, GoalAtStart, Stopped
  <2>3. Game'[c] = TL!GameState(count, 0, 0, 0) /\ ~Game[c].on
    BY <2>2 DEF Game, Turn, TL!GameState, TypeOK, LoopTypeOK, MainTypeOK
  <2>4. \A d \in Clients \ {c} : Game'[d] = Game[d]
    BY <2>2 DEF Game, Turn, TypeOK, LoopTypeOK, MainTypeOK
  <2>5. Game' = [Game EXCEPT ![c] = TL!GameState(count, 0, 0, 0)]
    BY <2>3, <2>4 DEF Game
  <2>6. TL!Start(c, count)
    BY <1>2, <2>3, <2>5 DEF TL!Start, Log, Game
  <2> QED BY <1>b, <2>6 DEF TL!Next
<1>8. ASSUME NEW p \in Clients, Relay(p) PROVE [TL!Next]_(TL!logVars)
  <2>1. UNCHANGED <<running, player_count, frame, pause_frame, simulation_goal>>
    BY <1>8 DEF Relay, loopVars, mainVars
  <2> QED BY <1>2, <1>a, <2>1, GameStays
<1>9. CASE UNCHANGED vars
  <2>1. UNCHANGED <<running, player_count, frame, pause_frame, simulation_goal>>
    BY <1>9 DEF vars, loopVars, mainVars
  <2> QED BY <1>2, <1>a, <2>1, GameStays
<1> QED BY <1>3, <1>4, <1>5, <1>6, <1>7, <1>8, <1>9 DEF Next, User, Console

\* The initial states.
LEMMA ImplementsInit == Init => OneLog /\ Stopped /\ TL!Init
<1> SUFFICES ASSUME Init PROVE OneLog /\ Stopped /\ TL!Init
  OBVIOUS
<1>1. OneLog /\ Stopped
  BY DEF Init, OneLog, Stopped
<1>2. Log = [p \in Clients |-> <<>>]
  <2>1. <<>> \o <<>> = <<>>
    BY ConcatEmptySeq, EmptySeq
  <2>2. \A p \in Clients : SharedLog(p) = (<<>> \o <<>>) \o <<>>
    BY DEF SharedLog, Init
  <2>3. \A p \in Clients : SharedLog(p) = <<>>
    BY <2>1, <2>2, Zenon
  <2> QED BY <2>3, Zenon DEF Log
<1>3. Game = [c \in Clients |-> TL!GameState(0, 0, 0, 0)]
  BY DEF Init, Game, Turn, TL!GameState
<1>4. TL!Init
  BY <1>2, <1>3 DEF TL!Init, TL!Clients, Clients, Log, Game
<1> QED BY <1>1, <1>4

\* The invariant that the refinement rests on.
LEMMA LogInvHolds == Spec => [](TypeOK /\ LockstepInv /\ OneLog /\ Stopped)
<1>1. Init => LockstepInv
  BY ConstantsAssumption
  DEF Init, LockstepInv, ReadBehindWrite, TurnCount, SentBound, TurnPlayers
<1> QED BY <1>1, TypeCorrect, ImplementsInit, LockstepInvStep, OneLogStep, StoppedStep, PTL
        DEF Spec

\* The consoles and the relay implement the abstract lockstep game: one log
\* per player that all consoles play from, whatever is lost, delayed,
\* reloaded or stalled, for any number of consoles.
THEOREM ImplementsTurnLogHolds == Spec => ImplementsTurnLog
BY LogInvHolds, ImplementsInit, ImplementsStep, PTL
DEF Spec, ImplementsTurnLog, TL!Spec

-----------------------------------------------------------------------------
(***************************************************************************)
(* Agreement.  It is not inductive: a console that is behind must reach    *)
(* the state that another one has left.  The games with k players are      *)
(* therefore compared with a transcript, a sequence of states that follow  *)
(* from the logs turn by turn and that covers every such game.             *)
(***************************************************************************)

\* TurnLog's After, for any logs L.
GoalIn(L, g) ==
  LET setters == {p \in 0 .. g.players - 1 : L[p][g.turn + 1] \in Goals}
  IN  IF setters = {} THEN g.goal
      ELSE L[CHOOSE p \in setters : \A q \in setters : q <= p][g.turn + 1]
AfterIn(L, g) ==
  [on |-> TRUE, players |-> g.players, turn |-> g.turn + 1,
   frame |-> IF GoalIn(L, g) > g.frame THEN g.frame + 1 ELSE g.frame,
   goal |-> GoalIn(L, g)]

\* G[0], ..., G[n] are the states of a game with k players.
Transcript(L, k, n, G) ==
  /\ \A p \in 0 .. k - 1 : n <= Len(L[p])
  /\ G[0] = [on |-> TRUE, players |-> k, turn |-> 0, frame |-> 0, goal |-> 0]
  /\ \A i \in 0 .. n : G[i].players = k /\ G[i].turn = i
  /\ \A i \in 0 .. n - 1 : G[i + 1] = AfterIn(L, G[i])

\* The games with k players are states of G[0], ..., G[n].
CoveredBy(k, n, G) ==
  \A c \in Clients :
    Game[c].on /\ Game[c].players = k
      => Game[c].turn \in 0 .. n /\ Game[c] = G[Game[c].turn]

Covered ==
  \A k \in 0 .. NumClients : \E n \in Nat : \E G :
    Transcript(Log, k, n, G) /\ CoveredBy(k, n, G)

\* A turn that is in the logs stays the same when the logs grow.
LEMMA TurnStable ==
  ASSUME NEW L, NEW M, NEW g, g.players \in Nat, g.turn \in Nat,
         \A p \in 0 .. g.players - 1 : L[p][g.turn + 1] = M[p][g.turn + 1]
  PROVE  AfterIn(L, g) = AfterIn(M, g)
<1> DEFINE A == {p \in 0 .. g.players - 1 : L[p][g.turn + 1] \in Goals}
           B == {p \in 0 .. g.players - 1 : M[p][g.turn + 1] \in Goals}
           last == CHOOSE p \in A : \A q \in A : q <= p
<1>1. A = B
  OBVIOUS
<1>2. GoalIn(L, g) = IF A = {} THEN g.goal ELSE L[last][g.turn + 1]
  BY DEF GoalIn
<1>3. GoalIn(M, g) = IF B = {} THEN g.goal
                     ELSE M[CHOOSE p \in B : \A q \in B : q <= p][g.turn + 1]
  BY DEF GoalIn
<1>4. GoalIn(M, g) = IF A = {} THEN g.goal ELSE M[last][g.turn + 1]
  BY <1>1, <1>3
<1>5. ASSUME A # {} PROVE L[last][g.turn + 1] = M[last][g.turn + 1]
  <2>1. A \subseteq 0 .. g.players
    OBVIOUS
  <2>2. \E m \in A : \A j \in A : j <= m
    <3> HIDE DEF A
    <3> QED BY <1>5, <2>1, MaxExists
  <2>3. last \in A
    BY <2>2, Zenon
  <2> HIDE DEF last
  <2> QED BY <2>3
<1>6. GoalIn(L, g) = GoalIn(M, g)
  <2> HIDE DEF A, last
  <2>1. CASE A = {}
    BY <1>2, <1>4, <2>1
  <2>2. CASE A # {}
    <3>1. L[last][g.turn + 1] = M[last][g.turn + 1]
      BY <1>5, <2>2
    <3> QED BY <1>2, <1>4, <2>2, <3>1
  <2> QED BY <2>1, <2>2
<1> QED BY <1>6, Zenon DEF AfterIn

\* So a transcript stays one.
LEMMA TranscriptStable ==
  ASSUME NEW L, NEW M, NEW k \in Nat, NEW n \in Nat, NEW G, Transcript(L, k, n, G),
         \A p \in 0 .. k - 1 :
           /\ Len(L[p]) \in Nat /\ Len(M[p]) \in Nat /\ Len(L[p]) <= Len(M[p])
           /\ \A i \in 1 .. Len(L[p]) : M[p][i] = L[p][i]
  PROVE  Transcript(M, k, n, G)
<1>1. \A p \in 0 .. k - 1 : n <= Len(M[p])
  BY DEF Transcript
<1>2. ASSUME NEW i \in 0 .. n - 1 PROVE G[i + 1] = AfterIn(M, G[i])
  <2>1. G[i + 1] = AfterIn(L, G[i]) /\ G[i].players = k /\ G[i].turn = i
    BY DEF Transcript
  <2>2. \A p \in 0 .. k - 1 : L[p][i + 1] = M[p][i + 1]
    <3> SUFFICES ASSUME NEW p \in 0 .. k - 1 PROVE L[p][i + 1] = M[p][i + 1]
      OBVIOUS
    <3>1. n <= Len(L[p]) /\ Len(L[p]) \in Nat
      BY DEF Transcript
    <3>2. i + 1 \in 1 .. Len(L[p])
      BY <3>1
    <3> QED BY <3>2
  <2>3. AfterIn(L, G[i]) = AfterIn(M, G[i])
    <3> DEFINE g == G[i]
    <3>1. g.players = k /\ g.turn = i
      BY <2>1
    <3> HIDE DEF g
    <3>2. /\ g.players \in Nat /\ g.turn \in Nat
          /\ \A p \in 0 .. g.players - 1 : L[p][g.turn + 1] = M[p][g.turn + 1]
      BY <2>2, <3>1
    <3>3. AfterIn(L, g) = AfterIn(M, g)
      BY <3>2, TurnStable, Zenon
    <3> QED BY <3>3 DEF g
  <2> QED BY <2>1, <2>3
<1> QED BY <1>1, <1>2 DEF Transcript

\* A transcript goes on when the logs have the next turn.
LEMMA TranscriptExtends ==
  ASSUME NEW L, NEW k \in Nat, NEW n \in Nat, NEW G, Transcript(L, k, n, G),
         \A p \in 0 .. k - 1 : Len(L[p]) \in Nat /\ n < Len(L[p])
  PROVE  \E H : /\ Transcript(L, k, n + 1, H)
                /\ \A i \in 0 .. n : H[i] = G[i]
<1> DEFINE H == [i \in 0 .. n + 1 |-> IF i <= n THEN G[i] ELSE AfterIn(L, G[n])]
<1>1. \A i \in 0 .. n : H[i] = G[i]
  OBVIOUS
<1>2. H[n + 1] = AfterIn(L, G[n])
  OBVIOUS
<1> HIDE DEF H
<1>3. \A p \in 0 .. k - 1 : n + 1 <= Len(L[p])
  OBVIOUS
<1>4. H[0] = [on |-> TRUE, players |-> k, turn |-> 0, frame |-> 0, goal |-> 0]
  <2>1. H[0] = G[0]
    BY <1>1
  <2> QED BY <2>1 DEF Transcript
<1>5. \A i \in 0 .. n + 1 : H[i].players = k /\ H[i].turn = i
  <2>1. \A i \in 0 .. n : H[i].players = k /\ H[i].turn = i
    BY <1>1 DEF Transcript
  <2>2. H[n + 1].players = k /\ H[n + 1].turn = n + 1
    BY <1>2 DEF Transcript, AfterIn
  <2> QED BY <2>1, <2>2
<1>6. \A i \in 0 .. (n + 1) - 1 : H[i + 1] = AfterIn(L, H[i])
  <2> SUFFICES ASSUME NEW i \in 0 .. n PROVE H[i + 1] = AfterIn(L, H[i])
    OBVIOUS
  <2>1. CASE i = n
    BY <1>1, <1>2, <2>1
  <2>2. CASE i # n
    <3>1. i \in 0 .. n - 1 /\ i + 1 \in 0 .. n
      BY <2>2
    <3>2. H[i + 1] = G[i + 1] /\ H[i] = G[i] /\ G[i + 1] = AfterIn(L, G[i])
      BY <1>1, <3>1 DEF Transcript
    <3> QED BY <3>2
  <2> QED BY <2>1, <2>2
<1>7. Transcript(L, k, n + 1, H)
  BY <1>3, <1>4, <1>5, <1>6 DEF Transcript
<1> QED BY <1>1, <1>7

\* What a step of the abstract game does to the logs and the games.
LEMMA AbstractCases ==
  ASSUME [TL!Next]_(TL!logVars)
  PROVE  \/ Log' = Log /\ Game' = Game
         \/ /\ Game' = Game
            /\ \E p \in Clients, cmd \in Commands : Log' = [Log EXCEPT ![p] = Append(@, cmd)]
         \/ /\ Log' = Log
            /\ \E c \in Clients :
                 /\ Game[c].on
                 /\ \A p \in 0 .. Game[c].players - 1 : Game[c].turn < Len(Log[p])
                 /\ Game' = [Game EXCEPT ![c] = AfterIn(Log, Game[c])]
         \/ /\ Log' = Log
            /\ \E c \in Clients : Game' = [Game EXCEPT ![c] = TL!Idle]
         \/ /\ Log' = Log
            /\ \E c \in Clients, k \in 0 .. NumClients :
                 Game' = [Game EXCEPT ![c] = TL!GameState(k, 0, 0, 0)]
<1>b. Clients = TL!Clients
  BY DEF Clients, TL!Clients
<1>1. ASSUME NEW p \in Clients, NEW cmd \in Commands, TL!Commit(p, cmd)
      PROVE  Game' = Game /\ Log' = [Log EXCEPT ![p] = Append(@, cmd)]
  BY <1>1 DEF TL!Commit, Log, Game
<1>2. ASSUME NEW c \in Clients, TL!Play(c)
      PROVE  /\ Log' = Log /\ Game[c].on
             /\ \A p \in 0 .. Game[c].players - 1 : Game[c].turn < Len(Log[p])
             /\ Game' = [Game EXCEPT ![c] = AfterIn(Log, Game[c])]
  <2>1. /\ Log' = Log /\ Game[c].on
        /\ \A p \in 0 .. Game[c].players - 1 : Game[c].turn < Len(Log[p])
        /\ Game' = [Game EXCEPT ![c] = TL!After(Game[c])]
    BY <1>2 DEF TL!Play, Log, Game
  <2>2. TL!GoalOf(Game[c]) = GoalIn(Log, Game[c])
    BY DEF TL!GoalOf, GoalIn, Log
  <2>3. TL!After(Game[c]) = AfterIn(Log, Game[c])
    BY <2>2 DEF TL!After, TL!GameState, AfterIn
  <2> QED BY <2>1, <2>3
<1>3. ASSUME NEW c \in Clients, TL!Stop(c)
      PROVE  Log' = Log /\ Game' = [Game EXCEPT ![c] = TL!Idle]
  BY <1>3 DEF TL!Stop, Log, Game
<1>4. ASSUME NEW c \in Clients, NEW k \in 0 .. NumClients, TL!Start(c, k)
      PROVE  Log' = Log /\ Game' = [Game EXCEPT ![c] = TL!GameState(k, 0, 0, 0)]
  BY <1>4 DEF TL!Start, Log, Game
<1>5. ASSUME UNCHANGED TL!logVars PROVE Log' = Log /\ Game' = Game
  BY <1>5 DEF TL!logVars, Log, Game
<1>6. CASE \E p \in Clients, cmd \in Commands : TL!Commit(p, cmd)
  BY <1>1, <1>6
<1>7. CASE \E c \in Clients : TL!Play(c)
  BY <1>2, <1>7
<1>8. CASE \E c \in Clients : TL!Stop(c)
  BY <1>3, <1>8
<1>9. CASE \E c \in Clients, k \in 0 .. NumClients : TL!Start(c, k)
  BY <1>4, <1>9
<1>10. CASE UNCHANGED TL!logVars
  BY <1>5, <1>10
<1> QED BY <1>b, <1>6, <1>7, <1>8, <1>9, <1>10 DEF TL!Next

\* The logs and the games have their types.
LEMMA LogGameType ==
  ASSUME TypeOK
  PROVE  /\ Log \in [Clients -> Seq(Commands)]
         /\ DOMAIN Game = Clients /\ Game = [c \in Clients |-> Game[c]]
         /\ \A c \in Clients : Game[c].on =>
              Game[c].players \in 0 .. NumClients /\ Game[c].turn \in Nat
<1>1. \A p \in Clients : SharedLog(p) \in Seq(Commands)
  <2> SUFFICES ASSUME NEW p \in Clients PROVE SharedLog(p) \in Seq(Commands)
    OBVIOUS
  <2> DEFINE a == rec[p][p]
             b == inbox[p][p]
             o == outbox[p]
  <2>1. a \in Seq(Commands) /\ b \in Seq(Commands) /\ o \in Seq(Commands)
    BY DEF TypeOK, RecTypeOK, NetTypeOK
  <2> HIDE DEF a, b, o
  <2>2. a \o b \in Seq(Commands)
    BY <2>1, ConcatProperties
  <2>3. (a \o b) \o o \in Seq(Commands)
    BY <2>1, <2>2, ConcatProperties
  <2> QED BY <2>3 DEF a, b, o, SharedLog
<1>2. Log \in [Clients -> Seq(Commands)]
  BY <1>1 DEF Log
<1>3. DOMAIN Game = Clients /\ Game = [c \in Clients |-> Game[c]]
  BY DEF Game
<1>4. ASSUME NEW c \in Clients, Game[c].on
      PROVE  Game[c].players \in 0 .. NumClients /\ Game[c].turn \in Nat
  <2>1. CASE running[c]
    BY <2>1 DEF Game, Turn, TypeOK, LoopTypeOK, MainTypeOK
  <2>2. CASE ~running[c]
    BY <1>4, <2>2 DEF Game
  <2> QED BY <2>1, <2>2
<1> QED BY <1>2, <1>3, <1>4

\* Every step keeps the games covered.
LEMMA CoveredStep ==
  TypeOK /\ Covered /\ [TL!Next]_(TL!logVars) => Covered'
<1> SUFFICES ASSUME TypeOK, Covered, [TL!Next]_(TL!logVars), NEW k \in 0 .. NumClients
             PROVE  \E n \in Nat : \E G : Transcript(Log', k, n, G) /\ CoveredBy(k, n, G)'
  BY DEF Covered
<1>1. PICK n \in Nat : \E G : Transcript(Log, k, n, G) /\ CoveredBy(k, n, G)
  BY DEF Covered
<1>2. PICK G : Transcript(Log, k, n, G) /\ CoveredBy(k, n, G)
  BY <1>1
<1>3. /\ k \in Nat /\ 0 .. k - 1 \subseteq Clients
      /\ \A p \in 0 .. k - 1 : Log[p] \in Seq(Commands) /\ Len(Log[p]) \in Nat
  <2>1. k \in Nat /\ 0 .. k - 1 \subseteq Clients
    BY ConstantsAssumption DEF Clients
  <2> QED BY <2>1, LogGameType, LenProperties
<1>4. CASE Log' = Log /\ Game' = Game
  BY <1>2, <1>4 DEF CoveredBy
<1>5. CASE /\ Game' = Game
           /\ \E p \in Clients, cmd \in Commands : Log' = [Log EXCEPT ![p] = Append(@, cmd)]
  <2>1. PICK p \in Clients, cmd \in Commands : Log' = [Log EXCEPT ![p] = Append(@, cmd)]
    BY <1>5
  <2>2. \A q \in 0 .. k - 1 :
          /\ Len(Log[q]) \in Nat /\ Len(Log'[q]) \in Nat /\ Len(Log[q]) <= Len(Log'[q])
          /\ \A i \in 1 .. Len(Log[q]) : Log'[q][i] = Log[q][i]
    <3> SUFFICES ASSUME NEW q \in 0 .. k - 1
                 PROVE  /\ Len(Log[q]) \in Nat /\ Len(Log'[q]) \in Nat
                        /\ Len(Log[q]) <= Len(Log'[q])
                        /\ \A i \in 1 .. Len(Log[q]) : Log'[q][i] = Log[q][i]
      OBVIOUS
    <3>1. q \in Clients /\ Log[q] \in Seq(Commands) /\ Len(Log[q]) \in Nat
      BY <1>3
    <3>2. Log'[q] = Log[q] \/ Log'[q] = Append(Log[q], cmd)
      BY <2>1, <3>1, LogGameType
    <3>3. /\ Len(Append(Log[q], cmd)) = Len(Log[q]) + 1
          /\ \A i \in 1 .. Len(Log[q]) : Append(Log[q], cmd)[i] = Log[q][i]
      BY <3>1, AppendProperties
    <3> QED BY <3>1, <3>2, <3>3
  <2>3. Transcript(Log', k, n, G)
    <3> DEFINE L == Log
               M == Log'
    <3> HIDE DEF L, M
    <3>1. /\ Transcript(L, k, n, G)
          /\ \A q \in 0 .. k - 1 :
               /\ Len(L[q]) \in Nat /\ Len(M[q]) \in Nat /\ Len(L[q]) <= Len(M[q])
               /\ \A i \in 1 .. Len(L[q]) : M[q][i] = L[q][i]
      BY <1>2, <2>2 DEF L, M
    <3>2. Transcript(M, k, n, G)
      BY <1>3, <3>1, TranscriptStable
    <3> QED BY <3>2 DEF M
  <2>4. CoveredBy(k, n, G)'
    BY <1>2, <1>5 DEF CoveredBy
  <2> QED BY <2>3, <2>4
<1>6. CASE /\ Log' = Log
           /\ \E c \in Clients :
                /\ Game[c].on
                /\ \A p \in 0 .. Game[c].players - 1 : Game[c].turn < Len(Log[p])
                /\ Game' = [Game EXCEPT ![c] = AfterIn(Log, Game[c])]
  <2>1. PICK c \in Clients :
          /\ Game[c].on
          /\ \A p \in 0 .. Game[c].players - 1 : Game[c].turn < Len(Log[p])
          /\ Game' = [Game EXCEPT ![c] = AfterIn(Log, Game[c])]
    BY <1>6
  <2>2. /\ Game'[c] = AfterIn(Log, Game[c])
        /\ \A d \in Clients \ {c} : Game'[d] = Game[d]
    BY <2>1, LogGameType
  <2>3. /\ Game'[c].players = Game[c].players
        /\ Game'[c].turn = Game[c].turn + 1
    BY <2>2 DEF AfterIn
  <2>4. CASE Game[c].players # k
    <3>1. CoveredBy(k, n, G)'
      BY <1>2, <2>2, <2>3, <2>4 DEF CoveredBy
    <3> QED BY <1>2, <1>6, <3>1
  <2>5. CASE Game[c].players = k
    <3> DEFINE t == Game[c].turn
    <3>1. t \in 0 .. n /\ Game[c] = G[t]
      BY <1>2, <2>1, <2>5 DEF CoveredBy
    <3>2. CASE t < n
      <4>1. t \in 0 .. n - 1 /\ t + 1 \in 0 .. n
        BY <3>1, <3>2
      <4>2. G[t + 1] = AfterIn(Log, G[t])
        BY <1>2, <4>1 DEF Transcript
      <4>3. Game'[c] = G[t + 1] /\ Game'[c].turn = t + 1
        BY <2>2, <2>3, <3>1, <4>2
      <4>4. CoveredBy(k, n, G)'
        BY <1>2, <2>2, <4>1, <4>3 DEF CoveredBy
      <4> QED BY <1>2, <1>6, <4>4
    <3>3. CASE t = n
      <4>1. \A p \in 0 .. k - 1 : Len(Log[p]) \in Nat /\ n < Len(Log[p])
        BY <1>3, <2>1, <2>5, <3>3
      <4>2. PICK H : /\ Transcript(Log, k, n + 1, H)
                     /\ \A i \in 0 .. n : H[i] = G[i]
        <5>1. PICK L : L = Log
          OBVIOUS
        <5>2. Transcript(L, k, n, G)
          BY <1>2, <5>1
        <5>3. \A p \in 0 .. k - 1 : Len(L[p]) \in Nat /\ n < Len(L[p])
          BY <4>1, <5>1
        <5>4. k \in Nat
          BY <1>3
        <5>5. \E H : /\ Transcript(L, k, n + 1, H)
                     /\ \A i \in 0 .. n : H[i] = G[i]
          BY <5>2, <5>3, <5>4, TranscriptExtends
        <5> QED BY <5>1, <5>5
      <4>3. H[n + 1] = AfterIn(Log, H[n])
        BY <4>2 DEF Transcript
      <4>4. Game'[c] = H[n + 1] /\ Game'[c].turn = n + 1
        BY <2>2, <2>3, <3>1, <3>3, <4>2, <4>3
      <4>5. \A d \in Clients \ {c} :
              Game[d].on /\ Game[d].players = k
                => Game[d].turn \in 0 .. n + 1 /\ Game[d] = H[Game[d].turn]
        BY <1>2, <4>2 DEF CoveredBy
      <4>6. CoveredBy(k, n + 1, H)'
        BY <2>2, <4>4, <4>5 DEF CoveredBy
      <4>7. Transcript(Log', k, n + 1, H)
        BY <1>6, <4>2
      <4> QED BY <4>6, <4>7
    <3> QED BY <3>1, <3>2, <3>3
  <2> QED BY <2>4, <2>5
<1>7. CASE /\ Log' = Log
           /\ \E c \in Clients : Game' = [Game EXCEPT ![c] = TL!Idle]
  <2>1. PICK c \in Clients : Game' = [Game EXCEPT ![c] = TL!Idle]
    BY <1>7
  <2>2. ~Game'[c].on /\ \A d \in Clients \ {c} : Game'[d] = Game[d]
    BY <2>1, LogGameType DEF TL!Idle
  <2>3. CoveredBy(k, n, G)'
    BY <1>2, <2>2 DEF CoveredBy
  <2> QED BY <1>2, <1>7, <2>3
<1>8. CASE /\ Log' = Log
           /\ \E c \in Clients, j \in 0 .. NumClients :
                Game' = [Game EXCEPT ![c] = TL!GameState(j, 0, 0, 0)]
  <2>1. PICK c \in Clients, j \in 0 .. NumClients :
          Game' = [Game EXCEPT ![c] = TL!GameState(j, 0, 0, 0)]
    BY <1>8
  <2>2. /\ Game'[c] = [on |-> TRUE, players |-> j, turn |-> 0, frame |-> 0, goal |-> 0]
        /\ \A d \in Clients \ {c} : Game'[d] = Game[d]
    BY <2>1, LogGameType DEF TL!GameState
  <2>3. j = k => Game'[c] = G[0]
    BY <1>2, <2>2 DEF Transcript
  <2>4. Game'[c].players = j /\ Game'[c].turn = 0 /\ 0 \in 0 .. n
    BY <2>2
  <2>5. CoveredBy(k, n, G)'
    BY <1>2, <2>2, <2>3, <2>4 DEF CoveredBy
  <2> QED BY <1>2, <1>8, <2>5
<1> QED BY <1>4, <1>5, <1>6, <1>7, <1>8, AbstractCases

\* The games are covered by transcripts in every reachable state.
LEMMA CoveredHolds == Spec => []Covered
<1>1. Init => Covered
  <2> SUFFICES ASSUME Init, NEW k \in 0 .. NumClients
               PROVE  \E n \in Nat : \E G : Transcript(Log, k, n, G) /\ CoveredBy(k, n, G)
    BY DEF Covered
  <2> DEFINE G == [i \in {0} |->
                     [on |-> TRUE, players |-> k, turn |-> 0, frame |-> 0, goal |-> 0]]
  <2>1. \A p \in 0 .. k - 1 : Log[p] = <<>>
    <3>1. TL!Init
      BY ImplementsInit
    <3>2. Log = [p \in Clients |-> <<>>]
      BY <3>1 DEF TL!Init, Log, TL!Clients, Clients
    <3> QED BY <3>2, ConstantsAssumption DEF Clients
  <2>2. Transcript(Log, k, 0, G)
    BY <2>1 DEF Transcript
  <2>3. CoveredBy(k, 0, G)
    <3>1. \A c \in Clients :
            Game[c] = [on |-> TRUE, players |-> 0, turn |-> 0, frame |-> 0, goal |-> 0]
      BY DEF Game, Turn, Init
    <3>2. G[0] = [on |-> TRUE, players |-> k, turn |-> 0, frame |-> 0, goal |-> 0]
      OBVIOUS
    <3>3. ASSUME NEW c \in Clients, Game[c].players = k
          PROVE  Game[c].turn = 0 /\ Game[c] = G[0]
      <4>1. k = 0
        BY <3>1, <3>3
      <4> HIDE DEF G
      <4> QED BY <3>1, <3>2, <4>1
    <3> HIDE DEF G
    <3> QED BY <3>3 DEF CoveredBy
  <2> HIDE DEF G
  <2> QED BY <2>2, <2>3
<1>2. TypeOK /\ LockstepInv /\ OneLog /\ Stopped /\ Covered /\ [Next]_vars => Covered'
  BY ImplementsStep, CoveredStep
<1> QED BY <1>1, <1>2, LogInvHolds, PTL DEF Spec

\* The records of a player that two consoles have read as far as turn t.
LEMMA SameCommands ==
  ASSUME TypeOK, OneLog, NEW c \in Clients, NEW d \in Clients, NEW p \in Clients,
         NEW t \in Nat, t <= Len(rec[c][p]), t <= Len(rec[d][p])
  PROVE  SubSeq(rec[c][p], 1, t) = SubSeq(rec[d][p], 1, t)
<1> DEFINE a == rec[c][p]
           b == rec[d][p]
<1>1. a \in Seq(Commands) /\ b \in Seq(Commands) /\ Len(a) \in Nat /\ Len(b) \in Nat
  BY Lengths DEF TypeOK, RecTypeOK
<1>2. \A i \in 1 .. t : a[i] = b[i]
  <2> SUFFICES ASSUME NEW i \in 1 .. t PROVE a[i] = b[i]
    OBVIOUS
  <2>1. i \in 1 .. Len(rec[c][p]) /\ i \in 1 .. Len(rec[d][p])
    BY <1>1
  <2>2. rec[c][p][i] = Log[p][i] /\ rec[d][p][i] = Log[p][i]
    BY <2>1, RecordedIsLogged
  <2> QED BY <2>2
<1>3. t <= Len(a) /\ t <= Len(b)
  OBVIOUS
<1> HIDE DEF a, b
<1>4. SubSeq(a, 1, t) = SubSeq(b, 1, t)
  BY <1>1, <1>2, <1>3
<1> QED BY <1>4 DEF a, b

\* Running consoles with as many players that took as many turns executed
\* the same commands, simulated the same frames and have the same goal, for
\* any number of consoles, however often each of them started over.
THEOREM AgreementHolds == Spec => []Agreement
<1>1. TypeOK /\ LockstepInv /\ OneLog /\ Stopped /\ Covered => Agreement
  <2> SUFFICES ASSUME TypeOK, LockstepInv, OneLog, Stopped, Covered,
                      NEW c \in Clients, NEW d \in Clients, running[c], running[d],
                      player_count[c] = player_count[d], Turn(c) = Turn(d)
               PROVE  /\ frame[c] = frame[d]
                      /\ simulation_goal[c] = simulation_goal[d]
                      /\ \A p \in TurnPlayers(c) :
                           SubSeq(rec[c][p], 1, Turn(c)) = SubSeq(rec[d][p], 1, Turn(d))
    BY DEF Agreement
  <2>1. /\ Game[c] = [on |-> TRUE, players |-> player_count[c], turn |-> Turn(c),
                      frame |-> frame[c], goal |-> simulation_goal[c]]
        /\ Game[d] = [on |-> TRUE, players |-> player_count[d], turn |-> Turn(d),
                      frame |-> frame[d], goal |-> simulation_goal[d]]
    BY DEF Game
  <2>2. player_count[c] \in 0 .. NumClients
    BY DEF TypeOK, MainTypeOK
  <2>3. PICK n \in Nat : \E G : Transcript(Log, player_count[c], n, G)
                                /\ CoveredBy(player_count[c], n, G)
    BY <2>2 DEF Covered
  <2>4. PICK G : CoveredBy(player_count[c], n, G)
    BY <2>3
  <2>5. Game[c] = G[Turn(c)] /\ Game[d] = G[Turn(d)]
    BY <2>1, <2>4 DEF CoveredBy
  <2>6. Game[c] = Game[d]
    BY <2>5
  <2>7. frame[c] = frame[d] /\ simulation_goal[c] = simulation_goal[d]
    BY <2>1, <2>6
  <2>8. ASSUME NEW p \in TurnPlayers(c)
        PROVE  SubSeq(rec[c][p], 1, Turn(c)) = SubSeq(rec[d][p], 1, Turn(d))
    <3>1. p \in Clients /\ p \in TurnPlayers(d) /\ pc[c] # "done" /\ pc[d] # "done"
      BY TurnPlayersAreClients DEF TurnPlayers, Stopped
    <3>2. read[c][p] = Turn(c) /\ read[d][p] = Turn(d)
      BY <3>1 DEF LockstepInv, TurnCount
    <3>3. Turn(c) \in Nat /\ Turn(c) <= Len(rec[c][p]) /\ Turn(c) <= Len(rec[d][p])
      BY <3>1, <3>2, SMTT(30) DEF LockstepInv, ReadBehindWrite, Turn, TypeOK, LoopTypeOK
    <3>4. SubSeq(rec[c][p], 1, Turn(c)) = SubSeq(rec[d][p], 1, Turn(c))
      BY <3>1, <3>3, SameCommands
    <3> QED BY <3>4
  <2> QED BY <2>7, <2>8
<1> QED BY <1>1, LogInvHolds, CoveredHolds, PTL
=============================================================================
