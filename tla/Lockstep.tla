------------------------------ MODULE Lockstep ------------------------------
(***************************************************************************)
(* The lockstep game loop: main.c's game_simulation and main, loop.c's     *)
(* frame counters, connection.c's connection_sync, and the relay that      *)
(* echoes every command to every console.                                  *)
(*                                                                         *)
(* One console process per element of Clients; console c plays as player   *)
(* number c.  With one client the relay is network_server.c, the thread    *)
(* that echoes the console's own commands as player 0.  With more it is    *)
(* the game host that connection_init dials, which is not in this          *)
(* repository: it is modelled by what connection_processing relies on,     *)
(* that every console receives every player's commands in the order in     *)
(* which that player sent them, from the first one on.                     *)
(*                                                                         *)
(* A record (record.c) is the sequence of its commands here and an offset  *)
(* is its command_count; module Record has the bytes.  A socket carries    *)
(* whole messages here; module Relay has the bytes.  A command is Empty,   *)
(* a "simulation" command represented by its goal, or another command.     *)
(* stall_frame and the other statistics are only printed: left out.        *)
(***************************************************************************)
EXTENDS Naturals, Sequences, FiniteSets

CONSTANTS
  NumClients,   \* number of consoles; MAX_PLAYER in the code is 4
  Framerate,    \* the -f option of each console: its input queue length
  Goals,        \* the goals a simulation command may carry
  Others,       \* the other commands a player may type
  Empty,        \* the command that fills a turn without input
  SockCap,      \* messages the socket from a console to the relay holds
  Leavers,      \* the consoles whose player quits or whose connection breaks
  MaxTurns,     \* bound: turns a run of the game loop may take
  MaxInput,     \* bound: a line is typed only below this many recorded commands
  ReloadRuns    \* bound: the runs of each console in which it may be reloaded

Clients == 0 .. NumClients - 1
Commands == {Empty} \cup Goals \cup Others

ASSUME ConstantsAssumption ==
  /\ NumClients \in Nat \ {0}
  /\ Framerate \in [Clients -> Nat \ {0}]
  /\ Goals \subseteq Nat
  /\ SockCap \in Nat
  /\ Leavers \subseteq Clients
  /\ MaxTurns \in Nat /\ MaxInput \in Nat
  /\ ReloadRuns \in [Clients -> SUBSET Nat]

VARIABLES
  pc,               \* where each console's main thread is
  running,          \* loop.c: the loop condition
  frame,            \* loop.c: simulated frames of this run
  pause_frame,      \* loop.c: paused frames of this run
  input_queue,      \* loop.c: how far ahead of the turn input is sent
  run_count,        \* loop.c: runs finished
  exiting,          \* main.c: leave after this run
  simulation_goal,  \* main.c: simulate until this frame
  player_count,     \* game_simulation: players of this run
  input,            \* input_rw.rec: every command this console recorded
  input_read,       \* input_rw.read.command_count: commands sent
  known,            \* players p whose game_record[p].rec is allocated
  rec,              \* game_record[p].rec
  read,             \* game_record[p].read.command_count
  buffering,        \* connection.c: a write was cut short
  outbox,           \* messages in the socket from console to relay
  inbox             \* messages of each player on their way to a console

loopVars == <<running, frame, pause_frame, input_queue, run_count>>
mainVars == <<exiting, simulation_goal, player_count>>
recVars  == <<input, input_read, known, rec, read>>
netVars  == <<buffering, outbox, inbox>>
vars == <<pc, loopVars, mainVars, recVars, netVars>>

Goto(c, label) == pc' = [pc EXCEPT ![c] = label]

(***************************************************************************)
(* main and the entry of game_simulation.                                  *)
(***************************************************************************)

\* Every console is connected and has entered its first run: loop_init has
\* set the counters, no record of the game is allocated yet.  A console that
\* joins late is one that is slow to take its first step.
Init ==
  /\ pc = [c \in Clients |-> "poll"]
  /\ running = [c \in Clients |-> TRUE]
  /\ frame = [c \in Clients |-> 0]
  /\ pause_frame = [c \in Clients |-> 0]
  /\ input_queue = Framerate
  /\ run_count = [c \in Clients |-> 0]
  /\ exiting = [c \in Clients |-> FALSE]
  /\ simulation_goal = [c \in Clients |-> 0]
  /\ player_count = [c \in Clients |-> 0]
  /\ input = [c \in Clients |-> <<>>]
  /\ input_read = [c \in Clients |-> 0]
  /\ known = [c \in Clients |-> {}]
  /\ rec = [c \in Clients |-> [p \in Clients |-> <<>>]]
  /\ read = [c \in Clients |-> [p \in Clients |-> 0]]
  /\ buffering = [c \in Clients |-> FALSE]
  /\ outbox = [c \in Clients |-> <<>>]
  /\ inbox = [c \in Clients |-> [p \in Clients |-> <<>>]]

\* main rewinds every game record after a run.
\* As a mutant: the records are not rewound.
KeptReads(c) == read[c]
RewoundReads(c) == [p \in Clients |-> 0]

\* The loop ended: loop_shutdown, and main rewinds the game records.
EndRun(c) ==
  /\ pc[c] = "stop"
  /\ run_count' = [run_count EXCEPT ![c] = @ + 1]
  /\ read' = [read EXCEPT ![c] = RewoundReads(c)]

\* Every run starts paused.
\* As a mutant: the goal of the run before survives a restart.
OldGoal(c) == simulation_goal[c]
GoalAtStart(c) == 0

\* main calls game_simulation again: player_count is fixed for the run and
\* loop_init starts the counters over.  Input, records and sockets stay.
GameRestart(c) ==
  /\ EndRun(c)
  /\ ~exiting[c]
  /\ player_count' = [player_count EXCEPT ![c] = Cardinality(known[c])]
  /\ frame' = [frame EXCEPT ![c] = 0]
  /\ pause_frame' = [pause_frame EXCEPT ![c] = 0]
  /\ input_queue' = [input_queue EXCEPT ![c] = Framerate[c]]
  /\ running' = [running EXCEPT ![c] = TRUE]
  /\ simulation_goal' = [simulation_goal EXCEPT ![c] = GoalAtStart(c)]
  /\ Goto(c, "poll")
  /\ UNCHANGED <<exiting, input, input_read, known, rec, netVars>>

\* main leaves its loop, saves the records and closes the connection.
GameExit(c) ==
  /\ EndRun(c)
  /\ exiting[c]
  /\ Goto(c, "done")
  /\ UNCHANGED <<running, frame, pause_frame, input_queue, mainVars,
                 input, input_read, known, rec, netVars>>

\* loop_halt: the loop ends at its next head.
\* As a mutant: the loop goes on.
LoopKeeps(c) == UNCHANGED running
loop_halt(c) == running' = [running EXCEPT ![c] = FALSE]

\* loop_run at the head of the loop, and the continue statements.
LoopHead(c) == Goto(c, IF running[c] THEN "poll" ELSE "stop")

(***************************************************************************)
(* Callbacks of notify_poll and input_poll.  A poll delivers any number    *)
(* of lines and events before the loop goes on.                            *)
(***************************************************************************)

\* input_callback for a synchronized command: it is recorded.
InputLine(c, cmd) ==
  /\ pc[c] = "poll"
  /\ Len(input[c]) < MaxInput
  /\ input' = [input EXCEPT ![c] = Append(@, cmd)]
  /\ UNCHANGED <<pc, loopVars, mainVars, input_read, known, rec, read, netVars>>

\* input_callback for "!r", and notify_callback when the library changed.
Reload(c) ==
  /\ pc[c] = "poll"
  /\ run_count[c] \in ReloadRuns[c]
  /\ simulation_goal' = [simulation_goal EXCEPT ![c] = 0]
  /\ loop_halt(c)
  /\ UNCHANGED <<pc, frame, pause_frame, input_queue, run_count, exiting,
                 player_count, recVars, netVars>>

\* input_callback for "!q".
Quit(c) ==
  /\ pc[c] = "poll"
  /\ c \in Leavers
  /\ simulation_goal' = [simulation_goal EXCEPT ![c] = 0]
  /\ exiting' = [exiting EXCEPT ![c] = TRUE]
  /\ loop_halt(c)
  /\ UNCHANGED <<pc, frame, pause_frame, input_queue, run_count,
                 player_count, recVars, netVars>>

Turn(c) == frame[c] + pause_frame[c]

\* The frame up to which input is recorded and sent.
\* As a mutant: input is not sent ahead of its turn.
WriteFrameWithoutQueue(c) == Turn(c)
loop_write_frame(c) == Turn(c) + input_queue[c]

\* Turns up to loop_write_frame that have no input yet.
\* As a mutant: the last of them is forgotten.
MissingButLast(c) ==
  IF loop_write_frame(c) > Len(input[c]) + 1
    THEN loop_write_frame(c) - Len(input[c]) - 1 ELSE 0
Missing(c) ==
  IF loop_write_frame(c) > Len(input[c])
    THEN loop_write_frame(c) - Len(input[c]) ELSE 0

\* The polls are over: the missing turns are filled with empty commands.
FillInput(c) ==
  /\ pc[c] = "poll"
  /\ Turn(c) < MaxTurns \/ ~running[c]
  /\ input' = [input EXCEPT ![c] = @ \o [i \in 1 .. Missing(c) |-> Empty]]

(***************************************************************************)
(* connection_sync.                                                        *)
(***************************************************************************)

\* connection_io finds the socket writable; what it reads is processed.
ConnectionIo(c) ==
  /\ FillInput(c)
  /\ Len(outbox[c]) < SockCap
  /\ Goto(c, "recv")
  /\ UNCHANGED <<loopVars, mainVars, input_read, known, rec, read, netVars>>

\* record_read finds no command for the frame that is due.
Corrupt(c) ==
  /\ pc[c] = "send"
  /\ loop_write_frame(c) > input_read[c]
  /\ input_read[c] >= Len(input[c])

\* connection_io fails, as the socket cannot be written or the peer is gone
\* (CONN_TERM), or the input record is exhausted (CONN_CORRUPT): halt, leave.
ConnectionTerm(c) ==
  /\ IF Corrupt(c)
       THEN UNCHANGED input
       ELSE FillInput(c) /\ (c \in Leavers \/ Len(outbox[c]) >= SockCap)
  /\ loop_halt(c)
  /\ exiting' = [exiting EXCEPT ![c] = TRUE]
  /\ Goto(c, "stop")
  /\ UNCHANGED <<frame, pause_frame, input_queue, run_count, simulation_goal,
                 player_count, input_read, known, rec, read, netVars>>

\* connection_processing on a message of a player already known: the
\* command is recorded and leaves the receive buffer.
Receive(c, p) ==
  /\ pc[c] = "recv"
  /\ inbox[c][p] # <<>>
  /\ p \in known[c]
  /\ rec' = [rec EXCEPT ![c][p] = Append(@, Head(inbox[c][p]))]
  /\ inbox' = [inbox EXCEPT ![c][p] = Tail(@)]
  /\ UNCHANGED <<pc, loopVars, mainVars, input, input_read, known, read,
                 buffering, outbox>>

\* What the receive buffer keeps when a player's record is allocated.
\* As a mutant: the message is dropped with the return.
MessageDropped(c, p) == Tail(inbox[c][p])
MessageKept(c, p) == inbox[c][p]

\* connection_processing on the first message of a player: its record is
\* allocated and the message stays in the buffer.  CONN_CHANGE: halt.
NewPlayer(c, p) ==
  /\ pc[c] = "recv"
  /\ inbox[c][p] # <<>>
  /\ p \notin known[c]
  /\ known' = [known EXCEPT ![c] = @ \cup {p}]
  /\ inbox' = [inbox EXCEPT ![c][p] = MessageKept(c, p)]
  /\ loop_halt(c)
  /\ Goto(c, "stop")
  /\ UNCHANGED <<frame, pause_frame, input_queue, run_count, mainVars,
                 input, input_read, rec, read, buffering, outbox>>

\* The receive buffer holds no further message.
ReceiveEnd(c) ==
  /\ pc[c] = "recv"
  /\ Goto(c, "send")
  /\ UNCHANGED <<loopVars, mainVars, recVars, netVars>>

\* One command of the input record is written to the non-blocking socket.
\* A full socket loses it: only buffering remembers.
Send(c) ==
  /\ pc[c] = "send"
  /\ loop_write_frame(c) > input_read[c]
  /\ input_read[c] < Len(input[c])
  /\ input_read' = [input_read EXCEPT ![c] = @ + 1]
  /\ \/ /\ Len(outbox[c]) < SockCap
        /\ outbox' = [outbox EXCEPT ![c] = Append(@, input[c][input_read[c] + 1])]
        /\ UNCHANGED buffering
     \/ /\ Len(outbox[c]) >= SockCap
        /\ buffering' = [buffering EXCEPT ![c] = TRUE]
        /\ UNCHANGED outbox
  /\ UNCHANGED <<pc, loopVars, mainVars, input, known, rec, read, inbox>>

(***************************************************************************)
(* The turn: preview, read one command per player, execute, advance.       *)
(***************************************************************************)

\* connection_sync sent everything due and returned CONN_OK.
Synced(c) == pc[c] = "send" /\ loop_write_frame(c) <= input_read[c]

\* The loop over players walks the first player_count entries of the array.
TurnPlayers(c) == 0 .. player_count[c] - 1

\* record_can_playback for the next command of a player.
HasCommand(c, i) == read[c][i] < Len(rec[c][i])

\* command_preview: the players whose next command has not arrived.
\* turn_nearest is 0 exactly when there is one, as Framerate is not 0.
\* As a mutant: turn_farthest decides, the last player to wait.
WaitingFarthest(c) ==
  IF \E i \in TurnPlayers(c) : HasCommand(c, i) THEN {} ELSE TurnPlayers(c)
Waiting(c) == {i \in TurnPlayers(c) : Len(rec[c][i]) = read[c][i]}

\* The input queue grows on a stall, up to input_queue_max.
\* As a mutant: without the bound.
QueueUnbounded(c) == input_queue[c] + 1
QueueAfterStall(c) ==
  IF input_queue[c] + 1 < Framerate[c] THEN input_queue[c] + 1 ELSE Framerate[c]

\* loop_stall: a player's command is missing, the turn is tried again.
Stall(c) ==
  /\ Synced(c)
  /\ Waiting(c) # {}
  /\ input_queue' = [input_queue EXCEPT ![c] = QueueAfterStall(c)]
  /\ LoopHead(c)
  /\ UNCHANGED <<running, frame, pause_frame, run_count, mainVars, recVars, netVars>>

\* command_frame: record_read of a player's record.
NextCommand(c, i) == IF HasCommand(c, i) THEN rec[c][i][read[c][i] + 1] ELSE Empty

ReadsAfterTurn(c) ==
  [p \in Clients |-> IF p \in TurnPlayers(c) /\ HasCommand(c, p)
                       THEN read[c][p] + 1 ELSE read[c][p]]

\* execute_any over the players in order: the last simulation command wins.
\* As a mutant: the first one wins.
GoalOfFirst(c) ==
  LET setters == {i \in TurnPlayers(c) : NextCommand(c, i) \in Goals}
  IN  IF setters = {} THEN simulation_goal[c]
      ELSE NextCommand(c, CHOOSE i \in setters : \A j \in setters : i <= j)
GoalAfter(c) ==
  LET setters == {i \in TurnPlayers(c) : NextCommand(c, i) \in Goals}
  IN  IF setters = {} THEN simulation_goal[c]
      ELSE NextCommand(c, CHOOSE i \in setters : \A j \in setters : j <= i)

\* The commands of the turn are executed, then the frame is simulated or
\* paused.
TakeTurn(c) ==
  /\ Synced(c)
  /\ Waiting(c) = {}
  /\ simulation_goal' = [simulation_goal EXCEPT ![c] = GoalAfter(c)]
  /\ read' = [read EXCEPT ![c] = ReadsAfterTurn(c)]
  /\ IF simulation_goal'[c] <= frame[c]
       THEN /\ pause_frame' = [pause_frame EXCEPT ![c] = @ + 1]
            /\ UNCHANGED frame
       ELSE /\ frame' = [frame EXCEPT ![c] = @ + 1]
            /\ UNCHANGED pause_frame
  /\ LoopHead(c)
  /\ UNCHANGED <<running, input_queue, run_count, exiting, player_count,
                 input, input_read, known, rec, netVars>>

(***************************************************************************)
(* The relay: server_process for one message, or the game host.            *)
(***************************************************************************)
Relay(p) ==
  /\ outbox[p] # <<>>
  /\ outbox' = [outbox EXCEPT ![p] = Tail(@)]
  /\ inbox' = [c \in Clients |->
                 [inbox[c] EXCEPT ![p] = Append(@, Head(outbox[p]))]]
  /\ UNCHANGED <<pc, loopVars, mainVars, recVars, buffering>>

-----------------------------------------------------------------------------

\* A player at the keyboard, or the compiler writing the library.
User(c) == (\E cmd \in Commands : InputLine(c, cmd)) \/ Reload(c) \/ Quit(c)

\* The main thread of a console, apart from what its user does.
Console(c) ==
  \/ GameRestart(c) \/ GameExit(c)
  \/ ConnectionIo(c) \/ ConnectionTerm(c)
  \/ \E p \in Clients : Receive(c, p) \/ NewPlayer(c, p)
  \/ ReceiveEnd(c)
  \/ Send(c)
  \/ Stall(c) \/ TakeTurn(c)

Next ==
  \/ \E c \in Clients : User(c) \/ Console(c)
  \/ \E p \in Clients : Relay(p)

Spec == Init /\ [][Next]_vars

\* The main thread never blocks and the relay thread is scheduled; a message
\* that has arrived is read by some later connection_io.
Fairness ==
  \A c \in Clients :
    /\ WF_vars(Console(c))
    /\ WF_vars(Relay(c))
    /\ \A p \in Clients : SF_vars(Receive(c, p) \/ NewPlayer(c, p))

FairSpec == Spec /\ Fairness

-----------------------------------------------------------------------------
(***************************************************************************)
(* Properties.                                                             *)
(***************************************************************************)

Labels == {"poll", "recv", "send", "stop", "done"}

\* The counters of loop.c; the input queue stays within input_queue_max,
\* which loop_init sets to the frame rate.
LoopTypeOK ==
  /\ pc \in [Clients -> Labels]
  /\ running \in [Clients -> BOOLEAN]
  /\ frame \in [Clients -> Nat]
  /\ pause_frame \in [Clients -> Nat]
  /\ input_queue \in [Clients -> Nat]
  /\ \A c \in Clients : input_queue[c] <= Framerate[c]
  /\ run_count \in [Clients -> Nat]

\* The variables of main.c.
MainTypeOK ==
  /\ exiting \in [Clients -> BOOLEAN]
  /\ simulation_goal \in [Clients -> Nat]
  /\ player_count \in [Clients -> 0 .. NumClients]

\* The records and their readers.
RecTypeOK ==
  /\ input \in [Clients -> Seq(Commands)]
  /\ input_read \in [Clients -> Nat]
  /\ known \in [Clients -> SUBSET Clients]
  /\ rec \in [Clients -> [Clients -> Seq(Commands)]]
  /\ read \in [Clients -> [Clients -> Nat]]

\* The sockets.
NetTypeOK ==
  /\ buffering \in [Clients -> BOOLEAN]
  /\ outbox \in [Clients -> Seq(Commands)]
  /\ inbox \in [Clients -> [Clients -> Seq(Commands)]]

\* Every variable has its type, and the input queue never outgrows
\* input_queue_max however many turns stall (main.c, loop.c).
TypeOK == LoopTypeOK /\ MainTypeOK /\ RecTypeOK /\ NetTypeOK

\* No command is lost, repeated or reordered between the console that sent
\* it and the record of any console, across reloads and joining players:
\* what console c recorded of player p, what is on its way to c and what p
\* has in its socket are together what p sent, as long as no write of p was
\* cut short (connection_processing, server_process, connection_sync).
InputConservation ==
  \A c, p \in Clients :
    ~buffering[p] =>
      rec[c][p] \o inbox[c][p] \o outbox[p] = SubSeq(input[p], 1, input_read[p])

\* In a run, every player's record has been read once per turn taken, so
\* the turn number names the same command of every player on every console.
TurnCount ==
  \A c \in Clients : pc[c] # "done" =>
    \A p \in TurnPlayers(c) : read[c][p] = Turn(c)

\* Lockstep: a console never takes turn k before every player of the run
\* has sent its command k, whoever reloads, stalls or loses messages.
NeverAhead ==
  \A c \in Clients : pc[c] # "done" =>
    \A p \in TurnPlayers(c) : Turn(c) <= input_read[p]

\* The input record always holds the command that is due: connection_sync
\* never reports CONN_CORRUPT.
NeverCorrupt == \A c \in Clients : ~Corrupt(c)

\* Two running consoles with the same number of players that took the same
\* number of turns executed the same commands and agree on which frames were
\* simulated and on the goal, however often each of them started over.
Agreement ==
  \A c, d \in Clients :
    /\ running[c] /\ running[d]
    /\ player_count[c] = player_count[d]
    /\ Turn(c) = Turn(d)
    => /\ frame[c] = frame[d]
       /\ simulation_goal[c] = simulation_goal[d]
       /\ \A p \in TurnPlayers(c) :
            SubSeq(rec[c][p], 1, Turn(c)) = SubSeq(rec[d][p], 1, Turn(d))

\* No stall lasts forever: if nobody leaves and no write is cut short, every
\* console ends up taking every turn the bound allows, whatever was typed,
\* reloaded, delayed or reordered between players.
Progress ==
  (\A c \in Clients : [](~exiting[c] /\ ~buffering[c]))
    => \A c \in Clients : <>[](Turn(c) >= MaxTurns)

\* Whoever asks to leave, or loses the connection, gets out of the loop.
LeaveCompletes == \A c \in Clients : exiting[c] ~> (pc[c] = "done")

\* The shared log of a player: what its own console has back, what is on its
\* way back and what is still in its socket.
SharedLog(p) == rec[p][p] \o inbox[p][p] \o outbox[p]

TL == INSTANCE TurnLog WITH
  log <- [p \in Clients |-> SharedLog(p)],
  game <- [c \in Clients |->
             IF running[c]
               THEN [on |-> TRUE, players |-> player_count[c], turn |-> Turn(c),
                     frame |-> frame[c], goal |-> simulation_goal[c]]
               ELSE [on |-> FALSE, players |-> 0, turn |-> 0, frame |-> 0, goal |-> 0]]

\* The consoles together implement the abstract lockstep game: all of them
\* play from one log per player, and turns, frames and goal follow from it,
\* through stalls, replays, joining players and messages that are lost on the
\* way to the relay.
ImplementsTurnLog == TL!Spec

=============================================================================
