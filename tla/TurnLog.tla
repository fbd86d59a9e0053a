------------------------------ MODULE TurnLog -------------------------------
(***************************************************************************)
(* What the lockstep game promises: every player's commands form one log   *)
(* that all consoles share, and a console's game is determined by the      *)
(* logs of its players and by the number of turns it took.  A console may  *)
(* leave its game at any time and start one over, with any players.        *)
(***************************************************************************)
EXTENDS Naturals, Sequences

CONSTANTS
  NumClients,   \* number of consoles, and of players
  Goals,        \* the commands that set the goal
  Commands      \* all commands

Clients == 0 .. NumClients - 1

VARIABLES
  log,    \* log[p]: the commands of player p that the relay accepted
  game    \* game[c]: the game that console c shows

logVars == <<log, game>>

\* A game on a console, and a console that shows none.
GameState(count, turn, frame, goal) ==
  [on |-> TRUE, players |-> count, turn |-> turn, frame |-> frame, goal |-> goal]
Idle == [on |-> FALSE, players |-> 0, turn |-> 0, frame |-> 0, goal |-> 0]

Init ==
  /\ log = [p \in Clients |-> <<>>]
  /\ game = [c \in Clients |-> GameState(0, 0, 0, 0)]

\* A command of a player is accepted.
Commit(p, cmd) ==
  /\ log' = [log EXCEPT ![p] = Append(@, cmd)]
  /\ UNCHANGED game

\* The goal after the turn: that of the last player who sets one.
GoalOf(g) ==
  LET setters == {p \in 0 .. g.players - 1 : log[p][g.turn + 1] \in Goals}
  IN  IF setters = {} THEN g.goal
      ELSE log[CHOOSE p \in setters : \A q \in setters : q <= p][g.turn + 1]

\* The game after the turn: a frame is simulated while the goal is ahead.
After(g) ==
  GameState(g.players, g.turn + 1,
            IF GoalOf(g) > g.frame THEN g.frame + 1 ELSE g.frame, GoalOf(g))

\* A turn is played once every player's command for it is in its log.
Play(c) ==
  /\ game[c].on
  /\ \A p \in 0 .. game[c].players - 1 : game[c].turn < Len(log[p])
  /\ game' = [game EXCEPT ![c] = After(@)]
  /\ UNCHANGED log

\* A console stops its game, to leave or to start over.
Stop(c) ==
  /\ game[c].on
  /\ game' = [game EXCEPT ![c] = Idle]
  /\ UNCHANGED log

\* A game starts at its first turn with the players known so far.
Start(c, count) ==
  /\ ~game[c].on
  /\ game' = [game EXCEPT ![c] = GameState(count, 0, 0, 0)]
  /\ UNCHANGED log

Next ==
  \/ \E p \in Clients, cmd \in Commands : Commit(p, cmd)
  \/ \E c \in Clients : Play(c) \/ Stop(c)
  \/ \E c \in Clients, count \in 0 .. NumClients : Start(c, count)

Spec == Init /\ [][Next]_logVars
=============================================================================
