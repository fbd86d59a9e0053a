------------------------------ MODULE Session -------------------------------
(***************************************************************************)
(* One console on a game host: connection_init with a host, the receive    *)
(* and command buffers of connection.c and main.c at their limits, and     *)
(* what the console makes of a connection that is refused, closed or       *)
(* reset (network.c).                                                      *)
(*                                                                         *)
(* The host and TCP are external.  The host sends well-formed messages, as *)
(* network_server.c writes them: the number of a player, a command of any  *)
(* length and its NUL, behind a header with that length.  This is an       *)
(* assumption on the host: connection_processing does not check the        *)
(* header.  Bytes arrive in any portions.  What poll, read and write       *)
(* report of a connection in each state is that of the sockets the code    *)
(* uses.  Bytes are counted, not stored: a message is its player and the   *)
(* length of its command.  The turn protocol between consoles is in        *)
(* Lockstep; here a record is what was processed of a player, and each of  *)
(* its readers has read one command per turn (TurnCount of Lockstep).      *)
(* What the console sends is counted only.                                 *)
(***************************************************************************)
EXTENDS Integers, Sequences, FiniteSets

CONSTANTS
  Players,     \* the player numbers the host uses
  Lengths,     \* lengths of commands, without their NUL
  MaxPlayer,   \* MAX_PLAYER
  Header,      \* bytes before the command of a message, 8 in the code
  ClientMax,   \* sizeof(connection_receive_buffer)
  FrameMax,    \* FRAME_BUF_LEN
  Queue,       \* the frame rate: turns that input is sent ahead
  MaxStream,   \* bound: messages the host sends
  MaxTurns     \* bound: turns that are counted

ASSUME SessionAssumption ==
  /\ Players \subseteq Nat /\ Lengths \subseteq Nat
  /\ MaxPlayer \in Nat /\ Header \in Nat \ {0}
  /\ ClientMax \in Nat \ {0} /\ FrameMax \in Nat \ {0} /\ Queue \in Nat \ {0}
  /\ MaxStream \in Nat /\ MaxTurns \in Nat /\ MaxStream <= MaxTurns

VARIABLES
  pc,            \* where the main thread is
  sfd,           \* client_ep.sfd: "none" (0), "bad" (-1) or "open"
  connecting,    \* client_ep.connecting
  disconnected,  \* client_ep.disconnected
  net,           \* the connection
  sk_err,        \* the error the socket has to report
  stream,        \* messages the host sent
  arrived,       \* bytes of them that reached this machine
  taken,         \* bytes of them read into the receive buffer
  done,          \* messages processed
  known,         \* players whose record is allocated
  player_count,  \* players of this run
  turn,          \* turns of this run
  sent           \* commands written

epVars == <<sfd, connecting, disconnected>>
netVars == <<net, sk_err, stream, arrived>>
runVars == <<known, player_count, turn>>
vars == <<pc, epVars, netVars, taken, done, runVars, sent>>

Init ==
  /\ pc = "configure"
  /\ sfd = "none"
  /\ connecting = FALSE /\ disconnected = FALSE
  /\ net = "closed" /\ sk_err = "none"
  /\ stream = <<>> /\ arrived = 0
  /\ taken = 0 /\ done = 0
  /\ known = {} /\ player_count = 0 /\ turn = 0
  /\ sent = 0

Least(m, n) == IF m < n THEN m ELSE n

\* The first n of some numbers, added up.
Sum(numbers, n) ==
  LET sum[i \in 0 .. n] == IF i = 0 THEN 0 ELSE sum[i - 1] + numbers[i]
  IN  sum[n]

(***************************************************************************)
(* The messages.                                                           *)
(***************************************************************************)

\* A message and the bytes of the first n messages.
Size(msg) == Header + msg.len + 1
Bytes(n) == Sum([i \in 1 .. Len(stream) |-> Size(stream[i])], n)

\* used_receive_buffer.
used == taken - Bytes(done)

\* A player's record: what was processed of the player's messages.
Record(p) ==
  LET record[i \in 0 .. done] ==
        IF i = 0 THEN <<>>
        ELSE IF stream[i].player = p THEN Append(record[i - 1], stream[i])
        ELSE record[i - 1]
  IN  record[done]

(***************************************************************************)
(* poll, as network_poll sees it.                                          *)
(***************************************************************************)

\* The events poll reports; there is room to write or not.
\* As a mutant: only the events that were asked for.
ReventsAskedFor(room) ==
  {e \in {"POLLIN", "POLLOUT"} :
     \/ net \in {"refused", "reset"}
     \/ e = "POLLIN" /\ net \in {"open", "fin"} /\ (net = "fin" \/ arrived > taken)
     \/ e = "POLLOUT" /\ net \in {"open", "fin"} /\ room}
Revents(room) ==
  {e \in {"POLLIN", "POLLOUT", "POLLERR", "POLLHUP"} :
     \/ e = "POLLIN" /\ (net \in {"fin", "refused", "reset"} \/ arrived > taken)
     \/ e = "POLLOUT" /\ (net \in {"closed", "refused", "reset"}
                           \/ (net \in {"open", "fin"} /\ room))
     \/ e = "POLLERR" /\ sk_err # "none"
     \/ e = "POLLHUP" /\ net \in {"closed", "refused", "reset"}}

(***************************************************************************)
(* connection_init.                                                        *)
(***************************************************************************)

\* network_configure: the name may be unknown, or there may be no socket.
NetworkConfigure ==
  /\ pc = "configure"
  /\ sfd' \in {"none", "bad", "open"}
  /\ pc' = "connect"
  /\ UNCHANGED <<connecting, disconnected, netVars, taken, done, runVars, sent>>

\* network_connect: without a socket, or when connect fails at once, nothing
\* is under way.
NetworkConnect ==
  /\ pc = "connect"
  /\ \/ UNCHANGED <<connecting, net>>
     \/ sfd = "open" /\ connecting' = TRUE /\ net' = "opening"
  /\ pc' = "ready"
  /\ UNCHANGED <<sfd, disconnected, sk_err, stream, arrived, taken, done, runVars, sent>>

\* network_poll and network_ready: ep->connected takes the value of
\* connecting when the socket can be read or written.
Connected(ev) == connecting /\ ev \cap {"POLLIN", "POLLOUT"} # {}

\* The loop of connection_init ends; otherwise it polls again.
NetworkReady ==
  /\ pc = "ready"
  /\ \E ev \in {IF sfd = "open" THEN Revents(TRUE) ELSE {}} :
       Connected(ev) /\ "POLLERR" \notin ev
  /\ pc' = "io"
  /\ UNCHANGED <<epVars, netVars, taken, done, runVars, sent>>

\* What the loop makes of POLLERR.
\* As a mutant: it goes on waiting.
WaitOn == FALSE
GiveUp == sfd = "open" /\ "POLLERR" \in Revents(TRUE)

\* connection_init returns 0 and main returns.
NetworkFails ==
  /\ pc = "ready"
  /\ GiveUp
  /\ disconnected' = TRUE
  /\ pc' = "failed"
  /\ UNCHANGED <<sfd, connecting, netVars, taken, done, runVars, sent>>

(***************************************************************************)
(* connection_io, in every turn.                                           *)
(***************************************************************************)

\* What network_read returns, and when it returns -1.
\* As a mutant: the bytes in use are not subtracted.
WholeBuffer == Least(arrived - taken, ClientMax)
ReadBytes == Least(arrived - taken, ClientMax - used)
ReadFails == net = "reset" /\ arrived = taken /\ sk_err = "ECONNRESET"

\* Whether connection_io returns false.
IoFails(ev) ==
  \/ "POLLOUT" \notin ev
  \/ "POLLIN" \in ev /\ (ReadFails \/ ("POLLHUP" \in ev /\ ReadBytes = 0))

\* connection_io fails, at the flag or after poll: CONN_TERM.
ConnectionIoFails ==
  /\ pc = "io"
  /\ \/ disconnected /\ UNCHANGED disconnected
     \/ /\ ~disconnected
        /\ \E room \in BOOLEAN :
             /\ IoFails(Revents(room))
             /\ disconnected' = ("POLLERR" \in Revents(room))
  /\ pc' = "term"
  /\ UNCHANGED <<sfd, connecting, netVars, taken, done, runVars, sent>>

\* connection_io succeeds, with what it read.
ConnectionIo ==
  /\ pc = "io"
  /\ ~disconnected
  /\ ~IoFails(Revents(TRUE))
  /\ disconnected' = ("POLLERR" \in Revents(TRUE))
  /\ taken' = IF "POLLIN" \in Revents(TRUE) THEN taken + ReadBytes ELSE taken
  /\ pc' = "process"
  /\ UNCHANGED <<sfd, connecting, netVars, done, runVars, sent>>

\* The player quit in the turn before: loop_run ends the loop at its head.
Quit ==
  /\ pc = "io"
  /\ pc' = "term"
  /\ UNCHANGED <<epVars, netVars, taken, done, runVars, sent>>

(***************************************************************************)
(* connection_processing.                                                  *)
(***************************************************************************)

\* The receive buffer holds a whole message.
\* As a mutant: it has to hold more than that.
MoreThanWhole == used > Header /\ used > Size(stream[done + 1])
WholeMessage == used >= Header /\ used >= Size(stream[done + 1])

next_player == stream[done + 1].player

\* A player number beyond the array: CRASH.
ForeignPlayer ==
  /\ pc = "process" /\ WholeMessage
  /\ next_player >= MaxPlayer
  /\ pc' = "crashed"
  /\ UNCHANGED <<epVars, netVars, taken, done, runVars, sent>>

\* The first message of a player: CONN_CHANGE, and main starts the next run.
NewPlayer ==
  /\ pc = "process" /\ WholeMessage
  /\ next_player < MaxPlayer /\ next_player \notin known
  /\ known' = known \cup {next_player}
  /\ player_count' = Cardinality(known')
  /\ turn' = 0
  /\ pc' = "io"
  /\ UNCHANGED <<epVars, netVars, taken, done, sent>>

\* The command is recorded.
ConnectionProcessing ==
  /\ pc = "process" /\ WholeMessage
  /\ next_player \in known
  /\ done' = done + 1
  /\ UNCHANGED <<pc, epVars, netVars, taken, runVars, sent>>

ConnectionProcessed ==
  /\ pc = "process" /\ ~WholeMessage
  /\ pc' = "send"
  /\ UNCHANGED <<epVars, netVars, taken, done, runVars, sent>>

(***************************************************************************)
(* The write loop of connection_sync.                                      *)
(***************************************************************************)

\* A command is due.  After a reset the first write reports the error, which
\* nobody looks at, and the next one raises SIGPIPE.
ConnectionSend ==
  /\ pc = "send"
  /\ turn + Queue > sent
  /\ sent' = sent + 1
  /\ \/ net # "reset" /\ UNCHANGED <<pc, sk_err>>
     \/ net = "reset" /\ sk_err = "ECONNRESET" /\ sk_err' = "none" /\ UNCHANGED pc
     \/ net = "reset" /\ sk_err # "ECONNRESET" /\ pc' = "killed" /\ UNCHANGED sk_err
  /\ UNCHANGED <<epVars, net, stream, arrived, taken, done, runVars>>

ConnectionOk ==
  /\ pc = "send"
  /\ turn + Queue <= sent
  /\ pc' = "turn"
  /\ UNCHANGED <<epVars, netVars, taken, done, runVars, sent>>

(***************************************************************************)
(* The turn.                                                               *)
(***************************************************************************)

\* The loops over players walk the first entries of the array.
TurnPlayers == 0 .. player_count - 1

\* command_preview: the players without a command for this turn.
\* As a mutant: the players whose records are allocated.
WaitingKnown == {p \in known : turn >= Len(Record(p))}
Waiting == {p \in TurnPlayers : turn >= Len(Record(p))}

Stall ==
  /\ pc = "turn"
  /\ Waiting # {}
  /\ pc' = "io"
  /\ UNCHANGED <<epVars, netVars, taken, done, runVars, sent>>

\* The length of a player's command for this turn.
cmd_len(p) == Record(p)[turn + 1].len

\* Where command_frame puts it: buffer_write.
buffer_write(p) == Sum([n \in 1 .. p |-> cmd_len(n - 1) + 1], p)

\* command_frame: every command is put behind the one before.
\* As a mutant: the test forgets the byte for the NUL.
FrameWithoutNul == \A p \in TurnPlayers : buffer_write(p) + cmd_len(p) <= FrameMax
command_frame == \A p \in TurnPlayers : buffer_write(p) + cmd_len(p) < FrameMax

TakeTurn ==
  /\ pc = "turn"
  /\ Waiting = {}
  /\ command_frame
  /\ turn' = Least(turn + 1, MaxTurns)
  /\ pc' = "io"
  /\ UNCHANGED <<epVars, netVars, taken, done, known, player_count, sent>>

\* command_frame returns false: CRASH.
FrameFails ==
  /\ pc = "turn"
  /\ Waiting = {}
  /\ ~command_frame
  /\ pc' = "crashed"
  /\ UNCHANGED <<epVars, netVars, taken, done, runVars, sent>>

\* connection_term: there is neither a server end nor a server thread.
ConnectionTerm ==
  /\ pc = "term"
  /\ sfd' = "none"
  /\ pc' = "left"
  /\ UNCHANGED <<connecting, disconnected, netVars, taken, done, runVars, sent>>

(***************************************************************************)
(* The network and the host.                                               *)
(***************************************************************************)

\* The connection is established or refused; a time-out is a refusal.
NetOpens ==
  /\ net = "opening"
  /\ \/ net' = "open" /\ UNCHANGED sk_err
     \/ net' = "refused" /\ sk_err' = "ECONNREFUSED"
  /\ UNCHANGED <<pc, epVars, stream, arrived, taken, done, runVars, sent>>

\* A well-formed message of any player and any length.
HostSends(msg) ==
  /\ net = "open"
  /\ Len(stream) < MaxStream
  /\ stream' = Append(stream, msg)
  /\ UNCHANGED <<pc, epVars, net, sk_err, arrived, taken, done, runVars, sent>>

BytesArrive ==
  /\ net = "open"
  /\ arrived' \in arrived + 1 .. Bytes(Len(stream))
  /\ UNCHANGED <<pc, epVars, net, sk_err, stream, taken, done, runVars, sent>>

\* The host closes its end, after all it sent.
HostCloses ==
  /\ net = "open"
  /\ arrived = Bytes(Len(stream))
  /\ net' = "fin"
  /\ UNCHANGED <<pc, epVars, sk_err, stream, arrived, taken, done, runVars, sent>>

\* The connection is reset, also by a write to a host that closed its end.
HostResets ==
  /\ net \in {"open", "fin"}
  /\ sk_err' = IF net = "open" THEN "ECONNRESET" ELSE "EPIPE"
  /\ net' = "reset"
  /\ UNCHANGED <<pc, epVars, stream, arrived, taken, done, runVars, sent>>

-----------------------------------------------------------------------------

Console ==
  \/ NetworkConfigure \/ NetworkConnect \/ NetworkReady \/ NetworkFails
  \/ ConnectionIoFails \/ ConnectionIo
  \/ ForeignPlayer \/ NewPlayer \/ ConnectionProcessing \/ ConnectionProcessed
  \/ ConnectionSend \/ ConnectionOk
  \/ Stall \/ TakeTurn \/ FrameFails
  \/ ConnectionTerm

Network ==
  \/ NetOpens \/ BytesArrive \/ HostCloses \/ HostResets
  \/ \E p \in Players, n \in Lengths : HostSends([player |-> p, len |-> n])

Next == Console \/ Network \/ Quit

Spec == Init /\ [][Next]_vars

\* The main thread never blocks; a connection that was begun is answered or
\* times out.  Nothing is assumed of the host.
FairSpec == Spec /\ WF_vars(Console) /\ WF_vars(NetOpens)

-----------------------------------------------------------------------------
(***************************************************************************)
(* Properties.                                                             *)
(***************************************************************************)

\* Every variable has its type, the receive buffer is never used beyond its
\* end or below its start, and no record beyond the array is allocated.
TypeOK ==
  /\ pc \in {"configure", "connect", "ready", "failed", "io", "process", "send",
             "turn", "term", "left", "crashed", "killed"}
  /\ sfd \in {"none", "bad", "open"}
  /\ connecting \in BOOLEAN /\ disconnected \in BOOLEAN
  /\ net \in {"closed", "opening", "open", "fin", "refused", "reset"}
  /\ sk_err \in {"none", "ECONNRESET", "ECONNREFUSED", "EPIPE"}
  /\ stream \in Seq([player : Players, len : Lengths])
  /\ arrived \in Nat /\ taken \in 0 .. arrived
  /\ done \in 0 .. Len(stream)
  /\ used >= 0 /\ used <= ClientMax
  /\ known \subseteq {p \in Players : p < MaxPlayer}
  /\ player_count \in 0 .. MaxPlayer
  /\ turn \in 0 .. MaxTurns
  /\ sent \in Nat

\* A turn is executed exactly when its commands and their NULs fit into the
\* buffer of command_frame together, however many players there are.
FrameFits ==
  pc = "turn" /\ Waiting = {} =>
    (command_frame <=>
       Sum([n \in 1 .. player_count |-> cmd_len(n - 1) + 1], player_count) <= FrameMax)

\* command_frame never reads a record that was not allocated, although the
\* turn walks the first player_count records and players are heard of in any
\* order (game_players, command_preview).
OnlyAllocated == pc = "turn" /\ Waiting = {} => TurnPlayers \subseteq known

\* The console is gone.
Over == pc \in {"failed", "left", "crashed", "killed"}

\* Every message whose bytes have arrived is recorded, also behind a host that
\* has closed its end, up to the first one that is too long for the receive
\* buffer, unless the console goes first.
Delivered ==
  [](\A n \in 1 .. MaxStream :
       /\ Len(stream) >= n
       /\ \A i \in 1 .. Least(n, Len(stream)) : Size(stream[i]) <= ClientMax
       /\ arrived >= Bytes(Least(n, Len(stream)))
       => <>(done >= n \/ Over))

\* A console whose connection is reset goes: by connection_io, by the flag
\* that network_poll left, or by SIGPIPE.
LossNoticed == (net = "reset") ~> Over

\* A connection attempt that was begun ends: the console plays or gives up.
InitEnds == connecting ~> (pc # "ready")
=============================================================================
