------------------------------- MODULE Relay --------------------------------
(***************************************************************************)
(* The bytes between a console and its relay, from connection_init to      *)
(* connection_term: connection.c in the main thread and network_server.c's *)
(* server_routine in a thread of its own, joined by a socket pair          *)
(* (network.c).  The console's end does not block, the server's end does.  *)
(*                                                                         *)
(* A byte is a number and NUL is 0.  The two header fields of a message to *)
(* the console, its length and the player, are four bytes each in the code *)
(* and one element each here.  poll and the sockets are external: a socket *)
(* is a bounded sequence of bytes, readable when it is not empty and       *)
(* writable when it is not full.  A server that writes after the console's *)
(* end was closed raises SIGPIPE, which ends the process; a write that was *)
(* waiting at that moment only fails.  The console saves its records       *)
(* before connection_term and nothing of them is used after it.            *)
(***************************************************************************)
EXTENDS Naturals, Sequences, FiniteSets

CONSTANTS
  Commands,   \* commands, sequences of bytes without NUL
  UpCap,      \* bytes the socket to the server holds
  DownCap,    \* bytes the socket to the console holds
  ServerMax,  \* SERVER_RECV_MAX
  ClientMax,  \* sizeof(connection_receive_buffer)
  MaxSent     \* bound: commands the console sends

NUL == 0
Header == 2
Player == 0

\* A line of input.c fits into the server's buffer with its NUL.  It need not
\* fit into the console's buffer with the header that the server adds.
ASSUME RelayAssumption ==
  /\ UpCap \in Nat \ {0} /\ DownCap \in Nat \ {0}
  /\ ServerMax \in Nat \ {0} /\ ClientMax \in Nat \ {0} /\ MaxSent \in Nat
  /\ \A cmd \in Commands : cmd \in Seq(Nat \ {NUL}) /\ Len(cmd) + 1 <= ServerMax

VARIABLES
  fds,        \* descriptors in use: "client_ep", "server_ep"
  cpc,        \* console: a call of connection.c, "left" or "killed"
  client_buf, \* connection_receive_buffer, the bytes in use
  known,      \* game_record[0].rec is allocated
  buffering,  \* a write was cut short
  up,         \* bytes in the socket to the server
  down,       \* bytes in the socket to the console
  spc,        \* server: "none", "poll", "scan", "exit" or "killed"
  reset,      \* the console's end was closed with bytes it had not read
  disconnected, \* the server's ep.disconnected
  server_buf, \* receive_buffer, the bytes in use
  msg_start,  \* server_process: where the next message starts
  server_out, \* the calls of network_write server_message has still to do
  sent,       \* history: commands given to network_write
  received    \* the player's game record

clientVars == <<cpc, client_buf, known, buffering, sent, received>>
serverVars == <<spc, disconnected, server_buf, msg_start, server_out>>
sockVars == <<fds, reset>>
vars == <<clientVars, up, down, serverVars, sockVars>>

Init ==
  /\ fds = {}
  /\ reset = FALSE
  /\ disconnected = FALSE
  /\ cpc = "connection_init"
  /\ client_buf = <<>>
  /\ known = FALSE
  /\ buffering = FALSE
  /\ up = <<>>
  /\ down = <<>>
  /\ spc = "none"
  /\ server_buf = <<>>
  /\ msg_start = 0
  /\ server_out = <<>>
  /\ sent = <<>>
  /\ received = <<>>

Least(m, n) == IF m < n THEN m ELSE n

\* The bytes of a sequence after the first n.
From(s, n) == SubSeq(s, n + 1, Len(s))

(***************************************************************************)
(* The console.                                                            *)
(***************************************************************************)

\* Both ends of the connection are opened, and the thread is started on one.
network_socketpair == fds' = {"client_ep", "server_ep"}
server_init == spc' = "poll"

\* connection_init without a host.
ConnectionInit ==
  /\ cpc = "connection_init"
  /\ network_socketpair
  /\ server_init
  /\ cpc' = "io"
  /\ UNCHANGED <<client_buf, known, buffering, sent, received, up, down, reset,
                 disconnected, server_buf, msg_start, server_out>>

\* connection_term: both ends are closed, then server_term joins the thread.
\* As a mutant: it is joined first.
JoinFirst == <<"server_term", "close_client", "close_server", "left">>
TermOrder == <<"close_client", "close_server", "server_term", "left">>

\* The loop of main.c ends and connection_term is called.
StartTerm == cpc' = TermOrder[1]
TermNext(call) ==
  /\ cpc = call
  /\ \E i \in 1 .. Len(TermOrder) - 1 :
       TermOrder[i] = call /\ cpc' = TermOrder[i + 1]

\* connection_io without POLLOUT: connection_sync returns CONN_TERM and the
\* console leaves.
ConnectionFails ==
  /\ cpc = "io"
  /\ Len(up) >= UpCap
  /\ StartTerm
  /\ UNCHANGED <<client_buf, known, buffering, sent, received, up, down, serverVars, sockVars>>

\* The player quit in the turn before: loop_run ends the loop at its head.
Leave ==
  /\ cpc = "io"
  /\ StartTerm
  /\ UNCHANGED <<client_buf, known, buffering, sent, received, up, down, serverVars, sockVars>>

\* endpoint_term of client_ep: what the server sent and nobody read is gone.
\* A write of the server that waits for room returns.
CloseClient ==
  /\ TermNext("close_client")
  /\ fds' = fds \ {"client_ep"}
  /\ reset' = (down # <<>>)
  /\ down' = <<>>
  /\ server_out' \in {server_out, From(server_out, 1)}
  /\ UNCHANGED <<client_buf, known, buffering, sent, received, up,
                 spc, disconnected, server_buf, msg_start>>

\* endpoint_term of server_ep, which the server thread may be using.
CloseServer ==
  /\ TermNext("close_server")
  /\ fds' = fds \ {"server_ep"}
  /\ UNCHANGED <<client_buf, known, buffering, sent, received, up, down,
                 serverVars, reset>>

\* server_term: pthread_join waits for the end of server_routine.
ServerTerm ==
  /\ TermNext("server_term")
  /\ spc = "exit"
  /\ UNCHANGED <<client_buf, known, buffering, sent, received, up, down,
                 serverVars, sockVars>>

\* What is left of connection_receive_buffer.
\* As a mutant: the bytes in use are not subtracted.
WholeBuffer == ClientMax
ClientRoom == ClientMax - Len(client_buf)

\* connection_io reads what has arrived and fits, if anything.
ConnectionIo ==
  LET bytes == Least(Len(down), ClientRoom)
  IN  /\ cpc = "io"
      /\ Len(up) < UpCap
      /\ client_buf' = client_buf \o SubSeq(down, 1, bytes)
      /\ down' = From(down, bytes)
      /\ cpc' = "process"
      /\ UNCHANGED <<known, buffering, sent, received, up, serverVars, sockVars>>

\* The length of the message at the head of the receive buffer.
length == Header + client_buf[1]

\* connection_processing has a whole message.
WholeMessage == Len(client_buf) >= Header /\ Len(client_buf) >= length

\* The first message of the player: its record is allocated, the message
\* stays and CONN_CHANGE ends connection_sync.
FirstMessage ==
  /\ cpc = "process"
  /\ WholeMessage
  /\ ~known
  /\ known' = TRUE
  /\ cpc' = "io"
  /\ UNCHANGED <<client_buf, buffering, sent, received, up, down, serverVars, sockVars>>

\* The message without its NUL is recorded and leaves the buffer.
ConnectionProcessing ==
  /\ cpc = "process"
  /\ WholeMessage
  /\ known
  /\ received' = Append(received, SubSeq(client_buf, Header + 1, length - 1))
  /\ client_buf' = From(client_buf, length)
  /\ UNCHANGED <<cpc, known, buffering, sent, up, down, serverVars, sockVars>>

ConnectionProcessed ==
  /\ cpc = "process"
  /\ ~WholeMessage
  /\ cpc' = "send"
  /\ UNCHANGED <<client_buf, known, buffering, sent, received, up, down, serverVars, sockVars>>

\* How much of a command and its NUL the socket takes; what it does not take
\* is not written again.
Writable(n) == IF n <= UpCap - Len(up) THEN {n} ELSE 0 .. UpCap - Len(up)

\* connection_sync writes a command that is due.
ConnectionSend(cmd) ==
  /\ cpc = "send"
  /\ Len(sent) < MaxSent
  /\ \E written \in Writable(Len(cmd) + 1) :
       /\ up' = up \o SubSeq(Append(cmd, NUL), 1, written)
       /\ buffering' = (buffering \/ written # Len(cmd) + 1)
  /\ sent' = Append(sent, cmd)
  /\ UNCHANGED <<cpc, client_buf, known, received, down, serverVars, sockVars>>

\* connection_sync returns CONN_OK; it is called again in the next frame.
ConnectionOk ==
  /\ cpc = "send"
  /\ cpc' = "io"
  /\ UNCHANGED <<client_buf, known, buffering, sent, received, up, down, serverVars, sockVars>>

(***************************************************************************)
(* The server thread.                                                      *)
(***************************************************************************)

\* poll reports POLLHUP once the console's end is closed.
HungUp == "client_ep" \notin fds

\* What read returns: what has arrived and fits.
ServerBytes == Least(Len(up), ServerMax - Len(server_buf))

\* server_routine reads and starts server_process.
ServerRead ==
  /\ spc = "poll"
  /\ "server_ep" \in fds
  /\ up # <<>>
  /\ HungUp => ServerBytes > 0
  /\ disconnected' = reset
  /\ server_buf' = server_buf \o SubSeq(up, 1, ServerBytes)
  /\ up' = From(up, ServerBytes)
  /\ spc' = "scan"
  /\ UNCHANGED <<clientVars, down, sockVars, msg_start, server_out>>

\* server_routine ends: poll reports POLLNVAL as the main thread closed the
\* descriptor, or server_halt says that there is nothing left to read.
ServerStop ==
  /\ spc = "poll"
  /\ "server_ep" \notin fds \/ (HungUp /\ ServerBytes = 0)
  /\ spc' = "exit"
  /\ UNCHANGED <<clientVars, up, down, sockVars, disconnected, server_buf, msg_start,
                 server_out>>

\* The ends of the messages that server_process has not yet handled.
\* As a mutant: the last byte that was read is not looked at.
EndsButLast == {i \in msg_start + 1 .. Len(server_buf) - 1 : server_buf[i] = NUL}
Ends == {i \in msg_start + 1 .. Len(server_buf) : server_buf[i] = NUL}

\* server_message: length, player and message are written one by one.
Writes(msg) == <<<<Len(msg)>>, <<Player>>, msg>>

\* server_process finds the NUL that ends the next message.
ServerMessage ==
  /\ spc = "scan"
  /\ server_out = <<>>
  /\ \E end \in Ends :
       /\ \A e \in Ends : end <= e
       /\ server_out' = Writes(SubSeq(server_buf, msg_start + 1, end))
       /\ msg_start' = end
  /\ UNCHANGED <<clientVars, up, down, sockVars, spc, disconnected, server_buf>>

\* What is left to write after n bytes of the first call.
AfterWrite(n) ==
  IF n = Len(server_out[1]) THEN Tail(server_out)
  ELSE [server_out EXCEPT ![1] = From(@, n)]

\* A blocking write makes progress when there is room.
ServerWrite ==
  /\ server_out # <<>>
  /\ "client_ep" \in fds
  /\ \E bytes \in 1 .. Least(Len(server_out[1]), DownCap - Len(down)) :
       /\ down' = down \o SubSeq(server_out[1], 1, bytes)
       /\ server_out' = AfterWrite(bytes)
  /\ UNCHANGED <<clientVars, up, sockVars, spc, disconnected, server_buf, msg_start>>

\* The descriptor was closed: write fails and nobody looks at its result.
ServerWriteFails ==
  /\ server_out # <<>>
  /\ "server_ep" \notin fds
  /\ server_out' = Tail(server_out)
  /\ UNCHANGED <<clientVars, up, down, sockVars, spc, disconnected, server_buf, msg_start>>

\* Only the console's end was closed: SIGPIPE ends both threads.
ServerKilled ==
  /\ server_out # <<>>
  /\ HungUp /\ "server_ep" \in fds
  /\ cpc' = "killed"
  /\ spc' = "killed"
  /\ server_out' = <<>>
  /\ UNCHANGED <<client_buf, known, buffering, sent, received, up, down, sockVars,
                 disconnected, server_buf, msg_start>>

\* What server_routine keeps for the next read: the unfinished message.
\* As mutants: nothing is kept, or everything.
KeepNothing == <<>>
KeepAll == server_buf
Unfinished == From(server_buf, msg_start)

\* server_process returned; an endpoint that poll found broken ends the loop.
ServerDone ==
  /\ spc = "scan"
  /\ server_out = <<>>
  /\ Ends = {}
  /\ server_buf' = Unfinished
  /\ spc' = IF disconnected THEN "exit" ELSE "poll"
  /\ msg_start' = 0
  /\ UNCHANGED <<clientVars, up, down, sockVars, disconnected, server_out>>

-----------------------------------------------------------------------------

Client ==
  \/ ConnectionInit
  \/ ConnectionFails \/ ConnectionIo
  \/ FirstMessage \/ ConnectionProcessing \/ ConnectionProcessed
  \/ ConnectionOk
  \/ CloseClient \/ CloseServer \/ ServerTerm

Server ==
  \/ ServerRead \/ ServerStop
  \/ ServerMessage \/ ServerWrite \/ ServerWriteFails \/ ServerKilled
  \/ ServerDone

\* What to send and when to leave is up to the player.
User == Leave \/ \E cmd \in Commands : ConnectionSend(cmd)

Next == Client \/ Server \/ User

Spec == Init /\ [][Next]_vars

\* Both threads are scheduled; the player may do nothing.
FairSpec == Spec /\ WF_vars(Client) /\ WF_vars(Server)

-----------------------------------------------------------------------------
(***************************************************************************)
(* Properties.                                                             *)
(***************************************************************************)

\* The receive buffers and sockets stay within their sizes and every
\* variable has its type.
TypeOK ==
  /\ fds \subseteq {"client_ep", "server_ep"}
  /\ reset \in BOOLEAN /\ disconnected \in BOOLEAN
  /\ cpc \in {"connection_init", "io", "process", "send", "killed"}
             \cup {TermOrder[i] : i \in 1 .. Len(TermOrder)}
  /\ client_buf \in Seq(Nat) /\ Len(client_buf) <= ClientMax
  /\ known \in BOOLEAN /\ buffering \in BOOLEAN
  /\ up \in Seq(Nat) /\ Len(up) <= UpCap
  /\ down \in Seq(Nat) /\ Len(down) <= DownCap
  /\ spc \in {"none", "poll", "scan", "exit", "killed"}
  /\ server_buf \in Seq(Nat) /\ Len(server_buf) <= ServerMax
  /\ msg_start \in 0 .. ServerMax
  /\ server_out \in Seq(Seq(Nat))
  /\ sent \in Seq(Commands)
  /\ received \in Seq(Seq(Nat))

\* The framing implements the echo channel: however reads and writes are
\* split, commands come back whole, in order and once; after a write that
\* was cut short, never more of them than were sent.
Echo == INSTANCE EchoChannel WITH cut <- buffering
ImplementsEcho == Echo!Spec

\* The SIGPIPE of a closed connection (connection_term, server_message) only
\* ends a console that left before all its commands had come back.
KilledInFlight == cpc = "killed" => Len(received) < Len(sent)

\* The console is in connection_term, or over.
Leaving == cpc \notin {"connection_init", "io", "process", "send"}

\* The command fits into the console's buffer with its header.
FitsBack(cmd) == Header + Len(cmd) + 1 <= ClientMax

\* Every command comes back, up to the first that is too long for the
\* console's buffer and unless a write was cut short or the console left:
\* neither buffer fills up with half a message for good before, and the two
\* threads never wait for each other forever.
EchoDelivers ==
  [](\A n \in 1 .. MaxSent :
       /\ Len(sent) >= n
       /\ \A i \in 1 .. Least(n, Len(sent)) : FitsBack(sent[i])
       => <>(Len(received) >= n \/ buffering \/ Leaving))

\* connection_term ends, whatever the server thread is doing when its
\* descriptor is closed: polling, waiting for room or echoing.
TermCompletes == (cpc = TermOrder[1]) ~> (cpc \in {"left", "killed"})
=============================================================================
