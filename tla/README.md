# TLA+ models and proofs of the craftsman console

The console loads a shared library (`code/feature.so`), calls its functions
once per frame and lets one or more players steer the simulation with commands.
All consoles of a game run in lockstep: a command typed on one console is sent
to a relay, the relay echoes it to every console, and every console executes
the commands of all players turn by turn.  A console starts over, and replays
the commands from the first one, when its library changes, when its player asks
for it and when a player joins.

This directory holds TLA+ modules that model the parts of the program that
carry this protocol, TLC configurations that check them on small instances, and
proofs checked by TLAPS for all values of the constants.  File and line
references are to the repository's C sources; `PROJECT.json` maps every
definition to the lines it stands for.

## The system

| Part | Source | State | Operations |
|---|---|---|---|
| Game loop | `main.c`, `loop.c` | frame, pause and stall counters, input queue, run state, simulation goal, player count | `game_simulation`, the callbacks for input and file changes, `loop_*` |
| Connection | `connection.c`, `network.c` | receive buffer, `buffering`, endpoints | `connection_init`, `_io`, `_processing`, `_sync`, `_term` |
| Local relay | `network_server.c` | receive buffer of a thread of its own | `server_routine`, `server_process`, `server_message` |
| Records | `record.c` | byte buffer, allocation, write and read offsets | append, read, peek, read bytes, rewind (in `main.c`) |
| Line input | `input.c` | a 4096 byte buffer and the count of bytes in use | `input_init`, `input_poll`, `input_shutdown` |
| File changes | `notify.c` | inotify descriptors | `notify_init`, `notify_poll`, `notify_shutdown` |
| Library loader | `dlfn.c` | tables of functions and objects | `dlfn_init`, `dlfn_open`, `dlfn_close` |
| Commands | `execute.c`, `functor.c` | parameter, result and functor tables | one function per command |
| Variables | `global.c` | table of 64 variables with an operation each | lookup, creation, `global_var_ops` |
| Frame clock | `platform_clock.c`, `rdtsc.h` | rhythmic time, step, jerk count | `clock_init`, `clock_sync` |
| Hash, statistics | `hash.c`, `stats.c`, `float.c` | none, accumulators | pure functions |

How they interact: `game_simulation` calls `notify_poll` and `input_poll`, whose
callbacks append to the input record or end the run; it fills the input record
up to `loop_write_frame` with empty commands; `connection_sync` reads the
socket, appends what arrived to one game record per player, and writes the
input that is due; `command_preview` decides whether every player's next
command is there; `command_frame` reads one command per player, `execute_any`
executes them, and the frame is simulated or paused.  The main thread and the
relay thread share nothing but the socket pair.

What is hard here: the interleaving of consoles that type, stall, join and
start over at different times; messages that arrive in pieces, are cut short or
are still on their way while a console replays; fixed size buffers; state that
survives a restart although it should not, and the reverse.  The list of these
hazards, each at its line, is in `PROJECT.json`.

What makes the parts correct:

* loop and connection: consoles never run ahead of each other's input, lose or
  reorder no command, agree on the history, do not wait forever, and get out
  when asked to;
* relay: commands come back whole, in order and once, however the bytes split,
  and the thread can always be stopped;
* host connection: an attempt to connect ends, what arrived is used, a broken
  connection is noticed, and messages and turns at the limits of the buffers
  neither overrun them nor are dropped in silence;
* records: readers see exactly what was appended, inside the allocation;
* line input: lines are handed over whole, once and in order;
* commands, variables, loader: replaying the same commands from a fresh start
  gives the same state, and handles never outlive what they refer to;
* clock: frames keep their rhythm and never wait for longer than a step.

## Modules

| Module | What it models |
|---|---|
| `TurnLog` | abstract: one log per player, and games that follow from the logs |
| `Lockstep` | consoles, their records and the relay, with whole messages; implements `TurnLog` |
| `CommandLog` | abstract: an append-only log with independent readers |
| `Record` | `record.c` with its bytes; implements `CommandLog` |
| `EchoChannel` | abstract: commands come back in order |
| `Relay` | the bytes between console and server thread, from `connection_init` to `connection_term`; implements `EchoChannel` |
| `Session` | one console on a game host: connecting, losing the connection, buffers at their limits |
| `LineStream` | abstract: bytes in, lines out |
| `Input` | `input.c` with every byte of its buffer; implements `LineStream` |
| `Execute` | the commands, variables, functors and the frame that uses them |
| `HotReload` | a library that is rebuilt while consoles watch, load and close it |
| `Metronome` | abstract: beats on a clock that never wraps |
| `Clock` | `clock_sync` and the waiting of `loop_one`; implements `Metronome` |
| `MCLockstep`, `MCRecord`, `MCRelay`, `MCExecute`, `MCHotReload` | constants for TLC |
| `LockstepProofs`, `RecordProofs`, `RelayProofs`, `SessionProofs`, `InputProofs`, `ExecuteProofs`, `HotReloadProofs`, `ClockProofs` | theorems |

`Lockstep` uses a record as the sequence of its commands and a socket as a
sequence of messages; `Record` and `Relay` justify the two views.  `Session`
takes from `Lockstep` that each record was read once per turn (`TurnCount`) and
adds the lengths of commands and the errors of a real connection.  `Lockstep`
shows that all consoles execute the same commands and simulate the same frames;
`Execute` takes that common history as given and asks what the commands do.
`HotReload` is the cause of the `Reload` actions of the two.

### Lockstep

Each console is a process with a program counter: `poll` (callbacks, then the
fill loop and `connection_io`), `recv` (`connection_processing`, one message at
a time), `send` (the write loop of `connection_sync`, then stall or turn), `stop`
(the code after the loop, `main`'s rewind and the next run) and `done`.  Actions
that the main thread takes between two of these points are not interrupted by
anything it shares, so they are single steps; messages move in between.

`input_callback` is split into `InputLine` (recorded), `Reload` (`!r`, and
`notify_callback`) and `Quit` (`!q`).  `!l` and the prompt change nothing.
Executing a command is reduced to what the protocol depends on, its effect on
the simulation goal.  `loop_one`'s waiting and `stall_frame` are left out: time
does not enter any decision of the protocol.

The relay is `network_server.c` for one console.  For several it is the game
host that `connection_init` dials, which is not part of the repository.  It is
modelled by what `connection_processing` needs from it: every console receives
every player's commands in the order they were sent and from the first one on.
The order between different players is left open; one queue per console and
player allows more interleavings than a single byte stream would.

A write that finds the socket full loses the whole message here.  In the
program it may lose a part of it, and the rest merges with the next command;
module `Relay` has that case.

`TurnLog` is the game as the players see it: one log per player, and on every
console a game whose turn, frame and goal follow from the logs.  The refinement
maps a player's log to what its own console has back, has on its way back and
has in its socket (`SharedLog`), so a command that a full socket refused is in no
log; a console that was told to stop shows no game until it starts over.

### Record

`buf` is the used part of the C buffer; `log` and `starts` are history
variables.  Byte counts are taken modulo `WordSize` where the code doubles
`alloc_bytes`.  `record_playback` and `record_read` differ only in how they
return the command, so one action stands for both.  `record_clone` and
`record_to_disk` copy the bytes in use (`Copy`), and `record_playback_all` is the
function that takes such bytes apart.  A failing `realloc` ends the process and
is left out.  So are `record_free` and what only tests do (`record_compare`,
`record_reset`, a writer that is rewound).

### Relay

The two header fields are one element each.  The console's end of the socket
pair does not block, so a write takes what fits or part of it; the server's end
blocks, so its write is a step that is repeated as room appears.

The console leaves when the socket cannot be written or when the player quits.
`connection_term` is three steps, the order of which is `TermOrder`: close the
console's end, close the server's end, join the thread.  The thread goes on in
between.  It sees the first step as a hang-up, after what is left to read, and
as an error when the console had not read everything; the second as an invalid
descriptor.  A write after the first step raises SIGPIPE (`ServerKilled`), which
the program does not handle; one after the second just fails; one that waited
for room when the console closed its end returns.

A command may be too long for the console's receive buffer once the server has
put a header before it (4088 bytes or more in the code).  It then stays there
and nothing comes back any more.

### Session

The same `connection.c` with a host: `network_configure` and `network_connect`,
the loop of `connection_init`, then one pass through `connection_io`,
`connection_processing`, the write loop and the turn per frame.  Bytes are
counted, not stored: a message is its player and the length of its command.
`Bytes`, `Record` and `buffer_write` run through messages or players one after the
other, as the code's loops do, and are recursive functions so that proofs can
follow them.  `Revents` is what `poll` reports for each state of the connection.  The host sends
messages of any player and any length, closes its end (`fin`) or resets.  Its
messages are well-formed, as those of `network_server.c` are: that the header has
a player's number and the true length, which is at least that of the NUL, is an
assumption on the host.  `connection_processing` (`connection.c:96-105`) takes the
header unchecked and relies on it.

`network_poll` sets `disconnected` and `connection_io` looks at it in the next
frame only; in between the console may still write, and after a reset its second
write raises SIGPIPE.  A host that only closes its end is never noticed: `read`
returns 0 without POLLHUP, and the console goes on until the reset that its own
writes provoke.  A connection attempt that never began (no address, no socket,
`connect` refused at once) is waited for without end.  The model has both
behaviours; `LossNoticed` and `InitEnds` leave them out by their premises.

### Input

All bytes of the buffer are state, because `strchr` looks beyond `used_buf` and
`memmove` leaves old bytes there.  One call of `input_poll` is a read, one step
per line and the end of the scan.

`Spec` has the reads of a terminal (at most one line) and those that leave half
of the buffer free.  `PipeSpec` has all reads, as a pipe may deliver them; under
it the program fails, see the findings.

### Execute

`script` is the history that all consoles share: commands, each followed by a
simulated frame or not (a command that is not the last of its turn has no frame
after it).  A console executes the next entry (`ExecuteParameter`,
`ExecuteResult`, `ExecuteVariable`, `ExecuteMutation`, `ExecuteBenchmark`,
`ExecuteObject`, `ExecuteOther`) and then simulates or pauses.  `Simulate` is the
whole frame: `global_var_ops` in the order of the table, then for each function
`call_load_param`, the call and `call_store_result`.  `Reload` is the end of a
run and the start of the next, with what `execute_init` clears and what stays.

Tokens are words, not characters; `Literal` says what `set_value_param` makes of
one and `Stored` what `global_init` keeps of a name: a name of 16 bytes or more
is stored cut short, looked up whole, and so created again by every use. What
the library returns (`Call`) and floating point (`DoubleOp`) are external
constants. A word that the code never wrote is any member of `Garbage`, another one in each
round of `global_var_ops`, whose `result` is not initialized (`global.c:217`). A handle
is an index; a call through an index that is not in use ends in phase `crashed`.
`called` and `calls` record what the library saw, `bound` what result commands
asked for in this run.

### HotReload

`pc` walks through `Order`, the calls of `game_simulation` that matter here.  The
compiler truncates, writes and closes `feature.so` at any time; other files of
the directory are written too.  inotify and `dlopen` are external: a watch
queues one event per closed file, and a file that is still being written cannot
be loaded.  `notify_callback` looks for the name of the file anywhere in the path of
the library (`main.c:188`), so a file whose name is a part of that path ends the run
as well (`InPath`): one reload more than needed.  The tables keep the build that an entry came from, so that an entry
that outlives its library shows, and the number of its symbol, so that one that
is listed twice shows.  `Found` has the symbols that `parse_symtab` lists in the
order of the symbol table; `Sorted` is `qsort` by address, of which equal addresses
may come in any order.  The walk through the ELF headers is reduced to its
result, the symbol table.

### Clock

`now` is unbounded time, the counter is `now` modulo `WordSize`, and `due` is the
time that `tsc_clock` stands for.  Delays between two reads of the counter are
any number up to `MaxDelay`, the work of a frame included.  A sleep may be
interrupted at any microsecond.  The calibration is external: it gives
`TscPerUsec`.

## Runs

| Run | Instance | Shows |
|---|---|---|
| `lockstep_two` | two consoles of frame rates 1 and 2, goals 1 and 9, one reload once both players are known, sockets of one message that lose the next | types, `InputConservation`, `TurnCount`, `NeverAhead`, `NeverCorrupt`, `Agreement`, `ImplementsTurnLog` |
| `lockstep_live` | two consoles, one may quit or lose its connection, one is reloaded, fair | `Progress`: no stall lasts forever; `LeaveCompletes` |
| `record` | commands of 0 to 2 bytes, allocation 3, two readers | `Fits`, `CopyReplays`, `ImplementsLog` |
| `relay` | buffers that hold one message, commands of 0 to 3 bytes of which the longest does not fit back, a socket of two bytes back to the console, leaving at any point, fair | buffer bounds, `ImplementsEcho`, `EchoDelivers`, `TermCompletes`, `KilledInFlight` |
| `session` | two players and a number beyond the array, messages that fit, just fit and do not fit, a command buffer for two of the shortest, fair | buffer bounds, `OnlyAllocated`, `FrameFits`, `Delivered`, `LossNoticed`, `InitEnds` |
| `input` | six bytes, two letters | `Terminated`, `RoomToRead`, `ImplementsLines` |
| `input_pipe` | the same with all reads | refutes `OnlyArrived` |
| `execute` | scripts of three out of nineteen commands, one name too long for the table, two functions of two parameters, two variables, four functors, words of two bits, reloads | table bounds, `UniqueNames`, `LoadHandles`, `StoredResults`, `CrashCauses` |
| `execute_stale` | one result command and reloads | refutes `NoCrash` |
| `execute_replay` | two consoles, one variable that counts | refutes `Synchronized` |
| `hot_reload` | three builds, tables of two symbols, reads of two events, fair | `TablesOfLoaded`, `NoBuildMissed`, `BuildLoaded` |
| `clock` | a counter of six bits, frames of nine ticks, delays of up to 30 | `RateBounded`, `ImplementsMetronome` |

Bounds.  `MaxTurns` bounds the turns of a run and `MaxInput` the recorded
commands below which a line is typed; both are guards.  Two turns are enough for
a first player, a joining player, a command whose goal is reached within the run
and one whose goal is not, and a replay of all of it; two consoles are enough
for one to be ahead of, behind and replaying against the other.  With goals 1
and 9 two players may set different goals in one turn.  `ReloadRuns`
names the runs in which a console may be reloaded.  In `record` the buffer
doubles twice.  In `relay` (`MaxSent`) three commands are in flight through
buffers that hold one, a write is sent whole, cut short or refused, and the
console leaves while the thread polls, reads, waits for room and echoes.  In
`session` (`MaxStream`, `MaxTurns`) two messages are enough for two players, known
in either order, for a message in pieces, for two in one read, for one behind a
message that does not fit and for a turn of both that does not fit.  In `input` the buffer has
room for an overlong line, for a line of more than half of it and for several
lines in one half; `line` keeps the last line only, so the state space is finite
without a bound.  In `execute` (`MaxScript`) a third name meets a table of two
variables, a variable is rebound and used by an operation, a parameter and a
result at once, the table of functors is full when a third or fourth one is
added (`MaxFunc`), and a replay runs with variables of the first run.  In
`hot_reload` a build is replaced before, while and after it is loaded, and one
has more functions than fit.  In `clock` (`MaxFrames`) the counter wraps in every
position of a frame, also during sleep.

Deadlock checking is off where the bounds, or players that left, end a
behaviour; it is on in `record` and `input`.

Fairness.  The main thread never blocks, so each console takes its steps (weak
fairness).  The relay thread is scheduled, and its blocking write goes on when
there is room.  `Receive` is strongly fair per player: `connection_io` polls in
every frame and reads what has arrived, so a message that is in the socket
again and again when it is polled is read.  What a player types, reloads and
quits is never fair.  In `Relay` both threads are scheduled.  In
`Session` the main thread goes on and an attempt to connect is answered or times
out; nothing is assumed of the host.  In `HotReload` the main thread goes on and a compiler that
has begun a file closes it; when it begins one is left open.

Every property has a mutant in `PROJECT.json`: a definition of the model changed
as a slip in the C code would change it, under which TLC refutes the property.

## Findings

Three runs refute what the program says of itself.

* `input_pipe`: with a read of several lines that fills more than half of the
  buffer, the second line leaves a newline behind `used_buf` (`memmove` moves
  fewer bytes than were in use).  A later short read joins these old bytes to a
  line that nobody typed, and `used_buf` becomes negative.  With six bytes: `aa`,
  newline, newline, then `aa`.
* `execute_stale`: `execute_init` clears the functors, the results and the load
  handles, but not `save_result_handle`.  A frame of the replay that comes before
  the result command calls through a functor that is not there.  `CrashCauses` says
  that this and a full functor table are the only ways to get there.
* `execute_replay`: variables and their operations are never reset.  A console
  that starts over replays its commands on top of them and calls the library with
  other parameters than a console that did not, although the prompt lists these
  commands as synchronized.

Other instances of `Execute` refute the same two properties for other reasons;
`MCExecute` has the sets of commands for `Typed`.  `NoCrash`: a full functor table
(`MaxFunc = 6`, `MaxScript = 4`, `LoadCommands`), where the handle -1 is kept and
used as an index; an object that does not exist (`ObjectCommands`).
`Synchronized`, without reloads: a mutation that mixes an integer and a double
(`MixedCommands`), which stores a word that was never written; a benchmark
(`BenchmarkCommands`), which ends by each console's own clock.

## Proofs

TLAPS checks these for all values of the constants allowed by the assumptions,
which every run evaluates for its instance.

`LockstepProofs`, assuming `ConstantsAssumption` (at least one console, frame
rates of at least 1, goals are natural numbers):

* `TypeCorrect`: `Spec => []TypeOK`.
* `TurnCountHolds`, `NeverAheadHolds`, `NeverCorruptHolds`: from the inductive
  invariant `LockstepInv`.  `TurnCount` alone is not inductive: that every read
  count rises by one in a turn needs to know that none is beyond its record
  (`ReadBehindWrite`), and `NeverAhead` needs that a record is no longer than
  what its player sent (`SentBound`), also when messages are lost.
* `InputConservationHolds`: from `InputInv`, which adds that the input record is
  never behind what was sent (`SentRecorded`) and is filled up when the write
  loop runs (`FilledUp`).
* `ImplementsTurnLogHolds`: `Spec => ImplementsTurnLog`.  The invariant is
  `OneLog`: what a console has of a player and what is on its way to it together
  are the same on every console, also after a write was cut short.  A turn then
  executes what the log of each player has at that place.
* `AgreementHolds`: `Agreement` is not inductive, because a console that is behind
  must come to the very state that another one has left.  The proof carries a
  transcript along: for every number of players a sequence of games that follow
  from the logs turn by turn, such that every running console is somewhere in it
  (`Covered`).  The logs only grow, so a transcript stays one.

Frame rate 0 is excluded by the assumption: `-f 0` makes `turn_nearest` 0 from
the start and `loop_init` divides by it.

`RecordProofs`, assuming `RecordAssumption` (a command and its NUL fit into a
new record; byte counts stay below half of their width):

* `FitsHolds`: doubling once is enough, as what is needed exceeds the allocation
  by at most one command.
* `RecordImplementsLog`: `Spec => ImplementsLog`.  The invariant says where each
  command starts (`LayoutInv`) and that a reader that has read n commands is at
  the start of command n + 1 (`ReadersInv`).
* `CopyReplaysHolds`: `record_playback_all` is a recursive function over the bytes
  of a copy.  `CopyInv` says that a copy is the bytes of the first n commands; an
  induction over the commands shows that the function returns them.
* `TypeOKHolds`: that `record_read_bytes` returns commands also needs the layout.

`RelayProofs`, assuming `RelayAssumption` (no command holds a NUL, and with its
NUL it fits into the server's buffer):

* `ImplementsEchoHolds`: `Spec => ImplementsEcho`, with `TypeOKHolds` (buffers and
  sockets within their sizes) and `KilledInFlightHolds`.  The invariant `RelayInv`
  says what all the bytes mean that are anywhere between the two threads: there
  are messages M, each ending in its only NUL, of which the server has taken up
  k, such that server buffer and socket together are the messages after k and
  the start of another one, and console buffer, socket and the writes that the
  server has still to do are the frames of the messages from the number recorded
  to k (`Wire`).  While no write was cut short M is what was sent.  After one was,
  the rest of it merges with the next command into a message, and only the count
  is kept.  Reads and writes that move bytes, in whatever portions, change
  neither side (`WireKept`); the lemmas about pieces in a stream of bytes
  (`LaidTake`, `LaidAdd`, `LaidMore`, `PiecesAdd`) say what taking up, recording and sending a
  message does.  Once the console's end is closed nothing is said of the way back.

`SessionProofs`, assuming `SessionAssumption` (players and lengths are natural
numbers, that is the host's messages are well-formed; the sizes of the buffers are
positive):

* `TypeOKHolds`, `OnlyAllocatedHolds` and `FrameFitsHolds` from `SessionInv`:
  what was processed was taken, what was taken arrived, what is in use is at most
  the buffer (`StreamInv`), and whoever sent a processed message is known and
  within the array (`PlayersInv`).  `connection_io` reads at most the room that is
  left and `connection_processing` takes a message only when all of it is there,
  so the sum of the sizes of processed messages never exceeds what was taken.
  `OnlyAllocated` and `FrameFits` are about the loops of `command_preview` and
  `command_frame`: a record that is not empty holds a processed message, whose
  sender is known; and the running check of each command against the rest of the
  buffer is the check of the sum, as every command adds at least its NUL.

`InputProofs`, assuming `InputAssumption` (newline and NUL are two bytes, the
buffer has at least two):

* `TypeCorrect`, `TerminatedHolds`, `RoomToReadHolds`, `InputImplementsLines`
  from `InputInv`.  Its heart is `NoOldNewline`, no newline lies behind
  `used_buf`, with `Tidy`: while lines are taken, either half of the buffer is
  free or only the last byte in use is a newline.  The bytes that `memmove`
  leaves in place then hold no newline but the one just made a NUL.
* `OnlyArrivedHolds`, from the same invariant: under `Spec` no line is found that did not arrive.

`ExecuteProofs`, assuming `ExecuteAssumption`, `ExternalAssumption` (what the
library and floating point return are words) and `TypedAssumption`:

* `TypeOKHolds` from `ExecInv`.  The types are not inductive: a frame reads the
  variables that operations and functors were given when their commands were
  executed, so these must be in the table (`OpsInTable`, `FunctorsInTable`).  What
  `global_var_ops`, the calls of a frame and a benchmark compute are recursive
  functions; that they exist and stay in their types goes by lemmas about loops
  (`LoopExists`, `LoopStays`).
* `LoadHandlesHolds`: functors are only appended until `execute_init` clears
  them together with the handles, and no command but a parameter command for the
  same function changes a handle.
* `UniqueNamesHolds`: a table grows by one name that a lookup has just not found.
* `StoredResultsHolds`, from `ExecInv`, `LoadHandles` and `StoreInv`: a store handle
  alone says nothing, since restarts leave it, but the handle of a function that
  was given a variable in this run leads to the functor that stores there
  (`StoreInvHolds`).  Then loading parameters changes no variable (`LoadParamKeeps`),
  a function changes its own result and its own variable (`CallStores`), and an
  induction over the functions of a frame shows that after the first i the
  variable of a function still holds its result unless a later one up to i
  stores under the same name (`FrameStores`).  The premise that no function has a
  store handle of an earlier run is needed: such a handle may lead to anything.
* `CrashCausesHolds`: by the same lemmas no call in a frame goes through an index
  without a functor unless a handle is -1 or left over (`FrameTame`).

`HotReloadProofs`, assuming `HotReloadAssumption`:

* `TypeOKHolds`, `TablesOfLoadedHolds` and `NoBuildMissedHolds` from `HotInv`: the
  library is closed from `dlfn_shutdown` to the next `dlfn_open`, with empty tables,
  and the watch exists from before the load until after the loop (`Stages`).  That
  `parse_symtab` lists each symbol once and that the sort exists is proved with the
  lemmas about places (`PlacesOnto`, `PlaceInjective`): the elements of a finite
  ordered set have the places 0, 1, ... and each place one element.

`ClockProofs`, assuming `ClockAssumption` (a step is at least one tick; two steps
and the longest delay are shorter than the width of the counter):

* `TypeCorrect`, `RateBoundedHolds` and `ClockImplementsMetronome` from
  `ClockInv`: `tsc_clock` is `due` modulo the width, `now` is never more than a
  step after `due` (a frame that is later restarts the rhythm), and `due` has
  moved by at least a step per finished frame.  Then both comparisons of
  `clock_sync` are about times less than a width apart, and the difference of the
  counters is the difference of the times (lemma `MinusTimes`).  That sleeping
  ends no later than the frame needs that the conversion to microseconds rounds down.

Several of these modules begin with the lemmas on induction that they need.  The
library's theorems take the statement as an operator, which the provers cannot
instantiate; here it is a set of numbers, and the least number outside it
(`WFMin`) gives the contradiction (`UpTo`).

Every safety and action property that a passing run checks, and every refinement,
is a theorem.  Only model-checked are the liveness properties (`Progress`,
`LeaveCompletes`, `EchoDelivers`, `TermCompletes`, `Delivered`, `LossNoticed`,
`InitEnds`, `BuildLoaded`), which need fairness and are outside of what TLAPS
proves, and the three refutations.

## Not modelled

* Malformed messages of a host: a header whose number is not a player's or whose
  length is not that of the command with its NUL.
* Failing system calls, except those of the sockets: `socketpair`, `pthread_create`,
  `malloc`, `inotify_init`, reading the terminal.
* The calibration of the clock and reading the hardware counter.
* `frame_store` (`main.c`), which appends whole objects of the library to a record
  that doubles once per append; `RecordAssumption` excludes objects larger than
  the allocation.
* Hash and statistics: `execute_hash` and the statistics only print; `stats.c` is
  floating point.
* Functions that only tests call, the tests and the examples, and everything that
  only prints.

`PROJECT.json` gives the reason for each part.

## Plan

1. Done: `Lockstep`, `Record`, `Relay`, `Session`, `Input`, `Execute`, `HotReload`
   and `Clock` with their abstract specifications, and the proofs above.
2. Left: the parts listed as not modelled, and the refinement of `Lockstep`'s
   whole messages by the bytes of several consoles, which needs the game host's
   code.
