------------------------------- MODULE Record -------------------------------
(***************************************************************************)
(* record.c: commands stored one after the other, each ended by a NUL      *)
(* byte, in a buffer that doubles when it is full.  One writer appends;    *)
(* any number of offsets read.  The writer of a record is never rewound    *)
(* (main.c rewinds the readers of the game records only).                  *)
(*                                                                         *)
(* buf holds the used_bytes bytes of the C buffer.  The variables log and  *)
(* starts are history: what was appended and where it was stored.          *)
(* copy is what record_clone or record_to_disk made of the record last.    *)
(* A realloc that fails ends the process (CRASH) and is left out.          *)
(***************************************************************************)
EXTENDS Integers, Sequences

CONSTANTS
  Bytes,      \* bytes of a command; NUL is not one of them
  NUL,        \* the byte that ends a command
  Commands,   \* what callers append
  Readers,    \* the read offsets
  None,       \* record_read returned a null pointer
  InitAlloc,  \* alloc_bytes of a new record: 4 * 1024
  WordSize,   \* 2^32: byte counts are of type uint32_t
  MaxBytes    \* bound on used_bytes

\* input.c delivers lines of less than InitAlloc bytes, connection.c's
\* receive buffer has no room for longer ones.  MaxBytes keeps byte counts
\* within half of their width.
ASSUME RecordAssumption ==
  /\ NUL \notin Bytes
  /\ Commands \subseteq Seq(Bytes)
  /\ InitAlloc \in Nat \ {0}
  /\ \A cmd \in Commands : Len(cmd) + 1 <= InitAlloc
  /\ WordSize \in Nat /\ MaxBytes \in Nat /\ 2 * MaxBytes <= WordSize
  /\ InitAlloc < WordSize

VARIABLES
  buf,          \* rec->buf, its first used_bytes bytes
  alloc_bytes,  \* rec->alloc_bytes
  write,        \* the writer's byte_count and command_count
  read,         \* each reader's byte_count and command_count
  ret,          \* the command the last read returned
  copy,         \* the bytes in use of a clone or a file
  log,          \* history: the commands appended
  starts        \* history: the byte offset of each command

vars == <<buf, alloc_bytes, write, read, ret, copy, log, starts>>

used_bytes == Len(buf)

\* A zeroed RecordOffset_t.
OffsetZero == [byte_count |-> 0, command_count |-> 0]

\* record_alloc, and offsets that are zeroed.
Init ==
  /\ buf = <<>>
  /\ alloc_bytes = InitAlloc
  /\ write = OffsetZero
  /\ read = [r \in Readers |-> OffsetZero]
  /\ ret = None
  /\ copy = <<>>
  /\ log = <<>>
  /\ starts = <<>>

\* An offset after a command of the given length.
Advance(off, length) ==
  [byte_count |-> off.byte_count + length + 1,
   command_count |-> off.command_count + 1]

\* record_realloc: the buffer doubles once when more is needed than it has.
\* As a mutant: it doubles one byte too late.
ReallocLate(needed) ==
  IF needed > alloc_bytes + 1 THEN (2 * alloc_bytes) % WordSize ELSE alloc_bytes
record_realloc(needed) ==
  IF needed > alloc_bytes THEN (2 * alloc_bytes) % WordSize ELSE alloc_bytes

\* memcpy of the command to the writer's offset and the NUL behind it; what
\* lies after it in the buffer stays.
Stored(cmd, needed) ==
  SubSeq(buf, 1, write.byte_count) \o Append(cmd, NUL)
    \o SubSeq(buf, needed + 1, Len(buf))

record_append(cmd) ==
  LET needed == write.byte_count + Len(cmd) + 1
  IN  /\ needed <= MaxBytes
      /\ alloc_bytes' = record_realloc(needed)
      /\ buf' = Stored(cmd, needed)
      /\ write' = Advance(write, Len(cmd))
      /\ log' = Append(log, cmd)
      /\ starts' = Append(starts, write.byte_count)
      /\ UNCHANGED <<read, ret, copy>>

\* strlen at a byte offset of a buffer.
\* As a mutant: the NUL is counted.
StrlenWithNul(bytes, at) ==
  1 + CHOOSE n \in 0 .. Len(bytes) - 1 - at :
        /\ bytes[at + n + 1] = NUL
        /\ \A m \in 0 .. n - 1 : bytes[at + m + 1] # NUL
strlen(bytes, at) ==
  CHOOSE n \in 0 .. Len(bytes) - 1 - at :
    /\ bytes[at + n + 1] = NUL
    /\ \A m \in 0 .. n - 1 : bytes[at + m + 1] # NUL

\* record_can_playback, and the test at the head of the read functions.
record_can_playback(r) == read[r].byte_count < used_bytes

\* record_read and record_playback: the command up to the next NUL.
record_read(r) ==
  LET at == read[r].byte_count
      length == strlen(buf, at)
  IN  /\ record_can_playback(r)
      /\ ret' = SubSeq(buf, at + 1, at + length)
      /\ read' = [read EXCEPT ![r] = Advance(@, length)]
      /\ UNCHANGED <<buf, alloc_bytes, write, copy, log, starts>>

\* record_read at the end of the record: a null pointer, no length.
record_read_end(r) ==
  /\ ~record_can_playback(r)
  /\ ret' = None
  /\ UNCHANGED <<buf, alloc_bytes, write, read, copy, log, starts>>

\* The size of the object that a caller of record_read_bytes expects next;
\* at the end it asks for one of any size.
ExpectedSize(r, len) ==
  read[r].command_count < Len(log) => len = Len(log[read[r].command_count + 1])

\* record_read_bytes: an object of known size, copied when it is all there.
record_read_bytes(r, len) ==
  LET at == read[r].byte_count
  IN  /\ ExpectedSize(r, len)
      /\ at + len < used_bytes
      /\ ret' = SubSeq(buf, at + 1, at + len)
      /\ read' = [read EXCEPT ![r] = Advance(@, len)]
      /\ UNCHANGED <<buf, alloc_bytes, write, copy, log, starts>>

record_read_bytes_end(r, len) ==
  /\ ExpectedSize(r, len)
  /\ read[r].byte_count + len >= used_bytes
  /\ ret' = None
  /\ UNCHANGED <<buf, alloc_bytes, write, read, copy, log, starts>>

\* main.c starts a reader over after a run.
\* As a mutant: the byte offset is not reset with the count.
RewindCountOnly(r) == [read[r] EXCEPT !.command_count = 0]
Rewound(r) == OffsetZero

Rewind(r) ==
  /\ read' = [read EXCEPT ![r] = Rewound(r)]
  /\ UNCHANGED <<buf, alloc_bytes, write, ret, copy, log, starts>>

\* record_clone and record_to_disk: the bytes in use, in a record of its own
\* or in a file.
Copy ==
  /\ copy' = buf
  /\ UNCHANGED <<buf, alloc_bytes, write, read, ret, log, starts>>

\* record_playback_all: what the handler is given, command by command.
\* As a mutant: an empty command ends it.
PlayUntilEmpty(bytes) ==
  LET Play[i \in Nat] ==
        IF i >= Len(bytes) \/ strlen(bytes, i) = 0 THEN <<>>
        ELSE <<SubSeq(bytes, i + 1, i + strlen(bytes, i))>>
               \o Play[i + strlen(bytes, i) + 1]
  IN  Play[0]
record_playback_all(bytes) ==
  LET Play[i \in Nat] ==
        IF i >= Len(bytes) THEN <<>>
        ELSE <<SubSeq(bytes, i + 1, i + strlen(bytes, i))>>
               \o Play[i + strlen(bytes, i) + 1]
  IN  Play[0]

Sizes == {Len(cmd) : cmd \in Commands}

Next ==
  \/ \E cmd \in Commands : record_append(cmd)
  \/ Copy
  \/ \E r \in Readers :
       \/ record_read(r) \/ record_read_end(r) \/ Rewind(r)
       \/ \E len \in Sizes : record_read_bytes(r, len) \/ record_read_bytes_end(r, len)

Spec == Init /\ [][Next]_vars

-----------------------------------------------------------------------------
(***************************************************************************)
(* Properties.                                                             *)
(***************************************************************************)

Offsets == [byte_count : Nat, command_count : Nat]

\* Every variable has its type.
TypeOK ==
  /\ buf \in Seq(Bytes \cup {NUL})
  /\ alloc_bytes \in Nat
  /\ write \in Offsets
  /\ read \in [Readers -> Offsets]
  /\ ret \in Commands \cup {None}
  /\ copy \in Seq(Bytes \cup {NUL})
  /\ log \in Seq(Commands)
  /\ starts \in Seq(Nat)

\* record_append never writes past the end of its allocation, although
\* record_realloc doubles only once.
Fits == used_bytes <= alloc_bytes

\* The byte buffer is a log of commands: every reader gets exactly the
\* commands that were appended, in order, empty ones included, and is told
\* that there are no more only when it has read them all.
Log == INSTANCE CommandLog WITH
         pos <- [r \in Readers |-> read[r].command_count]
ImplementsLog == Log!Spec

\* A copy of the bytes of the record replays exactly the commands that had
\* been appended when it was made, whatever the record does afterwards.
CopyReplays ==
  LET cmds == record_playback_all(copy)
      bytes == Len(copy)
  IN  /\ Len(cmds) <= Len(log)
      /\ cmds = SubSeq(log, 1, Len(cmds))
      /\ bytes = IF Len(cmds) < Len(log) THEN starts[Len(cmds) + 1] ELSE used_bytes
=============================================================================
