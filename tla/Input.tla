------------------------------- MODULE Input --------------------------------
(***************************************************************************)
(* input.c: lines put together from what read returns.  input_poll is the  *)
(* read followed by one step per line found and a step that ends the scan; *)
(* it runs in the main thread alone.  The bytes behind used_buf are part   *)
(* of the state: memmove leaves old bytes there and strchr looks at them.  *)
(*                                                                         *)
(* What arrives is external.  In Spec a read is one that a terminal in     *)
(* canonical mode gives, at most one line, or one that leaves half of the  *)
(* buffer free.  In PipeSpec a read may return anything that has room.     *)
(* A poll or read that fails is left out.                                  *)
(***************************************************************************)
EXTENDS Integers, Sequences

CONSTANTS
  Chars,  \* bytes other than newline and NUL
  NL,     \* newline
  NUL,    \* the byte 0
  Size,   \* sizeof(buf)
  None    \* no line yet

Bytes == Chars \cup {NL, NUL}

ASSUME InputAssumption ==
  /\ Size \in Nat /\ Size > 1
  /\ NL \notin Chars /\ NUL \notin Chars /\ NL # NUL
  /\ None \notin Seq(Bytes)

VARIABLES
  pc,        \* "poll", or "scan" inside input_poll
  buf,       \* buf, all of its bytes
  used_buf,  \* used_buf
  line       \* what the handler was last called with

vars == <<pc, buf, used_buf, line>>

Cells == 0 .. Size - 1
buf_len == Size - 1

Init ==
  /\ pc = "poll"
  /\ buf = [i \in Cells |-> NUL]
  /\ used_buf = 0
  /\ line = None

\* How much read may return.
\* As a mutant: the last byte is not set aside for the terminating NUL.
RoomWithoutNul == Size - used_buf
Room == buf_len - used_buf

Terminal(chunk) == \A i \in 1 .. Len(chunk) - 1 : chunk[i] # NL
HalfFree(chunk) == 2 * (used_buf + Len(chunk)) <= Size

\* What read returns; nothing at the end of the file.
AnyChunks == UNION {[1 .. n -> Chars \cup {NL}] : n \in 0 .. Room}
Chunks == {chunk \in AnyChunks : Terminal(chunk) \/ HalfFree(chunk)}

\* The buffer after a read.
Filled(chunk) ==
  [i \in Cells |-> IF i \in used_buf .. used_buf + Len(chunk) - 1
                   THEN chunk[i - used_buf + 1] ELSE buf[i]]

InputRead(chunk) ==
  /\ pc = "poll"
  /\ buf' = Filled(chunk)
  /\ used_buf' = used_buf + Len(chunk)
  /\ pc' = "scan"
  /\ UNCHANGED line

\* strchr: the first newline, unless a NUL comes first.
strchr == {i \in Cells : buf[i] = NL /\ \A j \in 0 .. i - 1 : buf[j] \notin {NL, NUL}}

\* The newline becomes a NUL and what follows it moves to the front; the last
\* bytes of the buffer stay.
\* As a mutant: the newline stays too.
MovedWithNewline(end) ==
  [i \in Cells |-> IF i + end + 1 < Size THEN buf[i + end + 1] ELSE buf[i]]
Moved(end) ==
  [i \in Cells |-> IF i + end + 1 < Size THEN buf[i + end + 1]
                   ELSE IF i = end THEN NUL ELSE buf[i]]

\* The bytes in use after a line and its newline left.
\* As a mutant: the newline is not counted.
RemainingWithNewline(end) == used_buf - end
Remaining(end) == used_buf - (end + 1)

InputLine ==
  /\ pc = "scan"
  /\ \E end \in strchr :
       /\ line' = [n \in 1 .. end |-> buf[n - 1]]
       /\ buf' = Moved(end)
       /\ used_buf' = Remaining(end)
  /\ UNCHANGED pc

\* used_buf when no newline is left: a line that is longer than the buffer
\* is dropped.
\* As a mutant: it is kept.
KeptLine == used_buf
UsedAfterScan == IF used_buf = buf_len THEN 0 ELSE used_buf

InputScanned ==
  /\ pc = "scan"
  /\ strchr = {}
  /\ used_buf' = UsedAfterScan
  /\ pc' = "poll"
  /\ UNCHANGED <<buf, line>>

\* game_simulation ends and starts again: input_shutdown, then input_init.
InputRestart ==
  /\ pc = "poll"
  /\ used_buf' = 0
  /\ buf' = [buf EXCEPT ![buf_len] = NUL]
  /\ UNCHANGED <<pc, line>>

Next ==
  \/ \E chunk \in Chunks : InputRead(chunk)
  \/ InputLine \/ InputScanned \/ InputRestart

Spec == Init /\ [][Next]_vars

\* Standard input is a pipe.
PipeNext ==
  \/ \E chunk \in AnyChunks : InputRead(chunk)
  \/ InputLine \/ InputScanned \/ InputRestart

PipeSpec == Init /\ [][PipeNext]_vars

-----------------------------------------------------------------------------
(***************************************************************************)
(* Properties.                                                             *)
(***************************************************************************)

\* Every variable has its type: used_buf is never negative.
TypeOK ==
  /\ pc \in {"poll", "scan"}
  /\ buf \in [Cells -> Bytes]
  /\ used_buf \in 0 .. buf_len
  /\ line \in Seq(Chars) \cup {None}

\* However bytes are read, moved and dropped, the buffer ends with a NUL: strchr
\* never runs past it.
Terminated == buf[buf_len] = NUL

\* The next read always has room: an overlong line cannot wedge the console.
RoomToRead == pc = "poll" => Room > 0

\* Every line that strchr finds has arrived: its newline is a byte in use, not
\* one that memmove left behind.  The buffer is dropped only for lines that are
\* longer than it.
OnlyArrived == pc = "scan" => \A end \in strchr : end < used_buf

\* The bytes that arrived and do not make a line yet.
pending == [n \in 1 .. used_buf |-> buf[n - 1]]

\* input_poll implements a stream of lines: what read returned is handed to
\* the handler line by line, whole, once and in order, and no old byte behind
\* used_buf is ever part of a line.
Lines == INSTANCE LineStream WITH owed <- pending
ImplementsLines == Lines!Spec
=============================================================================
