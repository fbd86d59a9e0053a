---------------------------- MODULE InputProofs -----------------------------
(***************************************************************************)
(* Proofs about module Input, for a buffer of any size: used_buf stays     *)
(* within the buffer, the terminating NUL survives, reads always have room *)
(* and input_poll implements a stream of lines.                            *)
(*                                                                         *)
(* The argument: no newline lies behind used_buf (NoOldNewline).  memmove  *)
(* keeps it so because the bytes it leaves in place hold none: either they *)
(* lie in the free half of the buffer, or the newline just found was the   *)
(* only one, and it has been made a NUL (Tidy).                            *)
(***************************************************************************)
EXTENDS Input, TLAPS, SequenceTheorems, WellFoundedInduction

InUse == \A i \in 0 .. used_buf - 1 : buf[i] # NUL

NoOldNewline == \A i \in used_buf .. Size - 1 : buf[i] # NL

Tidy == 2 * used_buf <= Size \/ \A i \in 0 .. used_buf - 2 : buf[i] # NL

Scanned == pc = "poll" => \A i \in 0 .. used_buf - 1 : buf[i] # NL

InputInv ==
  /\ TypeOK
  /\ Terminated
  /\ RoomToRead
  /\ InUse
  /\ NoOldNewline
  /\ Tidy
  /\ Scanned

-----------------------------------------------------------------------------

\* A set of natural numbers that is not empty has a least element.
LEMMA LeastNat ==
  ASSUME NEW S \in SUBSET Nat, NEW n \in S
  PROVE  \E m \in S : \A k \in S : m <= k
<1> DEFINE R == OpToRel(<, Nat)
<1>1. IsWellFoundedOn(R, Nat)
  BY NatLessThanWellFounded
<1>2. R = {ss \in Nat \X Nat : ss[1] < ss[2]}
  BY DEF OpToRel
<1> HIDE DEF R
<1>3. \A j, k \in Nat : j < k => <<j, k>> \in R
  BY <1>2
<1>4. PICK m \in S : \A k \in S : ~(<<k, m>> \in R)
  BY <1>1, WFMin, Zenon
<1>5. \A k \in S : k \in Nat /\ m \in Nat /\ ~(k < m)
  BY <1>3, <1>4
<1> QED BY <1>5

\* What read returns is a sequence that fits into the room left.
LEMMA ChunkType ==
  ASSUME NEW chunk \in Chunks, used_buf \in 0 .. buf_len
  PROVE  /\ Len(chunk) \in 0 .. Room
         /\ \A i \in 1 .. Len(chunk) : chunk[i] \in Chars \cup {NL}
         /\ Terminal(chunk) \/ HalfFree(chunk)
<1> DEFINE S == Chars \cup {NL}
<1>1. PICK n \in 0 .. Room : chunk \in [1 .. n -> S]
  BY DEF Chunks, AnyChunks
<1>2. n \in Nat
  BY <1>1, InputAssumption DEF Room, buf_len
<1>3. chunk \in Seq(S)
  BY <1>1, <1>2, SeqDef
<1>4. Len(chunk) = n
  <2>1. 1 .. Len(chunk) = 1 .. n /\ Len(chunk) \in Nat
    BY <1>1, <1>3, LenProperties
  <2> QED BY <1>2, <2>1
<1> QED BY <1>1, <1>4 DEF Chunks

\* Where the newline that strchr finds is.
LEMMA NewlineInUse ==
  ASSUME InputInv, NEW end \in strchr
  PROVE  /\ end \in 0 .. used_buf - 1 /\ end < Size - 1
         /\ buf[end] = NL
         /\ \A j \in 0 .. end - 1 : buf[j] # NL
         /\ 2 * used_buf <= Size \/ end = used_buf - 1
<1>1. end \in 0 .. Size - 1 /\ buf[end] = NL /\ \A j \in 0 .. end - 1 : buf[j] # NL
  BY DEF strchr, Cells
<1>2. used_buf \in Int /\ used_buf <= Size - 1 /\ 0 <= used_buf
  BY InputAssumption DEF InputInv, TypeOK, buf_len
<1>3. end < used_buf
  BY <1>1, <1>2, InputAssumption DEF InputInv, NoOldNewline
<1> QED BY <1>1, <1>2, <1>3, InputAssumption DEF InputInv, Tidy

\* A read keeps the invariant.
LEMMA ReadStep ==
  ASSUME InputInv, NEW chunk \in Chunks, InputRead(chunk)
  PROVE  InputInv'
<1> DEFINE len == Len(chunk)
<1>1. /\ Size \in Nat /\ Size > 1 /\ used_buf \in 0 .. Size - 1
      /\ NL # NUL /\ NUL \notin Chars /\ buf \in [0 .. Size - 1 -> Bytes]
  BY InputAssumption DEF InputInv, TypeOK, buf_len, Cells
<1>2. /\ len \in 0 .. Size - 1 - used_buf
      /\ \A i \in 1 .. len : chunk[i] \in Chars \cup {NL}
      /\ Terminal(chunk) \/ HalfFree(chunk)
  BY ChunkType DEF InputInv, TypeOK, Room, buf_len
<1>3. /\ used_buf' = used_buf + len /\ pc = "poll" /\ pc' = "scan" /\ line' = line
      /\ buf' = [i \in 0 .. Size - 1 |->
                   IF i \in used_buf .. used_buf + len - 1
                   THEN chunk[i - used_buf + 1] ELSE buf[i]]
  BY DEF InputRead, Filled, Cells
<1>4. /\ Terminal(chunk) => \A i \in 1 .. len - 1 : chunk[i] # NL
      /\ HalfFree(chunk) => 2 * (used_buf + len) <= Size
  BY DEF Terminal, HalfFree
<1> HIDE DEF len
<1>5. TypeOK'
  <2>1. \A i \in 0 .. Size - 1 : buf'[i] \in Bytes
    BY <1>1, <1>2, <1>3 DEF Bytes
  <2>2. buf' \in [0 .. Size - 1 -> Bytes]
    BY <1>3, <2>1
  <2>3. used_buf' \in 0 .. Size - 1
    BY <1>1, <1>2, <1>3
  <2> QED BY <1>3, <2>2, <2>3 DEF InputInv, TypeOK, buf_len, Cells
<1>6. Terminated'
  BY <1>1, <1>2, <1>3 DEF InputInv, Terminated, buf_len
<1>7. InUse'
  BY <1>1, <1>2, <1>3 DEF InputInv, InUse
<1>8. NoOldNewline'
  BY <1>1, <1>2, <1>3 DEF InputInv, NoOldNewline
<1>9. Tidy'
  <2>1. CASE HalfFree(chunk)
    BY <1>1, <1>2, <1>3, <1>4, <2>1 DEF Tidy
  <2>2. CASE Terminal(chunk)
    BY <1>1, <1>2, <1>3, <1>4, <2>2 DEF InputInv, Tidy, Scanned
  <2> QED BY <1>2, <2>1, <2>2
<1> QED BY <1>3, <1>5, <1>6, <1>7, <1>8, <1>9 DEF InputInv, RoomToRead, Scanned

\* Handing over a line keeps the invariant.
LEMMA LineStep ==
  ASSUME InputInv, InputLine
  PROVE  InputInv'
<1>1. PICK end \in strchr :
        /\ line' = [n \in 1 .. end |-> buf[n - 1]]
        /\ buf' = Moved(end)
        /\ used_buf' = used_buf - (end + 1)
  BY DEF InputLine, Remaining
<1>2. /\ end \in 0 .. used_buf - 1 /\ end < Size - 1
      /\ \A j \in 0 .. end - 1 : buf[j] # NL
      /\ 2 * used_buf <= Size \/ end = used_buf - 1
  BY NewlineInUse
<1>3. /\ Size \in Nat /\ Size > 1 /\ used_buf \in 0 .. Size - 1
      /\ NL # NUL /\ buf \in [0 .. Size - 1 -> Bytes]
  BY InputAssumption DEF InputInv, TypeOK, buf_len, Cells
<1>4. buf' = [i \in 0 .. Size - 1 |->
                IF i + end + 1 < Size THEN buf[i + end + 1]
                ELSE IF i = end THEN NUL ELSE buf[i]]
  BY <1>1 DEF Moved, Cells
<1>5. pc = "scan" /\ pc' = "scan"
  BY DEF InputLine
<1>6. TypeOK'
  <2>1. \A i \in 0 .. Size - 1 : buf'[i] \in Bytes
    BY <1>2, <1>3, <1>4 DEF Bytes
  <2>2. buf' \in [0 .. Size - 1 -> Bytes]
    BY <1>4, <2>1
  <2>3. used_buf' \in 0 .. Size - 1
    BY <1>1, <1>2, <1>3
  <2>4. line' \in Seq(Chars)
    <3>1. \A n \in 1 .. end : buf[n - 1] \in Chars
      BY <1>2, <1>3 DEF InputInv, InUse, Bytes
    <3>2. line' \in [1 .. end -> Chars]
      BY <1>1, <3>1
    <3> QED BY <1>2, <3>2, SeqDef
  <2> QED BY <1>5, <2>2, <2>3, <2>4 DEF TypeOK, buf_len, Cells
<1>7. Terminated'
  BY <1>2, <1>3, <1>4 DEF InputInv, Terminated, buf_len
<1>8. InUse'
  BY <1>1, <1>2, <1>3, <1>4 DEF InputInv, InUse
<1>9. NoOldNewline'
  <2> SUFFICES ASSUME NEW i \in used_buf' .. Size - 1 PROVE buf'[i] # NL
    BY DEF NoOldNewline
  <2>1. i \in 0 .. Size - 1 /\ i >= used_buf - (end + 1)
    BY <1>1, <1>2, <1>3
  <2>2. CASE i + end + 1 < Size
    BY <1>2, <1>3, <1>4, <2>1, <2>2 DEF InputInv, NoOldNewline
  <2>3. CASE i + end + 1 >= Size /\ i = end
    BY <1>2, <1>3, <1>4, <2>1, <2>3
  <2>4. CASE i + end + 1 >= Size /\ i # end
    <3>1. buf'[i] = buf[i]
      BY <1>2, <1>3, <1>4, <2>1, <2>4
    <3>2. i >= used_buf \/ i \in 0 .. end - 1
      BY <1>2, <1>3, <2>1, <2>4
    <3> QED BY <1>2, <1>3, <2>1, <3>1, <3>2 DEF InputInv, NoOldNewline
  <2> QED BY <1>2, <1>3, <2>1, <2>2, <2>3, <2>4
<1>10. Tidy'
  BY <1>1, <1>2, <1>3 DEF Tidy
<1> QED BY <1>5, <1>6, <1>7, <1>8, <1>9, <1>10 DEF InputInv, RoomToRead, Scanned

\* The end of a scan keeps the invariant.
LEMMA ScannedStep ==
  ASSUME InputInv, InputScanned
  PROVE  /\ InputInv'
         /\ \A i \in 0 .. used_buf - 1 : buf[i] # NL
<1>1. /\ Size \in Nat /\ Size > 1 /\ used_buf \in 0 .. Size - 1
      /\ NL # NUL /\ buf \in [0 .. Size - 1 -> Bytes]
  BY InputAssumption DEF InputInv, TypeOK, buf_len, Cells
<1>2. /\ buf' = buf /\ line' = line /\ pc' = "poll" /\ strchr = {}
      /\ used_buf' = IF used_buf = Size - 1 THEN 0 ELSE used_buf
  BY DEF InputScanned, UsedAfterScan, buf_len
<1>3. \A i \in 0 .. used_buf - 1 : buf[i] # NL
  <2> DEFINE Newlines == {i \in 0 .. used_buf - 1 : buf[i] = NL}
  <2> SUFFICES ASSUME NEW n \in Newlines PROVE FALSE
    OBVIOUS
  <2>1. Newlines \in SUBSET Nat
    BY <1>1
  <2>2. PICK end \in Newlines : \A i \in Newlines : end <= i
    BY <2>1, LeastNat, Zenon
  <2>3. \A j \in 0 .. end - 1 : buf[j] \notin {NL, NUL}
    BY <1>1, <2>2 DEF InputInv, InUse
  <2>4. end \in strchr
    BY <1>1, <2>2, <2>3 DEF strchr, Cells
  <2> QED BY <1>2, <2>4
<1>4. TypeOK'
  BY <1>1, <1>2 DEF InputInv, TypeOK, buf_len
<1>5. Terminated' /\ RoomToRead'
  BY <1>1, <1>2 DEF InputInv, Terminated, RoomToRead, Room, buf_len
<1>6. InUse' /\ NoOldNewline' /\ Scanned' /\ Tidy'
  BY <1>1, <1>2, <1>3 DEF InputInv, InUse, NoOldNewline, Scanned, Tidy
<1> QED BY <1>3, <1>4, <1>5, <1>6 DEF InputInv

\* Every step keeps the invariant.
LEMMA InputStep == InputInv /\ [Next]_vars => InputInv'
<1> SUFFICES ASSUME InputInv, [Next]_vars PROVE InputInv'
  OBVIOUS
<1>1. CASE InputRestart
  <2>1. /\ Size \in Nat /\ Size > 1 /\ used_buf \in 0 .. Size - 1
        /\ NL # NUL /\ buf \in [0 .. Size - 1 -> Bytes]
    BY InputAssumption DEF InputInv, TypeOK, buf_len, Cells
  <2>2. /\ buf' = [buf EXCEPT ![Size - 1] = NUL] /\ used_buf' = 0
        /\ line' = line /\ pc' = "poll" /\ pc = "poll"
    BY <1>1 DEF InputRestart, buf_len
  <2>3. TypeOK'
    BY <2>1, <2>2 DEF InputInv, TypeOK, buf_len, Cells, Bytes
  <2>4. Terminated' /\ RoomToRead'
    BY <2>1, <2>2 DEF Terminated, RoomToRead, Room, buf_len
  <2>5. NoOldNewline'
    BY <2>1, <2>2 DEF InputInv, NoOldNewline, Scanned
  <2>6. InUse' /\ Scanned' /\ Tidy'
    BY <2>1, <2>2 DEF InUse, Scanned, Tidy
  <2> QED BY <2>3, <2>4, <2>5, <2>6 DEF InputInv
<1>2. CASE UNCHANGED vars
  BY <1>2 DEF vars, InputInv, TypeOK, Terminated, RoomToRead, Room, InUse,
              NoOldNewline, Tidy, Scanned
<1> QED BY <1>1, <1>2, ReadStep, LineStep, ScannedStep DEF Next

\* The invariant holds in every reachable state.
LEMMA InputInvHolds == Spec => []InputInv
<1>1. Init => InputInv
  <2> SUFFICES ASSUME Init PROVE InputInv
    OBVIOUS
  <2>1. Size \in Nat /\ Size > 1 /\ NL # NUL
    BY InputAssumption
  <2> QED BY <2>1 DEF Init, InputInv, TypeOK, Terminated, RoomToRead, Room, InUse,
                     NoOldNewline, Tidy, Scanned, Cells, Bytes, buf_len
<1> QED BY <1>1, InputStep, PTL DEF Spec

-----------------------------------------------------------------------------

\* used_buf never leaves the buffer, for every buffer size and every way in
\* which the bytes arrive.
THEOREM TypeCorrect == Spec => []TypeOK
<1>1. InputInv => TypeOK
  BY DEF InputInv
<1> QED BY <1>1, InputInvHolds, PTL

\* strchr always finds a NUL inside the buffer.
THEOREM TerminatedHolds == Spec => []Terminated
<1>1. InputInv => Terminated
  BY DEF InputInv
<1> QED BY <1>1, InputInvHolds, PTL

\* The next read always has room.
THEOREM RoomToReadHolds == Spec => []RoomToRead
<1>1. InputInv => RoomToRead
  BY DEF InputInv
<1> QED BY <1>1, InputInvHolds, PTL

\* Every newline that strchr finds has arrived, with the reads of a terminal or
\* of at most half of the buffer.
THEOREM OnlyArrivedHolds == Spec => []OnlyArrived
<1>1. InputInv => OnlyArrived
  <2> SUFFICES ASSUME InputInv, NEW end \in strchr PROVE end < used_buf
    BY DEF OnlyArrived
  <2>1. end \in 0 .. used_buf - 1
    BY NewlineInUse
  <2>2. used_buf \in Int
    BY InputAssumption DEF InputInv, TypeOK, buf_len
  <2> QED BY <2>1, <2>2
<1> QED BY <1>1, InputInvHolds, PTL

-----------------------------------------------------------------------------
(***************************************************************************)
(* Refinement: the bytes in use are the bytes owed to the handler.         *)
(***************************************************************************)

\* The bytes in use, as a sequence.
LEMMA PendingType ==
  ASSUME used_buf \in 0 .. Size - 1, buf \in [0 .. Size - 1 -> Bytes]
  PROVE  /\ pending \in Seq(Bytes) /\ Len(pending) = used_buf
         /\ \A n \in 1 .. used_buf : pending[n] = buf[n - 1]
<1>1. Size \in Nat /\ used_buf \in Nat
  BY InputAssumption
<1>2. pending \in [1 .. used_buf -> Bytes]
  BY <1>1 DEF pending
<1>3. pending \in Seq(Bytes)
  BY <1>1, <1>2, SeqDef
<1>4. Len(pending) = used_buf
  <2>1. 1 .. Len(pending) = 1 .. used_buf /\ Len(pending) \in Nat
    BY <1>2, <1>3, LenProperties
  <2> QED BY <1>1, <2>1
<1> QED BY <1>3, <1>4 DEF pending

\* The same after a step that keeps the types.
LEMMA PendingTypeNext ==
  ASSUME used_buf' \in 0 .. Size - 1, buf' \in [0 .. Size - 1 -> Bytes]
  PROVE  /\ pending' \in Seq(Bytes) /\ Len(pending') = used_buf'
         /\ \A n \in 1 .. used_buf' : pending'[n] = buf'[n - 1]
<1>1. Size \in Nat /\ used_buf' \in Nat
  BY InputAssumption
<1>2. pending' \in [1 .. used_buf' -> Bytes]
  BY <1>1 DEF pending
<1>3. pending' \in Seq(Bytes)
  BY <1>1, <1>2, SeqDef
<1>4. Len(pending') = used_buf'
  <2>1. 1 .. Len(pending') = 1 .. used_buf' /\ Len(pending') \in Nat
    BY <1>2, <1>3, LenProperties
  <2> QED BY <1>1, <2>1
<1> QED BY <1>3, <1>4 DEF pending

\* input.c implements a stream of lines: every line is handed over whole,
\* once and in order, whatever old bytes memmove leaves behind used_buf.
THEOREM InputImplementsLines == Spec => ImplementsLines
<1>1. Init => Lines!Init
  <2> SUFFICES ASSUME Init PROVE pending = <<>> /\ line = None
    BY DEF Lines!Init
  <2>1. used_buf = 0 /\ line = None
    BY DEF Init
  <2> QED BY <2>1 DEF pending
<1>2. InputInv /\ InputInv' /\ [Next]_vars => [Lines!Next]_(Lines!vars)
  <2> SUFFICES ASSUME InputInv, InputInv', [Next]_vars PROVE [Lines!Next]_(Lines!vars)
    OBVIOUS
  <2>1. /\ Size \in Nat /\ Size > 1
        /\ used_buf \in 0 .. Size - 1 /\ buf \in [0 .. Size - 1 -> Bytes]
        /\ used_buf' \in 0 .. Size - 1 /\ buf' \in [0 .. Size - 1 -> Bytes]
    BY InputAssumption DEF InputInv, TypeOK, buf_len, Cells
  <2>2. /\ pending \in Seq(Bytes) /\ Len(pending) = used_buf
        /\ \A n \in 1 .. used_buf : pending[n] = buf[n - 1]
    BY <2>1, PendingType
  <2>3. /\ pending' \in Seq(Bytes) /\ Len(pending') = used_buf'
        /\ \A n \in 1 .. used_buf' : pending'[n] = buf'[n - 1]
    BY <2>1, PendingTypeNext
  <2>4. ASSUME NEW chunk \in Chunks, InputRead(chunk) PROVE Lines!Arrive
    <3>1. Len(chunk) \in 0 .. Size - 1 - used_buf
      BY ChunkType DEF InputInv, TypeOK, Room, buf_len
    <3>2. /\ used_buf' = used_buf + Len(chunk) /\ line' = line
          /\ \A i \in 0 .. used_buf - 1 : buf'[i] = buf[i]
      BY <2>1, <2>4, <3>1 DEF InputRead, Filled, Cells
    <3> DEFINE front == SubSeq(pending', 1, used_buf)
    <3>3. \A n \in 1 .. used_buf : pending'[n] \in Bytes /\ pending'[n] = pending[n]
      BY <2>1, <2>2, <2>3, <3>1, <3>2
    <3>4. /\ front \in Seq(Bytes) /\ Len(front) = used_buf
          /\ \A n \in 1 .. used_buf : front[n] = pending'[n]
      BY <2>1, <3>3, SubSeqProperties
    <3> HIDE DEF front
    <3>5. front = pending
      BY <2>2, <3>3, <3>4, SeqEqual
    <3>6. Len(pending') >= Len(pending)
      BY <2>1, <2>2, <2>3, <3>1, <3>2
    <3> QED BY <2>2, <3>2, <3>5, <3>6 DEF Lines!Arrive, front
  <2>5. ASSUME InputLine PROVE Lines!Deliver
    <3>1. PICK end \in strchr :
            /\ line' = [n \in 1 .. end |-> buf[n - 1]]
            /\ buf' = Moved(end)
            /\ used_buf' = used_buf - (end + 1)
      BY <2>5 DEF InputLine, Remaining
    <3>2. /\ end \in 0 .. used_buf - 1 /\ buf[end] = NL
          /\ \A j \in 0 .. end - 1 : buf[j] # NL
      BY NewlineInUse
    <3>3. \A n \in 1 .. used_buf' : buf'[n - 1] = buf[n + end]
      BY <2>1, <3>1, <3>2 DEF Moved, Cells
    <3> DEFINE front == SubSeq(pending, 1, end)
               rest  == SubSeq(pending, end + 2, used_buf)
    <3>4. line' = front
      <4>1. /\ front \in Seq(Bytes) /\ Len(front) = end
            /\ \A n \in 1 .. end : front[n] = pending[n]
        <5>1. \A n \in 1 .. end : pending[n] \in Bytes
          BY <2>1, <2>2, <3>2
        <5> QED BY <2>1, <3>2, <5>1, SubSeqProperties
      <4> HIDE DEF front
      <4>2. front = [n \in 1 .. end |-> front[n]]
        BY <4>1, LenProperties
      <4>3. \A n \in 1 .. end : front[n] = buf[n - 1]
        BY <2>1, <2>2, <3>2, <4>1
      <4> QED BY <3>1, <4>2, <4>3
    <3>5. pending' = rest
      <4>1. /\ rest \in Seq(Bytes) /\ Len(rest) = used_buf - (end + 1)
            /\ \A n \in 1 .. used_buf - (end + 1) : rest[n] = pending[end + 1 + n]
        <5>1. \A n \in end + 2 .. used_buf : pending[n] \in Bytes
          BY <2>1, <2>2, <3>2
        <5>2. end + 2 \in Int /\ used_buf \in Int /\ end \in Int /\ end < used_buf
          BY <2>1, <3>2
        <5>3. /\ rest \in Seq(Bytes)
              /\ Len(rest) = IF end + 2 <= used_buf THEN used_buf - (end + 2) + 1 ELSE 0
              /\ \A n \in 1 .. used_buf - (end + 2) + 1 : rest[n] = pending[end + 2 + n - 1]
          BY <5>1, <5>2, SubSeqProperties
        <5> HIDE DEF rest
        <5>4. used_buf - (end + 2) + 1 = used_buf - (end + 1)
          BY <5>2
        <5>5. \A n \in Int : end + 2 + n - 1 = end + 1 + n
          BY <5>2
        <5> QED BY <5>2, <5>3, <5>4, <5>5
      <4> HIDE DEF rest
      <4>2. \A n \in 1 .. used_buf' : pending'[n] = rest[n]
        <5> SUFFICES ASSUME NEW n \in 1 .. used_buf' PROVE pending'[n] = rest[n]
          OBVIOUS
        <5>1. pending'[n] = buf'[n - 1]
          BY <2>3
        <5>2. buf'[n - 1] = buf[n + end]
          BY <3>3
        <5>3. rest[n] = pending[end + 1 + n]
          BY <3>1, <4>1
        <5>4. pending[end + 1 + n] = buf[n + end]
          BY <2>1, <2>2, <3>1, <3>2
        <5> QED BY <5>1, <5>2, <5>3, <5>4
      <4> QED BY <2>3, <3>1, <4>1, <4>2, SeqEqual
    <3> DEFINE at == end + 1
    <3>6. /\ at \in 1 .. Len(pending) /\ pending[at] = NL
          /\ \A m \in 1 .. at - 1 : pending[m] # NL
      BY <2>1, <2>2, <3>2
    <3>7. at - 1 = end /\ at + 1 = end + 2
      BY <2>1, <3>2
    <3> HIDE DEF at
    <3>8. line' = SubSeq(pending, 1, at - 1) /\ pending' = SubSeq(pending, at + 1, Len(pending))
      BY <2>2, <3>4, <3>5, <3>7
    <3> QED BY <3>6, <3>8 DEF Lines!Deliver
  <2>6. ASSUME InputScanned PROVE Lines!GiveUp \/ UNCHANGED Lines!vars
    <3>1. \A n \in 1 .. Len(pending) : pending[n] # NL
      BY <2>1, <2>2, <2>6, ScannedStep
    <3>2. line' = line /\ buf' = buf /\ (used_buf' = 0 \/ used_buf' = used_buf)
      BY <2>6 DEF InputScanned, UsedAfterScan
    <3>3. CASE used_buf' = 0
      <4>1. pending' = <<>>
        BY <2>3, <3>3, EmptySeq
      <4> QED BY <3>1, <3>2, <4>1 DEF Lines!GiveUp
    <3>4. CASE used_buf' = used_buf
      BY <3>2, <3>4 DEF Lines!vars, pending
    <3> QED BY <3>2, <3>3, <3>4
  <2>7. ASSUME InputRestart PROVE Lines!GiveUp
    <3>1. \A n \in 1 .. Len(pending) : pending[n] # NL
      BY <2>1, <2>2, <2>7 DEF InputRestart, InputInv, Scanned
    <3>2. line' = line /\ used_buf' = 0
      BY <2>7 DEF InputRestart
    <3>3. pending' = <<>>
      BY <2>3, <3>2, EmptySeq
    <3> QED BY <3>1, <3>2, <3>3 DEF Lines!GiveUp
  <2>8. CASE UNCHANGED vars
    BY <2>8 DEF vars, Lines!vars, pending
  <2> QED BY <2>4, <2>5, <2>6, <2>7, <2>8 DEF Next, Lines!Next
<1> QED BY <1>1, <1>2, InputInvHolds, PTL DEF Spec, ImplementsLines, Lines!Spec
=============================================================================
