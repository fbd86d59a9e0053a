---------------------------- MODULE RecordProofs ----------------------------
(***************************************************************************)
(* Proofs about module Record, for any commands, any number of readers and *)
(* any initial allocation: appending stays inside the allocation, the byte *)
(* buffer implements a log of commands, and a copy of its bytes replays    *)
(* the commands that were in it.                                           *)
(***************************************************************************)
EXTENDS Record, TLAPS, SequenceTheorems, NaturalsInduction, WellFoundedInduction

-----------------------------------------------------------------------------
(***************************************************************************)
(* Induction over numbers, for sets instead of predicates: a set that      *)
(* holds 0 and with every number the next one holds them all.              *)
(***************************************************************************)

\* A set of numbers that is not empty has a least element.
LEMMA LeastExists ==
  ASSUME NEW T, T \subseteq Nat, T # {}
  PROVE  \E m \in T : \A j \in T : m <= j
<1>1. PICK m \in T : \A j \in T : ~(<<j, m>> \in OpToRel(<, Nat))
  BY WFMin, NatLessThanWellFounded
<1>2. \A j \in T : m <= j
  <2> SUFFICES ASSUME NEW j \in T PROVE m <= j
    OBVIOUS
  <2>1. m \in Nat /\ j \in Nat
    OBVIOUS
  <2>2. (j < m) => <<j, m>> \in OpToRel(<, Nat)
    BY <2>1, Zenon DEF OpToRel
  <2>3. ~(j < m)
    BY <1>1, <2>2, Zenon
  <2> QED BY <2>1, <2>3
<1> QED BY <1>2

\* Induction up to n.
LEMMA UpTo ==
  ASSUME NEW n \in Nat, NEW T, 0 \in T, \A i \in 1 .. n : i - 1 \in T => i \in T
  PROVE  \A i \in 0 .. n : i \in T
<1> SUFFICES ASSUME NEW i \in 0 .. n, i \notin T PROVE FALSE
  OBVIOUS
<1> DEFINE Bad == {j \in 0 .. n : j \notin T}
<1>1. Bad \subseteq Nat /\ Bad # {}
  OBVIOUS
<1>2. PICK m \in Bad : \A j \in Bad : m <= j
  <2> HIDE DEF Bad
  <2> QED BY <1>1, LeastExists
<1>3. m \in 0 .. n /\ m # 0
  OBVIOUS
<1>4. m \in 1 .. n /\ m - 1 \in 0 .. n /\ ~(m <= m - 1)
  BY <1>3
<1>5. m - 1 \in T
  BY <1>2, <1>4
<1> QED BY <1>4, <1>5

-----------------------------------------------------------------------------
(***************************************************************************)
(* Memory.  needed <= alloc + InitAlloc <= 2 * alloc, so doubling once is  *)
(* enough, and alloc < needed <= WordSize / 2, so it does not wrap.        *)
(***************************************************************************)

\* The part of the state that the allocation depends on.
MemoryInv ==
  /\ buf \in Seq(Bytes \cup {NUL})
  /\ write.byte_count = Len(buf)
  /\ alloc_bytes \in Nat
  /\ InitAlloc <= alloc_bytes
  /\ Fits

\* A writer at the end of the buffer appends the command and a NUL to it.
LEMMA StoredAtEnd ==
  ASSUME MemoryInv, NEW cmd \in Commands
  PROVE  LET needed == write.byte_count + Len(cmd) + 1
         IN  /\ Stored(cmd, needed) = buf \o Append(cmd, NUL)
             /\ Append(cmd, NUL) \in Seq(Bytes \cup {NUL})
             /\ Len(Append(cmd, NUL)) = Len(cmd) + 1
             /\ Len(cmd) \in Nat
             /\ needed = Len(buf) + Len(cmd) + 1
             /\ Len(buf \o Append(cmd, NUL)) = needed
<1> DEFINE T == Bytes \cup {NUL}
           new == Append(cmd, NUL)
<1>1. cmd \in Seq(T) /\ Len(cmd) \in Nat
  BY RecordAssumption, SeqMonotonic, LenProperties
<1>2. new \in Seq(T) /\ Len(new) = Len(cmd) + 1
  BY <1>1, AppendProperties
<1>3. Len(buf) \in Nat /\ write.byte_count = Len(buf) /\ buf \in Seq(T)
  BY LenProperties DEF MemoryInv
<1>4. SubSeq(buf, 1, Len(buf)) = buf
  BY <1>3, SubSeqFull
<1>5. SubSeq(buf, Len(buf) + Len(cmd) + 2, Len(buf)) = <<>>
  BY <1>1, <1>3, SubSeqEmpty
<1> HIDE DEF new, T
<1>6. buf \o new \in Seq(T) /\ Len(buf \o new) = Len(buf) + Len(cmd) + 1
  BY <1>1, <1>2, <1>3, ConcatProperties
<1>7. (buf \o new) \o <<>> = buf \o new
  BY <1>6, ConcatEmptySeq
<1>8. Stored(cmd, write.byte_count + Len(cmd) + 1)
        = SubSeq(buf, 1, Len(buf)) \o new \o SubSeq(buf, Len(buf) + Len(cmd) + 2, Len(buf))
  <2>1. write.byte_count + Len(cmd) + 1 + 1 = Len(buf) + Len(cmd) + 2
    BY <1>1, <1>3
  <2> QED BY <1>3, <2>1, Zenon DEF Stored, new
<1> QED BY <1>1, <1>2, <1>3, <1>4, <1>5, <1>6, <1>7, <1>8 DEF new, T

\* Every step preserves it.
LEMMA MemoryStep == MemoryInv /\ [Next]_vars => MemoryInv'
<1> SUFFICES ASSUME MemoryInv, [Next]_vars PROVE MemoryInv'
  OBVIOUS
<1>1. ASSUME NEW cmd \in Commands, record_append(cmd) PROVE MemoryInv'
  <2> DEFINE needed == write.byte_count + Len(cmd) + 1
  <2>1. /\ needed <= MaxBytes
        /\ alloc_bytes' = record_realloc(needed)
        /\ buf' = Stored(cmd, needed)
        /\ write' = Advance(write, Len(cmd))
    BY <1>1 DEF record_append
  <2>2. /\ buf' = buf \o Append(cmd, NUL) /\ Len(buf') = needed
        /\ buf' \in Seq(Bytes \cup {NUL})
    BY <2>1, StoredAtEnd, ConcatProperties, ZenonT(60) DEF MemoryInv
  <2>3. /\ Len(buf) \in Nat /\ Len(cmd) \in Nat /\ needed = Len(buf) + Len(cmd) + 1
        /\ Len(cmd) + 1 <= InitAlloc
    BY StoredAtEnd, RecordAssumption, LenProperties DEF MemoryInv
  <2>4. write'.byte_count = Len(buf')
    BY <2>1, <2>2, <2>3 DEF Advance, MemoryInv
  <2> HIDE DEF needed
  <2>5. CASE needed <= alloc_bytes
    <3>1. alloc_bytes' = alloc_bytes
      BY <2>1, <2>3, <2>5 DEF record_realloc, MemoryInv
    <3> QED BY <2>2, <2>3, <2>4, <2>5, <3>1 DEF MemoryInv, Fits, used_bytes
  <2>6. CASE needed > alloc_bytes
    <3>1. alloc_bytes' = (2 * alloc_bytes) % WordSize
      BY <2>1, <2>6 DEF record_realloc
    <3>2. 2 * alloc_bytes < WordSize
      BY <2>1, <2>3, <2>6, RecordAssumption DEF MemoryInv
    <3>3. alloc_bytes' = 2 * alloc_bytes
      BY <3>1, <3>2, RecordAssumption DEF MemoryInv
    <3>4. needed <= 2 * alloc_bytes
      BY <2>3, RecordAssumption DEF MemoryInv, Fits, used_bytes
    <3> QED BY <2>2, <2>3, <2>4, <3>3, <3>4, RecordAssumption DEF MemoryInv, Fits, used_bytes
  <2> QED BY <2>3, <2>5, <2>6 DEF MemoryInv
<1>2. ASSUME NEW r \in Readers, record_read(r) \/ record_read_end(r) \/ Rewind(r)
      PROVE  MemoryInv'
  BY <1>2 DEF record_read, record_read_end, Rewind, MemoryInv, Fits, used_bytes
<1>3. ASSUME NEW r \in Readers, NEW len \in Sizes,
             record_read_bytes(r, len) \/ record_read_bytes_end(r, len)
      PROVE  MemoryInv'
  BY <1>3 DEF record_read_bytes, record_read_bytes_end, MemoryInv, Fits, used_bytes
<1>4. CASE Copy \/ UNCHANGED vars
  BY <1>4 DEF Copy, vars, MemoryInv, Fits, used_bytes
<1> QED BY <1>1, <1>2, <1>3, <1>4 DEF Next

\* The memory invariant holds in every reachable state.
LEMMA MemoryInvHolds == Spec => []MemoryInv
<1>1. Init => MemoryInv
  BY RecordAssumption DEF Init, MemoryInv, Fits, used_bytes, OffsetZero
<1> QED BY <1>1, MemoryStep, PTL DEF Spec

\* record_append never writes past the end of its allocation, for commands
\* that fit into a new record and byte counts below half of their width.
THEOREM FitsHolds == Spec => []Fits
<1>1. MemoryInv => Fits
  BY DEF MemoryInv
<1> QED BY <1>1, MemoryInvHolds, PTL

-----------------------------------------------------------------------------
(***************************************************************************)
(* Layout.  Command k starts at StartOf(k), is stored unchanged, is ended  *)
(* by a NUL and followed by command k + 1; a reader that has read n        *)
(* commands is at StartOf(n + 1).                                          *)
(***************************************************************************)

\* Where command k starts, or will start.
StartOf(k) == IF k <= Len(log) THEN starts[k] ELSE Len(buf)

LayoutInv ==
  /\ log \in Seq(Commands)
  /\ starts \in Seq(Nat) /\ Len(starts) = Len(log)
  /\ StartOf(1) = 0
  /\ \A k \in 1 .. Len(log) :
       /\ StartOf(k + 1) = starts[k] + Len(log[k]) + 1
       /\ StartOf(k + 1) <= Len(buf)
       /\ \A i \in 1 .. Len(log[k]) : buf[starts[k] + i] = log[k][i]
       /\ buf[starts[k] + Len(log[k]) + 1] = NUL

ReadersInv ==
  /\ read \in [Readers -> Offsets]
  /\ \A r \in Readers :
       /\ read[r].command_count <= Len(log)
       /\ read[r].byte_count = StartOf(read[r].command_count + 1)

\* Appending leaves the commands before in place.
LEMMA LayoutAppend ==
  ASSUME MemoryInv, LayoutInv, NEW cmd \in Commands, record_append(cmd)
  PROVE  /\ LayoutInv'
         /\ Len(log') = Len(log) + 1
         /\ \A k \in 1 .. Len(log) + 1 : StartOf(k)' = StartOf(k)
<1> DEFINE new == Append(cmd, NUL)
<1>1. /\ buf' = buf \o new /\ Len(buf') = Len(buf) + Len(cmd) + 1
      /\ new \in Seq(Bytes \cup {NUL}) /\ Len(new) = Len(cmd) + 1
      /\ Len(cmd) \in Nat /\ Len(buf) \in Nat /\ buf \in Seq(Bytes \cup {NUL})
  BY StoredAtEnd, LenProperties DEF record_append, MemoryInv
<1>2. /\ \A i \in 1 .. Len(cmd) : new[i] = cmd[i]
      /\ new[Len(cmd) + 1] = NUL
  BY RecordAssumption, AppendProperties, SeqMonotonic
<1> HIDE DEF new
<1>3. /\ \A i \in 1 .. Len(buf) : buf'[i] = buf[i]
      /\ \A i \in 1 .. Len(cmd) + 1 : buf'[Len(buf) + i] = new[i]
  <2>1. \A i \in 1 .. Len(buf) + Len(new) :
          (buf \o new)[i] = IF i <= Len(buf) THEN buf[i] ELSE new[i - Len(buf)]
    BY <1>1, ConcatProperties
  <2> QED BY <1>1, <2>1
<1>4. /\ log' = Append(log, cmd) /\ log' \in Seq(Commands)
      /\ Len(log') = Len(log) + 1 /\ Len(log) \in Nat
      /\ (\A k \in 1 .. Len(log) : log'[k] = log[k]) /\ log'[Len(log) + 1] = cmd
  BY AppendProperties, LenProperties DEF record_append, LayoutInv
<1>5. /\ starts' \in Seq(Nat) /\ Len(starts') = Len(log')
      /\ (\A k \in 1 .. Len(log) : starts'[k] = starts[k])
      /\ starts'[Len(log) + 1] = Len(buf)
  <2>1. starts' = Append(starts, Len(buf)) /\ starts \in Seq(Nat) /\ Len(starts) = Len(log)
    BY DEF record_append, MemoryInv, LayoutInv
  <2> QED BY <1>1, <1>4, <2>1, AppendProperties, SMTT(30)
<1>6. \A k \in 1 .. Len(log) + 1 : StartOf(k)' = StartOf(k)
  BY <1>4, <1>5 DEF StartOf
<1>7. \A k \in 1 .. Len(log) : starts[k] \in Nat /\ Len(log[k]) \in Nat
  BY LenProperties, ElementOfSeq, RecordAssumption DEF LayoutInv
<1>8. ASSUME NEW k \in 1 .. Len(log)
      PROVE  /\ StartOf(k + 1)' = starts'[k] + Len(log'[k]) + 1
             /\ StartOf(k + 1)' <= Len(buf')
             /\ \A i \in 1 .. Len(log'[k]) : buf'[starts'[k] + i] = log'[k][i]
             /\ buf'[starts'[k] + Len(log'[k]) + 1] = NUL
  <2>1. /\ StartOf(k + 1) = starts[k] + Len(log[k]) + 1
        /\ StartOf(k + 1) <= Len(buf)
        /\ \A i \in 1 .. Len(log[k]) : buf[starts[k] + i] = log[k][i]
        /\ buf[starts[k] + Len(log[k]) + 1] = NUL
    BY DEF LayoutInv
  <2>2. starts'[k] = starts[k] /\ log'[k] = log[k] /\ StartOf(k + 1)' = StartOf(k + 1)
    BY <1>4, <1>5, <1>6
  <2>3. \A i \in 1 .. Len(log[k]) + 1 : starts[k] + i \in 1 .. Len(buf)
    <3> DEFINE a == starts[k]
               l == Len(log[k])
               n == Len(buf)
    <3>1. a \in Nat /\ l \in Nat /\ n \in Nat /\ a + l + 1 <= n
      BY <1>1, <1>7, <2>1
    <3> HIDE DEF a, l, n
    <3>2. \A i \in 1 .. l + 1 : a + i \in 1 .. n
      BY <3>1
    <3> QED BY <3>2 DEF a, l, n
  <2>4. \A i \in 1 .. Len(log[k]) + 1 : buf'[starts[k] + i] = buf[starts[k] + i]
    BY <1>3, <2>3
  <2>5. starts[k] + Len(log[k]) + 1 <= Len(buf) + Len(cmd) + 1
    BY <1>1, <1>7, <2>1
  <2>6. StartOf(k + 1)' <= Len(buf')
    BY <1>1, <2>1, <2>2, <2>5
  <2>7. \A i \in 1 .. Len(log[k]) : buf'[starts[k] + i] = log[k][i]
    <3> SUFFICES ASSUME NEW i \in 1 .. Len(log[k])
                 PROVE  buf'[starts[k] + i] = log[k][i]
      OBVIOUS
    <3>1. i \in 1 .. Len(log[k]) + 1
      BY <1>7
    <3>2. buf'[starts[k] + i] = buf[starts[k] + i]
      BY <2>4, <3>1, Zenon
    <3> QED BY <2>1, <3>2, Zenon
  <2>8. buf'[starts[k] + (Len(log[k]) + 1)] = buf[starts[k] + (Len(log[k]) + 1)]
    <3>1. Len(log[k]) + 1 \in 1 .. Len(log[k]) + 1
      BY <1>7
    <3> QED BY <2>4, <3>1, Zenon
  <2>9. buf'[starts[k] + Len(log[k]) + 1] = NUL
    BY <1>7, <2>1, <2>8, SMTT(30)
  <2> QED BY <2>1, <2>2, <2>6, <2>7, <2>9
<1>9. /\ \A i \in 1 .. Len(cmd) : buf'[Len(buf) + i] = cmd[i]
      /\ buf'[Len(buf) + Len(cmd) + 1] = NUL
  BY <1>1, <1>2, <1>3
<1>10. StartOf(1)' = 0
  BY <1>4, <1>6 DEF LayoutInv
<1>11. LayoutInv'
  <2> SUFFICES ASSUME NEW k \in 1 .. Len(log')
               PROVE  /\ StartOf(k + 1)' = starts'[k] + Len(log'[k]) + 1
                      /\ StartOf(k + 1)' <= Len(buf')
                      /\ \A i \in 1 .. Len(log'[k]) : buf'[starts'[k] + i] = log'[k][i]
                      /\ buf'[starts'[k] + Len(log'[k]) + 1] = NUL
    BY <1>4, <1>5, <1>10 DEF LayoutInv
  <2>1. CASE k \in 1 .. Len(log)
    BY <1>8, <2>1
  <2>2. CASE k = Len(log) + 1
    <3>1. StartOf(k + 1)' = Len(buf')
      BY <1>4, <2>2 DEF StartOf
    <3>2. log'[k] = cmd /\ starts'[k] = Len(buf)
      BY <1>4, <1>5, <2>2
    <3>3. StartOf(k + 1)' = starts'[k] + Len(log'[k]) + 1 /\ StartOf(k + 1)' <= Len(buf')
      BY <1>1, <3>1, <3>2
    <3>4. \A i \in 1 .. Len(log'[k]) : buf'[starts'[k] + i] = log'[k][i]
      BY <1>9, <3>2, Zenon
    <3>5. buf'[starts'[k] + Len(log'[k]) + 1] = NUL
      BY <1>9, <3>2, Zenon
    <3> QED BY <3>3, <3>4, <3>5
  <2> QED BY <1>4, <2>1, <2>2, SMTT(30)
<1> QED BY <1>4, <1>6, <1>11

\* A reader that has not read everything is inside the buffer, at the next
\* command; one that has is at the end.
LEMMA ReaderAt ==
  ASSUME MemoryInv, LayoutInv, ReadersInv, NEW r \in Readers
  PROVE  LET k == read[r].command_count + 1
             at == read[r].byte_count
         IN  /\ k \in Nat \ {0} /\ at \in Nat /\ Len(log) \in Nat /\ Len(buf) \in Nat
             /\ read[r].command_count <= Len(log)
             /\ k <= Len(log) =>
                  /\ at = starts[k] /\ log[k] \in Commands /\ Len(log[k]) \in Nat
                  /\ StartOf(k + 1) = at + Len(log[k]) + 1
                  /\ at + Len(log[k]) + 1 <= Len(buf)
                  /\ \A i \in 1 .. Len(log[k]) : buf[at + i] = log[k][i]
                  /\ buf[at + Len(log[k]) + 1] = NUL
             /\ ~(k <= Len(log)) => at = Len(buf)
<1> DEFINE k == read[r].command_count + 1
           at == read[r].byte_count
<1>1. /\ k \in Nat \ {0} /\ at \in Nat /\ Len(log) \in Nat /\ Len(buf) \in Nat
      /\ read[r].command_count <= Len(log) /\ at = StartOf(k)
  BY LenProperties DEF ReadersInv, Offsets, MemoryInv, LayoutInv
<1> HIDE DEF k, at
<1>2. ASSUME k <= Len(log)
      PROVE  /\ at = starts[k] /\ log[k] \in Commands /\ Len(log[k]) \in Nat
             /\ StartOf(k + 1) = at + Len(log[k]) + 1
             /\ at + Len(log[k]) + 1 <= Len(buf)
             /\ \A i \in 1 .. Len(log[k]) : buf[at + i] = log[k][i]
             /\ buf[at + Len(log[k]) + 1] = NUL
  <2>1. k \in 1 .. Len(log)
    BY <1>1, <1>2
  <2>2. at = starts[k]
    BY <1>1, <1>2 DEF StartOf
  <2>3. log[k] \in Commands
    BY <2>1, ElementOfSeq DEF LayoutInv
  <2>4. Len(log[k]) \in Nat
    BY <2>3, RecordAssumption, LenProperties
  <2> QED BY <2>1, <2>2, <2>3, <2>4 DEF LayoutInv
<1>3. ~(k <= Len(log)) => at = Len(buf)
  BY <1>1 DEF StartOf
<1> QED BY <1>1, <1>2, <1>3 DEF k, at

\* record_can_playback tells whether there is a next command.
LEMMA CanPlayback ==
  ASSUME MemoryInv, LayoutInv, ReadersInv, NEW r \in Readers
  PROVE  record_can_playback(r) <=> read[r].command_count < Len(log)
<1> DEFINE n == read[r].command_count
           at == read[r].byte_count
<1>1. /\ n \in Nat /\ at \in Nat /\ Len(log) \in Nat /\ Len(buf) \in Nat
      /\ n <= Len(log)
  BY ReaderAt DEF ReadersInv, Offsets
<1>2. n < Len(log) => at < Len(buf)
  <2> SUFFICES ASSUME n < Len(log) PROVE at < Len(buf)
    OBVIOUS
  <2>1. Len(log[n + 1]) \in Nat /\ at + Len(log[n + 1]) + 1 <= Len(buf)
    BY <1>1, ReaderAt
  <2> HIDE DEF n, at
  <2> QED BY <1>1, <2>1
<1>3. ~(n < Len(log)) => at = Len(buf)
  BY <1>1, ReaderAt
<1> HIDE DEF n, at
<1>4. at < Len(buf) <=> n < Len(log)
  BY <1>1, <1>2, <1>3
<1> QED BY <1>4 DEF record_can_playback, used_bytes, n, at

\* A command that lies in a buffer, ended by a NUL: its bytes are the command,
\* and strlen is its length, because commands hold no NUL.
Lies(bytes, at, cmd) ==
  /\ at + Len(cmd) + 1 <= Len(bytes)
  /\ \A i \in 1 .. Len(cmd) : bytes[at + i] = cmd[i]
  /\ bytes[at + Len(cmd) + 1] = NUL

\* The bytes.
LEMMA SliceOfBytes ==
  ASSUME NEW bytes, NEW at \in Nat, NEW cmd \in Commands, Lies(bytes, at, cmd)
  PROVE  SubSeq(bytes, at + 1, at + Len(cmd)) = cmd
<1>1. Len(cmd) \in Nat /\ \A i \in 1 .. Len(cmd) : bytes[at + i] = cmd[i]
  BY RecordAssumption, LenProperties DEF Lies
<1>2. cmd \in Seq(Bytes) /\ \A i \in 1 .. Len(cmd) : cmd[i] \in Bytes
  BY <1>1, RecordAssumption, ElementOfSeq
<1>3. \A j \in at + 1 .. at + Len(cmd) : bytes[j] \in Bytes
  <2> SUFFICES ASSUME NEW j \in at + 1 .. at + Len(cmd) PROVE bytes[j] \in Bytes
    OBVIOUS
  <2>1. j - at \in 1 .. Len(cmd) /\ at + (j - at) = j
    BY <1>1
  <2> QED BY <1>1, <1>2, <2>1
<1> DEFINE m == at + 1
           n == at + Len(cmd)
           s == SubSeq(bytes, m, n)
<1>4. /\ m \in Int /\ n \in Int /\ n - m + 1 = Len(cmd)
      /\ \A i \in 1 .. Len(cmd) : m + i - 1 = at + i
      /\ ~(m <= n) => Len(cmd) = 0
  BY <1>1
<1> HIDE DEF m, n
<1>5. /\ s \in Seq(Bytes)
      /\ Len(s) = IF m <= n THEN n - m + 1 ELSE 0
      /\ \A i \in 1 .. n - m + 1 : s[i] = bytes[m + i - 1]
  <2>1. \A j \in m .. n : bytes[j] \in Bytes
    BY <1>3 DEF m, n
  <2> QED BY <1>4, <2>1, SubSeqProperties
<1> HIDE DEF s
<1>6. Len(s) = Len(cmd) /\ \A i \in 1 .. Len(s) : s[i] = cmd[i]
  <2>1. Len(s) = Len(cmd)
    BY <1>4, <1>5
  <2>2. \A i \in 1 .. Len(cmd) : s[i] = bytes[at + i]
    BY <1>4, <1>5
  <2> QED BY <1>1, <2>1, <2>2
<1>7. s = cmd
  BY <1>2, <1>5, <1>6, SeqEqual
<1> QED BY <1>7 DEF s, m, n

\* The length.
LEMMA StrlenOfBytes ==
  ASSUME NEW bytes, Len(bytes) \in Nat, NEW at \in Nat, NEW cmd \in Commands,
         Lies(bytes, at, cmd)
  PROVE  strlen(bytes, at) = Len(cmd)
<1> DEFINE len == Len(cmd)
<1>1. /\ len \in Nat /\ at + len + 1 <= Len(bytes) /\ bytes[at + len + 1] = NUL
      /\ \A i \in 1 .. len : bytes[at + i] = cmd[i]
  BY RecordAssumption, LenProperties DEF Lies
<1>2. \A i \in 1 .. len : cmd[i] # NUL
  BY <1>1, RecordAssumption, ElementOfSeq
<1> HIDE DEF len
<1> DEFINE P(n) == /\ bytes[at + n + 1] = NUL
                   /\ \A m \in 0 .. n - 1 : bytes[at + m + 1] # NUL
<1>3. len \in 0 .. Len(bytes) - 1 - at
  BY <1>1
<1>4. \A m \in 0 .. len - 1 : bytes[at + m + 1] # NUL
  <2> SUFFICES ASSUME NEW m \in 0 .. len - 1 PROVE bytes[at + m + 1] # NUL
    OBVIOUS
  <2>1. m + 1 \in 1 .. len /\ at + (m + 1) = at + m + 1
    BY <1>1
  <2> QED BY <1>1, <1>2, <2>1, ZenonT(60)
<1>5. P(len)
  BY <1>1, <1>4
<1>6. ASSUME NEW n \in 0 .. Len(bytes) - 1 - at, P(n) PROVE n = len
  <2>1. ~(n < len)
    BY <1>1, <1>4, <1>6
  <2>2. ~(len < n)
    BY <1>1, <1>6
  <2> QED BY <1>1, <2>1, <2>2
<1>7. strlen(bytes, at) = CHOOSE n \in 0 .. Len(bytes) - 1 - at : P(n)
  BY DEF strlen
<1> HIDE DEF P
<1>8. (CHOOSE n \in 0 .. Len(bytes) - 1 - at : P(n)) = len
  BY <1>3, <1>5, <1>6
<1> QED BY <1>7, <1>8 DEF len

\* The bytes of a reader's next command are the command, and strlen there is
\* its length.
LEMMA NextCommand ==
  ASSUME MemoryInv, LayoutInv, ReadersInv, NEW r \in Readers,
         read[r].command_count < Len(log)
  PROVE  LET cmd == log[read[r].command_count + 1]
             at == read[r].byte_count
         IN  /\ SubSeq(buf, at + 1, at + Len(cmd)) = cmd
             /\ strlen(buf, at) = Len(cmd)
<1>1. PICK cmd : cmd = log[read[r].command_count + 1]
  OBVIOUS
<1>2. PICK at : at = read[r].byte_count
  OBVIOUS
<1>3. at \in Nat /\ cmd \in Commands /\ Len(buf) \in Nat /\ Lies(buf, at, cmd)
  BY <1>1, <1>2, ReaderAt DEF ReadersInv, Offsets, Lies
<1> QED BY <1>1, <1>2, <1>3, SliceOfBytes, StrlenOfBytes

\* Sizes are numbers.
LEMMA SizesType == Sizes \subseteq Nat
BY RecordAssumption, LenProperties DEF Sizes

\* record_read_bytes finds the object exactly when there is one.
LEMMA ReadBytesGuard ==
  ASSUME MemoryInv, LayoutInv, ReadersInv, NEW r \in Readers, NEW len \in Sizes,
         ExpectedSize(r, len)
  PROVE  /\ read[r].byte_count + len < used_bytes <=> read[r].command_count < Len(log)
         /\ read[r].byte_count + len >= used_bytes <=> read[r].command_count = Len(log)
         /\ read[r].command_count < Len(log) => len = Len(log[read[r].command_count + 1])
<1> DEFINE n == read[r].command_count
           at == read[r].byte_count
<1>1. /\ n \in Nat /\ at \in Nat /\ Len(log) \in Nat /\ Len(buf) \in Nat
      /\ n <= Len(log) /\ len \in Nat
  BY ReaderAt, SizesType DEF ReadersInv, Offsets
<1>2. n < Len(log) => len = Len(log[n + 1])
  BY DEF ExpectedSize
<1>3. n < Len(log) => at + len + 1 <= Len(buf)
  BY <1>1, <1>2, ReaderAt, SMTT(30)
<1>4. ~(n < Len(log)) => at = Len(buf)
  BY <1>1, ReaderAt
<1> HIDE DEF n, at
<1>5. /\ at + len < Len(buf) <=> n < Len(log)
      /\ at + len >= Len(buf) <=> n = Len(log)
  BY <1>1, <1>3, <1>4
<1> QED BY <1>2, <1>5 DEF used_bytes, n, at

\* A reader that gets the next command stands at the one after it.
LEMMA ReaderMoves ==
  ASSUME MemoryInv, LayoutInv, ReadersInv, NEW r \in Readers,
         read[r].command_count < Len(log),
         read' = [read EXCEPT ![r] = Advance(@, Len(log[read[r].command_count + 1]))],
         buf' = buf, log' = log, starts' = starts
  PROVE  /\ ReadersInv'
         /\ read'[r].command_count = read[r].command_count + 1
         /\ \A q \in Readers \ {r} : read'[q] = read[q]
<1> DEFINE k == read[r].command_count + 1
           at == read[r].byte_count
<1>1. /\ k \in Nat /\ at \in Nat /\ k <= Len(log) /\ Len(log[k]) \in Nat /\ Len(log) \in Nat
      /\ StartOf(k + 1) = at + Len(log[k]) + 1
  BY ReaderAt DEF ReadersInv, Offsets
<1>2. /\ read' \in [Readers -> Offsets]
      /\ read'[r] = [byte_count |-> at + Len(log[k]) + 1, command_count |-> k]
      /\ \A q \in Readers \ {r} : read'[q] = read[q]
  BY <1>1 DEF ReadersInv, Offsets, Advance
<1>3. \A j : StartOf(j)' = StartOf(j)
  BY DEF StartOf
<1> HIDE DEF k, at
<1>4. /\ read'[r].command_count <= Len(log)
      /\ read'[r].byte_count = StartOf(read'[r].command_count + 1)
  BY <1>1, <1>2
<1>5. ReadersInv'
  <2> SUFFICES ASSUME NEW q \in Readers
               PROVE  /\ read'[q].command_count <= Len(log)
                      /\ read'[q].byte_count = StartOf(read'[q].command_count + 1)
    BY <1>2, <1>3 DEF ReadersInv
  <2> QED BY <1>2, <1>4 DEF ReadersInv
<1> QED BY <1>2, <1>5 DEF k

RecordInv == MemoryInv /\ LayoutInv /\ ReadersInv

\* Every step preserves the whole invariant.
LEMMA RecordInvStep == RecordInv /\ [Next]_vars => RecordInv'
<1> SUFFICES ASSUME RecordInv, [Next]_vars PROVE LayoutInv' /\ ReadersInv'
  BY MemoryStep DEF RecordInv
<1> USE DEF RecordInv
<1>1. ASSUME NEW cmd \in Commands, record_append(cmd) PROVE LayoutInv' /\ ReadersInv'
  <2>1. /\ LayoutInv' /\ Len(log') = Len(log) + 1 /\ read' = read
        /\ \A k \in 1 .. Len(log) + 1 : StartOf(k)' = StartOf(k)
    BY <1>1, LayoutAppend DEF record_append
  <2>2. ASSUME NEW r \in Readers
        PROVE  /\ read[r].command_count <= Len(log')
               /\ read[r].byte_count = StartOf(read[r].command_count + 1)'
    <3>1. /\ read[r].command_count \in Nat /\ Len(log) \in Nat
          /\ read[r].command_count <= Len(log)
          /\ read[r].byte_count = StartOf(read[r].command_count + 1)
      BY LenProperties DEF ReadersInv, Offsets, LayoutInv
    <3>2. read[r].command_count + 1 \in 1 .. Len(log) + 1
      BY <3>1
    <3> DEFINE k == read[r].command_count + 1
    <3>3. StartOf(k)' = StartOf(k)
      BY <2>1, <3>2 DEF StartOf
    <3> QED BY <2>1, <3>1, <3>3
  <2> QED BY <2>1, <2>2 DEF ReadersInv
<1>2. ASSUME NEW r \in Readers, record_read(r) PROVE LayoutInv' /\ ReadersInv'
  <2>1. read[r].command_count < Len(log)
    BY <1>2, CanPlayback DEF record_read
  <2>2. read' = [read EXCEPT ![r] = Advance(@, Len(log[read[r].command_count + 1]))]
    BY <1>2, <2>1, NextCommand DEF record_read
  <2>3. UNCHANGED <<buf, log, starts>>
    BY <1>2 DEF record_read
  <2> QED BY <2>1, <2>2, <2>3, ReaderMoves DEF LayoutInv, StartOf
<1>3. ASSUME NEW r \in Readers, NEW len \in Sizes, record_read_bytes(r, len)
      PROVE  LayoutInv' /\ ReadersInv'
  <2>1. read[r].command_count < Len(log) /\ len = Len(log[read[r].command_count + 1])
    BY <1>3, ReadBytesGuard DEF record_read_bytes
  <2>2. read' = [read EXCEPT ![r] = Advance(@, Len(log[read[r].command_count + 1]))]
    BY <1>3, <2>1 DEF record_read_bytes
  <2>3. UNCHANGED <<buf, log, starts>>
    BY <1>3 DEF record_read_bytes
  <2> QED BY <2>1, <2>2, <2>3, ReaderMoves DEF LayoutInv, StartOf
<1>4. ASSUME NEW r \in Readers, Rewind(r) PROVE LayoutInv' /\ ReadersInv'
  <2>1. read' = [read EXCEPT ![r] = OffsetZero] /\ UNCHANGED <<buf, log, starts>>
    BY <1>4 DEF Rewind, Rewound
  <2>2. Len(log) \in Nat /\ StartOf(0 + 1) = 0
    BY LenProperties DEF LayoutInv
  <2> QED BY <2>1, <2>2, SMTT(30) DEF LayoutInv, ReadersInv, StartOf, OffsetZero, Offsets
<1>5. CASE UNCHANGED <<buf, log, starts, read>>
  BY <1>5 DEF LayoutInv, ReadersInv, StartOf
<1> QED BY <1>1, <1>2, <1>3, <1>4, <1>5
        DEF Next, vars, Copy, record_read_end, record_read_bytes_end

\* The whole invariant holds in every reachable state.
LEMMA RecordInvHolds == Spec => []RecordInv
<1>1. Init => RecordInv
  BY RecordAssumption
  DEF Init, RecordInv, MemoryInv, LayoutInv, ReadersInv, StartOf, Fits, used_bytes,
      OffsetZero, Offsets
<1> QED BY <1>1, RecordInvStep, PTL DEF Spec

\* record.c implements the abstract log: readers see exactly the appended
\* commands in order, and record_can_playback is exact.
THEOREM RecordImplementsLog == Spec => ImplementsLog
<1> DEFINE pos == [r \in Readers |-> read[r].command_count]
<1>1. Init => Log!Init
  BY DEF Init, Log!Init, OffsetZero
<1>2. RecordInv /\ [Next]_vars => [Log!Next]_(Log!vars)
  <2> SUFFICES ASSUME RecordInv, [Next]_vars PROVE [Log!Next]_(Log!vars)
    OBVIOUS
  <2> USE DEF RecordInv
  <2>1. ASSUME NEW cmd \in Commands, record_append(cmd) PROVE Log!LogAppend(cmd)
    BY <2>1 DEF record_append, Log!LogAppend
  <2>2. ASSUME NEW r \in Readers, record_read(r) PROVE Log!LogRead(r)
    <3>1. read[r].command_count < Len(log)
      BY <2>2, CanPlayback DEF record_read
    <3>2. /\ read' = [read EXCEPT ![r] = Advance(@, Len(log[read[r].command_count + 1]))]
          /\ ret' = log[read[r].command_count + 1]
      BY <2>2, <3>1, NextCommand DEF record_read
    <3>3. UNCHANGED <<buf, log, starts>>
      BY <2>2 DEF record_read
    <3>4. pos' = [pos EXCEPT ![r] = @ + 1]
      <4>1. /\ read'[r].command_count = read[r].command_count + 1
            /\ \A q \in Readers \ {r} : read'[q] = read[q]
        BY <3>1, <3>2, <3>3, ReaderMoves
      <4> QED BY <4>1
    <3> QED BY <3>1, <3>2, <3>3, <3>4 DEF Log!LogRead
  <2>3. ASSUME NEW r \in Readers, record_read_end(r) PROVE Log!LogEnd(r)
    <3>1. read[r].command_count = Len(log)
      <4>1. /\ read[r].command_count \in Nat /\ Len(log) \in Nat
            /\ read[r].command_count <= Len(log)
        BY ReaderAt DEF ReadersInv, Offsets
      <4>2. ~(read[r].command_count < Len(log))
        BY <2>3, CanPlayback DEF record_read_end
      <4> QED BY <4>1, <4>2
    <3> QED BY <2>3, <3>1 DEF record_read_end, Log!LogEnd
  <2>4. ASSUME NEW r \in Readers, NEW len \in Sizes, record_read_bytes(r, len)
        PROVE  Log!LogRead(r)
    <3>1. read[r].command_count < Len(log) /\ len = Len(log[read[r].command_count + 1])
      BY <2>4, ReadBytesGuard DEF record_read_bytes
    <3>2. /\ read' = [read EXCEPT ![r] = Advance(@, Len(log[read[r].command_count + 1]))]
          /\ ret' = log[read[r].command_count + 1]
      BY <2>4, <3>1, NextCommand DEF record_read_bytes
    <3>3. UNCHANGED <<buf, log, starts>>
      BY <2>4 DEF record_read_bytes
    <3>4. pos' = [pos EXCEPT ![r] = @ + 1]
      <4>1. /\ read'[r].command_count = read[r].command_count + 1
            /\ \A q \in Readers \ {r} : read'[q] = read[q]
        BY <3>1, <3>2, <3>3, ReaderMoves
      <4> QED BY <4>1
    <3> QED BY <3>1, <3>2, <3>3, <3>4 DEF Log!LogRead
  <2>5. ASSUME NEW r \in Readers, NEW len \in Sizes, record_read_bytes_end(r, len)
        PROVE  Log!LogEnd(r)
    BY <2>5, ReadBytesGuard DEF record_read_bytes_end, Log!LogEnd
  <2>6. ASSUME NEW r \in Readers, Rewind(r) PROVE Log!LogRewind(r)
    BY <2>6 DEF Rewind, Rewound, OffsetZero, ReadersInv, Log!LogRewind
  <2>7. CASE Copy \/ UNCHANGED vars
    BY <2>7 DEF Copy, vars, Log!vars
  <2> QED BY <2>1, <2>2, <2>3, <2>4, <2>5, <2>6, <2>7 DEF Next, Log!Next
<1> QED BY <1>1, <1>2, RecordInvHolds, PTL DEF Spec, ImplementsLog, Log!Spec

-----------------------------------------------------------------------------
(***************************************************************************)
(* Copies.  record_playback_all goes from command to command of a buffer   *)
(* that holds commands one after the other; the recursion ends because     *)
(* every round moves past a NUL, and the last byte of the buffer is one.   *)
(***************************************************************************)

Byte == Bytes \cup {NUL}

\* The commands L lie in the buffer one after the other, command k at S[k].
Laid(bytes, L, S) ==
  /\ bytes \in Seq(Byte) /\ L \in Seq(Commands)
  /\ S \in [1 .. Len(L) + 1 -> Nat]
  /\ S[1] = 0 /\ S[Len(L) + 1] = Len(bytes)
  /\ \A k \in 1 .. Len(L) : Lies(bytes, S[k], L[k]) /\ S[k + 1] = S[k] + Len(L[k]) + 1

\* strlen stays inside a buffer whose last byte is a NUL.
LEMMA StrlenInside ==
  ASSUME NEW bytes, Len(bytes) \in Nat, bytes[Len(bytes)] = NUL, NEW i \in 0 .. Len(bytes) - 1
  PROVE  strlen(bytes, i) \in 0 .. Len(bytes) - 1 - i
<1> DEFINE R == 0 .. Len(bytes) - 1 - i
           P(n) == /\ bytes[i + n + 1] = NUL
                   /\ \A m \in 0 .. n - 1 : bytes[i + m + 1] # NUL
           T == {n \in R : bytes[i + n + 1] = NUL}
<1>1. Len(bytes) - 1 - i \in T
  <2> DEFINE n == Len(bytes) - 1 - i
  <2>1. n \in R /\ i + n + 1 = Len(bytes)
    OBVIOUS
  <2> HIDE DEF n
  <2> QED BY <2>1 DEF n
<1>2. T \subseteq Nat /\ T # {}
  <2>1. R \subseteq Nat
    OBVIOUS
  <2>2. T \subseteq R
    OBVIOUS
  <2> HIDE DEF T, R
  <2> QED BY <1>1, <2>1, <2>2
<1>3. PICK m \in T : \A j \in T : m <= j
  <2> HIDE DEF T
  <2> QED BY <1>2, LeastExists
<1>4. m \in R /\ bytes[i + m + 1] = NUL
  OBVIOUS
<1>5. \A j \in 0 .. m - 1 : bytes[i + j + 1] # NUL
  <2> SUFFICES ASSUME NEW j \in 0 .. m - 1, bytes[i + j + 1] = NUL PROVE FALSE
    OBVIOUS
  <2>1. j \in R /\ ~(m <= j)
    BY <1>4
  <2> QED BY <1>3, <2>1
<1>6. m \in R /\ P(m)
  BY <1>4, <1>5
<1>7. strlen(bytes, i) = CHOOSE n \in R : P(n)
  BY DEF strlen
<1> HIDE DEF P, R
<1>8. (CHOOSE n \in R : P(n)) \in R
  BY <1>6
<1> QED BY <1>7, <1>8 DEF R

\* A round of record_playback_all.
PlayRound(bytes, f, i) ==
  IF i >= Len(bytes) THEN <<>>
  ELSE <<SubSeq(bytes, i + 1, i + strlen(bytes, i))>> \o f[i + strlen(bytes, i) + 1]

\* The recursion of record_playback_all is well defined.
LEMMA PlayExists ==
  ASSUME NEW bytes, Len(bytes) \in Nat,
         \A i \in 0 .. Len(bytes) - 1 : strlen(bytes, i) \in 0 .. Len(bytes) - 1 - i
  PROVE  \E f : f = [i \in Nat |-> PlayRound(bytes, f, i)]
<1> DEFINE N == Len(bytes)
           Good(f, k) == \A i \in Nat : i >= N - k => f[i] = PlayRound(bytes, f, i)
           T == {k \in 0 .. N : \E f : f = [i \in Nat |-> f[i]] /\ Good(f, k)}
<1>1. N \in Nat /\ \A i \in 0 .. N - 1 : strlen(bytes, i) \in 0 .. N - 1 - i
  OBVIOUS
<1>2. 0 \in T
  <2> DEFINE f == [i \in Nat |-> <<>>]
  <2>1. f = [i \in Nat |-> f[i]]
    OBVIOUS
  <2>2. Good(f, 0)
    BY <1>1 DEF PlayRound
  <2> HIDE DEF f, Good
  <2> QED BY <1>1, <2>1, <2>2
<1>3. ASSUME NEW k \in 1 .. N, k - 1 \in T PROVE k \in T
  <2>1. PICK f : f = [i \in Nat |-> f[i]] /\ Good(f, k - 1)
    BY <1>3
  <2> DEFINE at == N - k
             e == PlayRound(bytes, f, at)
             g == [i \in Nat |-> IF i = at THEN e ELSE f[i]]
  <2>2. at \in Nat /\ at < N
    BY <1>1
  <2>3. \A i \in Nat : i >= at => PlayRound(bytes, g, i) = PlayRound(bytes, f, i)
    <3> SUFFICES ASSUME NEW i \in Nat, i >= at PROVE PlayRound(bytes, g, i) = PlayRound(bytes, f, i)
      OBVIOUS
    <3>1. CASE i >= N
      BY <3>1 DEF PlayRound
    <3>2. CASE ~(i >= N)
      <4>1. i \in 0 .. N - 1
        BY <1>1, <3>2
      <4>2. PICK n \in 0 .. N - 1 - i : n = strlen(bytes, i)
        BY <1>1, <4>1
      <4>3. i + n + 1 \in Nat /\ i + n + 1 # at
        BY <2>2, <4>1
      <4> HIDE DEF e, at
      <4>4. g[i + n + 1] = f[i + n + 1]
        BY <4>3
      <4> HIDE DEF g
      <4> QED BY <3>2, <4>2, <4>4 DEF PlayRound
    <3> QED BY <3>1, <3>2
  <2>4. ASSUME NEW i \in Nat, i >= N - k PROVE g[i] = PlayRound(bytes, g, i)
    <3>1. CASE i = at
      <4>1. g[i] = PlayRound(bytes, f, i)
        BY <3>1
      <4>2. i >= at
        BY <2>4
      <4> HIDE DEF g
      <4> QED BY <2>3, <4>1, <4>2
    <3>2. CASE i # at
      <4>1. i >= N - (k - 1) /\ i >= at
        BY <1>1, <2>4, <3>2
      <4>2. f[i] = PlayRound(bytes, f, i)
        BY <2>1, <4>1
      <4>3. g[i] = f[i]
        BY <3>2
      <4> HIDE DEF g
      <4> QED BY <2>3, <4>1, <4>2, <4>3
    <3> QED BY <3>1, <3>2
  <2>5. g = [i \in Nat |-> g[i]]
    OBVIOUS
  <2> HIDE DEF g
  <2>6. Good(g, k)
    BY <2>4
  <2> HIDE DEF Good
  <2> QED BY <1>1, <2>5, <2>6
<1>4. \A k \in 0 .. N : k \in T
  <2> HIDE DEF T, N
  <2> QED BY <1>1, <1>2, <1>3, UpTo
<1>5. PICK f : f = [i \in Nat |-> f[i]] /\ Good(f, N)
  BY <1>1, <1>4
<1>6. \A i \in Nat : f[i] = PlayRound(bytes, f, i)
  <2> SUFFICES ASSUME NEW i \in Nat PROVE f[i] = PlayRound(bytes, f, i)
    OBVIOUS
  <2>1. i >= N - N
    BY <1>1
  <2> QED BY <1>5, <2>1
<1>7. f = [i \in Nat |-> PlayRound(bytes, f, i)]
  <2>1. f = [i \in Nat |-> f[i]]
    BY <1>5
  <2>2. [i \in Nat |-> f[i]] = [i \in Nat |-> PlayRound(bytes, f, i)]
    BY <1>6, Zenon
  <2> QED BY <2>1, <2>2, Zenon
<1> QED BY <1>7

\* record_playback_all gives its handler the commands that lie in the buffer.
LEMMA PlaybackOfLaid ==
  ASSUME NEW bytes, NEW L, NEW S, Laid(bytes, L, S)
  PROVE  record_playback_all(bytes) = L
<1> DEFINE N == Len(bytes)
           n == Len(L)
           Run(f) == [i \in Nat |-> PlayRound(bytes, f, i)]
           Play == CHOOSE f : f = Run(f)
<1>1. N \in Nat /\ n \in Nat
  BY LenProperties DEF Laid
<1>2. \A k \in 1 .. n : L[k] \in Commands /\ Len(L[k]) \in Nat
  <2>1. \A k \in 1 .. n : L[k] \in Commands
    BY ElementOfSeq DEF Laid
  <2> QED BY <2>1, RecordAssumption, LenProperties
<1>3. \A i \in 0 .. N - 1 : strlen(bytes, i) \in 0 .. N - 1 - i
  <2>1. CASE n = 0
    <3>1. N = 0
      BY <2>1 DEF Laid
    <3> QED BY <3>1
  <2>2. CASE n # 0
    <3>1. n \in 1 .. n
      BY <1>1, <2>2
    <3>2. S[n] \in Nat /\ S[n + 1] = N
      BY <1>1, <3>1 DEF Laid
    <3>3. bytes[S[n] + Len(L[n]) + 1] = NUL /\ S[n + 1] = S[n] + Len(L[n]) + 1
      BY <3>1 DEF Laid, Lies
    <3>4. bytes[N] = NUL
      BY <3>2, <3>3
    <3> QED BY <1>1, <3>4, StrlenInside
  <2> QED BY <2>1, <2>2
<1>4. record_playback_all(bytes) = Play[0]
  BY DEF record_playback_all, PlayRound
<1>5. Play = Run(Play)
  <2>1. \E f : f = Run(f)
    BY <1>1, <1>3, PlayExists
  <2> QED BY <2>1, Zenon
<1> HIDE DEF Play
<1>6. \A i \in Nat : Play[i] = PlayRound(bytes, Play, i)
  <2> SUFFICES ASSUME NEW i \in Nat PROVE Play[i] = PlayRound(bytes, Play, i)
    OBVIOUS
  <2>1. Play[i] = Run(Play)[i]
    BY <1>5, Zenon
  <2> QED BY <2>1
<1> HIDE DEF Run
<1> DEFINE T == {k \in 0 .. n : Play[S[n + 1 - k]] = SubSeq(L, n + 1 - k, n)}
<1>7. L \in Seq(Commands) /\ S \in [1 .. n + 1 -> Nat]
  BY DEF Laid
<1>8. 0 \in T
  <2>1. n + 1 - 0 = n + 1 /\ S[n + 1] = N
    BY <1>1 DEF Laid
  <2>2. Play[N] = <<>>
    <3>1. N >= N
      BY <1>1
    <3>2. PlayRound(bytes, Play, N) = <<>>
      BY <3>1 DEF PlayRound
    <3> QED BY <1>1, <1>6, <3>2
  <2>3. SubSeq(L, n + 1, n) = <<>>
    BY <1>1, SubSeqEmpty
  <2>4. Play[S[n + 1 - 0]] = SubSeq(L, n + 1 - 0, n)
    BY <2>1, <2>2, <2>3
  <2>5. 0 \in 0 .. n
    BY <1>1
  <2> HIDE DEF n
  <2> QED BY <2>4, <2>5
<1>9. ASSUME NEW k \in 1 .. n, k - 1 \in T PROVE k \in T
  <2> DEFINE m == n + 1 - k
             at == S[m]
             cmd == L[m]
  <2>1. m \in 1 .. n /\ n + 1 - (k - 1) = m + 1 /\ m + 1 \in 1 .. n + 1
    BY <1>1
  <2>2. Play[S[m + 1]] = SubSeq(L, m + 1, n)
    <3>1. Play[S[n + 1 - (k - 1)]] = SubSeq(L, n + 1 - (k - 1), n)
      BY <1>9
    <3> QED BY <2>1, <3>1
  <2> HIDE DEF m
  <2>3. at \in Nat /\ cmd \in Commands /\ Len(cmd) \in Nat
    BY <1>2, <1>7, <2>1
  <2>4. Lies(bytes, at, cmd) /\ S[m + 1] = at + Len(cmd) + 1
    BY <2>1 DEF Laid
  <2>5. SubSeq(bytes, at + 1, at + Len(cmd)) = cmd /\ strlen(bytes, at) = Len(cmd)
    BY <1>1, <2>3, <2>4, SliceOfBytes, StrlenOfBytes
  <2>6. ~(at >= N)
    BY <1>1, <2>3, <2>4 DEF Lies
  <2> HIDE DEF at, cmd
  <2>7. PlayRound(bytes, Play, at) = <<cmd>> \o Play[at + Len(cmd) + 1]
    BY <2>5, <2>6 DEF PlayRound
  <2>8. Play[at] = <<cmd>> \o SubSeq(L, m + 1, n)
    BY <1>6, <2>2, <2>3, <2>4, <2>7
  <2>9. SubSeq(L, m, n) = <<L[m]>> \o SubSeq(L, m + 1, n)
    <3>1. m \in 1 .. Len(L) /\ n \in m .. Len(L)
      BY <1>1, <2>1
    <3> QED BY <1>7, <3>1, SubSeqRecursiveFirst
  <2>10. Play[S[m]] = SubSeq(L, m, n)
    BY <2>8, <2>9 DEF at, cmd
  <2> QED BY <1>1, <2>10 DEF m
<1>10. n \in T
  <2>1. \A k \in 0 .. n : k \in T
    <3> HIDE DEF T, n
    <3> QED BY <1>1, <1>8, <1>9, UpTo
  <2> QED BY <1>1, <2>1
<1>11. Play[S[1]] = SubSeq(L, 1, n)
  <2>1. n + 1 - n = 1
    BY <1>1
  <2> QED BY <1>10, <2>1
<1>12. S[1] = 0 /\ SubSeq(L, 1, n) = L
  BY <1>7, SubSeqFull DEF Laid
<1> QED BY <1>4, <1>11, <1>12

\* A copy holds the bytes of the first n commands of the record.
CopyOf(n) ==
  /\ Len(copy) = StartOf(n + 1)
  /\ \A i \in 1 .. Len(copy) : copy[i] = buf[i]

CopyInv ==
  /\ copy \in Seq(Byte)
  /\ \E n \in 0 .. Len(log) : CopyOf(n)

\* Every step preserves it.
LEMMA CopyStep ==
  ASSUME RecordInv, CopyInv, [Next]_vars
  PROVE  CopyInv'
<1>1. ASSUME NEW cmd \in Commands, record_append(cmd) PROVE CopyInv'
  <2>1. /\ Len(log') = Len(log) + 1 /\ copy' = copy
        /\ \A k \in 1 .. Len(log) + 1 : StartOf(k)' = StartOf(k)
    BY <1>1, LayoutAppend DEF RecordInv, record_append
  <2>2. PICK n \in 0 .. Len(log) : CopyOf(n)
    BY DEF CopyInv
  <2>3. Len(log) \in Nat /\ Len(buf) \in Nat /\ Len(copy) \in Nat
    BY LenProperties DEF RecordInv, LayoutInv, MemoryInv, CopyInv
  <2>4. n + 1 \in 1 .. Len(log) + 1 /\ n \in 0 .. Len(log')
    BY <2>1, <2>3
  <2>5. \A i \in 1 .. Len(buf) : buf'[i] = buf[i]
    <3> DEFINE new == Append(cmd, NUL)
    <3>1. buf' = buf \o new /\ new \in Seq(Byte) /\ Len(new) \in Nat /\ buf \in Seq(Byte)
      BY <1>1, StoredAtEnd, LenProperties DEF RecordInv, MemoryInv, record_append, Byte
    <3> HIDE DEF new
    <3>2. \A i \in 1 .. Len(buf) + Len(new) :
            (buf \o new)[i] = IF i <= Len(buf) THEN buf[i] ELSE new[i - Len(buf)]
      BY <3>1, ConcatProperties
    <3> QED BY <2>3, <3>1, <3>2
  <2>6. StartOf(n + 1) <= Len(buf)
    <3>1. CASE n + 1 <= Len(log)
      <4>1. n + 1 \in 1 .. Len(log)
        BY <2>3, <3>1
      <4> DEFINE k == n + 1
      <4>2. /\ StartOf(k + 1) = starts[k] + Len(log[k]) + 1 /\ StartOf(k + 1) <= Len(buf)
        BY <4>1 DEF RecordInv, LayoutInv
      <4>3. StartOf(k) = starts[k] /\ starts[k] \in Nat /\ Len(log[k]) \in Nat
        BY <3>1, <4>1, RecordAssumption, LenProperties, ElementOfSeq DEF RecordInv, LayoutInv, StartOf
      <4> HIDE DEF k
      <4>4. StartOf(k) <= Len(buf)
        BY <2>3, <4>2, <4>3
      <4> QED BY <4>4 DEF k
    <3>2. CASE ~(n + 1 <= Len(log))
      BY <2>3, <3>2 DEF StartOf
    <3> QED BY <3>1, <3>2
  <2>7. \A i \in 1 .. Len(copy) : copy[i] = buf'[i]
    <3> SUFFICES ASSUME NEW i \in 1 .. Len(copy) PROVE copy[i] = buf'[i]
      OBVIOUS
    <3>1. copy[i] = buf[i] /\ Len(copy) <= Len(buf)
      BY <2>2, <2>6 DEF CopyOf
    <3>2. i \in 1 .. Len(buf)
      BY <2>3, <3>1
    <3> QED BY <2>5, <3>1, <3>2
  <2>8. StartOf(n + 1)' = StartOf(n + 1)
    <3> DEFINE k == n + 1
    <3>1. StartOf(k)' = StartOf(k)
      BY <2>1, <2>4
    <3> QED BY <3>1
  <2>9. CopyOf(n)'
    BY <2>1, <2>2, <2>7, <2>8 DEF CopyOf
  <2> QED BY <2>1, <2>4, <2>9 DEF CopyInv
<1>2. CASE Copy
  <2>1. copy' = buf /\ UNCHANGED <<buf, log, starts>>
    BY <1>2 DEF Copy
  <2>2. Len(log) \in Nat /\ buf \in Seq(Byte)
    BY LenProperties DEF RecordInv, LayoutInv, MemoryInv, Byte
  <2>3. PICK n : n = Len(log)
    OBVIOUS
  <2>4. StartOf(n + 1)' = Len(buf)
    BY <2>1, <2>2, <2>3 DEF StartOf
  <2>5. CopyOf(n)' /\ n \in 0 .. Len(log')
    BY <2>1, <2>2, <2>3, <2>4 DEF CopyOf
  <2> QED BY <2>1, <2>2, <2>5 DEF CopyInv
<1>3. CASE UNCHANGED <<copy, buf, log, starts>>
  BY <1>3 DEF CopyInv, CopyOf, StartOf
<1> QED BY <1>1, <1>2, <1>3
        DEF Next, vars, record_read, record_read_end, Rewind, record_read_bytes,
            record_read_bytes_end

\* It holds in every reachable state.
LEMMA CopyInvHolds == Spec => []CopyInv
<1>1. Init => CopyInv
  BY DEF Init, CopyInv, CopyOf, StartOf
<1>2. RecordInv /\ CopyInv /\ [Next]_vars => CopyInv'
  BY CopyStep
<1> QED BY <1>1, <1>2, RecordInvHolds, PTL DEF Spec

\* A clone or a file of a record, played back by record_playback_all, gives
\* exactly the commands that had been appended when the copy was made.
THEOREM CopyReplaysHolds == Spec => []CopyReplays
<1>1. RecordInv /\ CopyInv => CopyReplays
  <2> SUFFICES ASSUME RecordInv, CopyInv PROVE CopyReplays
    OBVIOUS
  <2>1. PICK n \in 0 .. Len(log) : CopyOf(n)
    BY DEF CopyInv
  <2>2. PICK bytes \in Seq(Byte) : bytes = copy
    BY DEF CopyInv
  <2>3. /\ Len(log) \in Nat /\ log \in Seq(Commands) /\ Len(bytes) \in Nat /\ Len(buf) \in Nat
        /\ starts \in Seq(Nat) /\ Len(starts) = Len(log)
    BY <2>2, LenProperties DEF RecordInv, LayoutInv, MemoryInv
  <2>4. PICK L : L = SubSeq(log, 1, n)
    OBVIOUS
  <2>5. PICK S : S = [k \in 1 .. n + 1 |-> StartOf(k)]
    OBVIOUS
  <2>6. L \in Seq(Commands) /\ Len(L) = n /\ \A k \in 1 .. n : L[k] = log[k]
    <3>1. \A k \in 1 .. n : log[k] \in Commands
      BY <2>3, ElementOfSeq
    <3>2. /\ SubSeq(log, 1, n) \in Seq(Commands)
          /\ Len(SubSeq(log, 1, n)) = IF 1 <= n THEN n - 1 + 1 ELSE 0
          /\ \A i \in 1 .. n - 1 + 1 : SubSeq(log, 1, n)[i] = log[1 + i - 1]
      BY <2>3, <3>1, SubSeqProperties
    <3>3. n \in Nat /\ n - 1 + 1 = n /\ \A i \in 1 .. n : 1 + i - 1 = i
      BY <2>3
    <3> QED BY <2>4, <3>2, <3>3
  <2>7. n \in Nat
    BY <2>3
  <2>8. \A k \in 1 .. n + 1 : StartOf(k) \in Nat
    BY <2>3, ElementOfSeq DEF StartOf
  <2>9. S \in [1 .. n + 1 -> Nat] /\ S[1] = 0 /\ S[n + 1] = Len(bytes)
    BY <2>1, <2>2, <2>5, <2>7, <2>8 DEF RecordInv, LayoutInv, CopyOf
  <2>10. ASSUME NEW k \in 1 .. n
         PROVE  Lies(bytes, S[k], L[k]) /\ S[k + 1] = S[k] + Len(L[k]) + 1
    <3>1. k \in 1 .. Len(log) /\ k \in 1 .. n + 1 /\ k + 1 \in 1 .. n + 1
      BY <2>3
    <3>2. S[k] = starts[k] /\ S[k + 1] = StartOf(k + 1)
      BY <2>5, <3>1 DEF StartOf
    <3>3. /\ StartOf(k + 1) = starts[k] + Len(log[k]) + 1
          /\ \A i \in 1 .. Len(log[k]) : buf[starts[k] + i] = log[k][i]
          /\ buf[starts[k] + Len(log[k]) + 1] = NUL
      BY <3>1 DEF RecordInv, LayoutInv
    <3>4. L[k] = log[k] /\ Len(L[k]) \in Nat
      BY <2>6, RecordAssumption, LenProperties, ElementOfSeq
    <3>5. PICK a \in Nat : a = S[k]
      BY <2>9, <3>1
    <3>6. PICK l \in Nat : l = Len(L[k])
      BY <3>4
    <3>7. S[k + 1] = a + l + 1
      BY <3>2, <3>3, <3>4, <3>5, <3>6
    <3>8. S[k + 1] <= Len(bytes)
      <4> DEFINE T == {j \in 0 .. n - k : S[k + 1] <= S[k + 1 + j]}
      <4>1. 0 \in T
        BY <2>9, <3>1
      <4>2. ASSUME NEW j \in 1 .. n - k, j - 1 \in T PROVE j \in T
        <5> DEFINE m == k + j
        <5>1. m \in 1 .. n /\ m \in 1 .. Len(log) /\ m + 1 \in 1 .. n + 1
          BY <2>3
        <5>2. S[k + 1] <= S[m]
          <6>1. S[k + 1] <= S[k + 1 + (j - 1)]
            BY <4>2
          <6>2. k + 1 + (j - 1) = m
            BY <2>7
          <6> QED BY <6>1, <6>2
        <5>3. S[m + 1] = starts[m] + Len(log[m]) + 1 /\ S[m] = starts[m]
          BY <2>5, <5>1 DEF RecordInv, LayoutInv, StartOf
        <5>4. Len(log[m]) \in Nat
          BY <2>3, <5>1, RecordAssumption, LenProperties, ElementOfSeq
        <5>5. S[m] \in Nat /\ S[m + 1] \in Nat /\ S[k + 1] \in Nat
          BY <2>9, <3>1, <5>1
        <5>6. k + 1 + j = m + 1
          BY <2>7
        <5> HIDE DEF m
        <5>7. S[k + 1] <= S[m + 1]
          BY <5>2, <5>3, <5>4, <5>5
        <5> QED BY <5>6, <5>7
      <4>3. n - k \in Nat
        BY <2>7
      <4>4. n - k \in T
        <5> HIDE DEF T
        <5>1. \A j \in 0 .. n - k : j \in T
          BY <4>1, <4>2, <4>3, UpTo
        <5> QED BY <4>3, <5>1
      <4>5. k + 1 + (n - k) = n + 1
        BY <2>7
      <4>6. S[k + 1] <= S[k + 1 + (n - k)]
        BY <4>4
      <4> QED BY <2>9, <4>5, <4>6
    <3>9. \A i \in 1 .. l + 1 : bytes[a + i] = buf[a + i]
      <4> SUFFICES ASSUME NEW i \in 1 .. l + 1 PROVE bytes[a + i] = buf[a + i]
        OBVIOUS
      <4>1. a + i \in 1 .. Len(bytes)
        BY <2>3, <3>7, <3>8
      <4> QED BY <2>1, <2>2, <4>1 DEF CopyOf
    <3>10. \A i \in 1 .. l : bytes[a + i] = L[k][i]
      BY <3>2, <3>3, <3>4, <3>5, <3>6, <3>9
    <3>11. bytes[a + l + 1] = NUL
      <4>1. bytes[a + (l + 1)] = buf[a + (l + 1)]
        BY <3>9
      <4>2. buf[a + l + 1] = NUL
        BY <3>2, <3>3, <3>4, <3>5, <3>6
      <4>3. a + (l + 1) = a + l + 1
        OBVIOUS
      <4> QED BY <4>1, <4>2, <4>3
    <3> QED BY <3>5, <3>6, <3>7, <3>8, <3>10, <3>11 DEF Lies
  <2>11. Laid(bytes, L, S)
    BY <2>2, <2>6, <2>9, <2>10 DEF Laid
  <2>12. record_playback_all(copy) = L
    BY <2>2, <2>11, PlaybackOfLaid
  <2>13. Len(copy) = IF n < Len(log) THEN starts[n + 1] ELSE Len(buf)
    BY <2>1, <2>3, <2>7 DEF CopyOf, StartOf
  <2> QED BY <2>3, <2>4, <2>6, <2>12, <2>13 DEF CopyReplays, used_bytes
<1> QED BY <1>1, RecordInvHolds, CopyInvHolds, PTL

\* Every variable of a record keeps its type: what a reader is given is a
\* command that was appended.
THEOREM TypeOKHolds == Spec => []TypeOK
<1> DEFINE T == write \in Offsets /\ ret \in Commands \cup {None}
<1>1. Init => T
  BY DEF Init, OffsetZero, Offsets
<1>2. RecordInv /\ T /\ [Next]_vars => T'
  <2> SUFFICES ASSUME RecordInv, T, [Next]_vars PROVE T'
    OBVIOUS
  <2> USE DEF RecordInv
  <2>1. ASSUME NEW cmd \in Commands, record_append(cmd) PROVE T'
    <3>1. Len(cmd) \in Nat
      BY RecordAssumption, LenProperties
    <3> QED BY <2>1, <3>1 DEF record_append, Advance, Offsets
  <2>2. ASSUME NEW r \in Readers, read[r].command_count < Len(log),
               ret' = log[read[r].command_count + 1], UNCHANGED write
        PROVE  T'
    BY <2>2, ReaderAt DEF ReadersInv, Offsets
  <2>3. ASSUME NEW r \in Readers, record_read(r) PROVE T'
    <3>1. read[r].command_count < Len(log)
      BY <2>3, CanPlayback DEF record_read
    <3> QED BY <2>2, <2>3, <3>1, NextCommand DEF record_read
  <2>4. ASSUME NEW r \in Readers, NEW len \in Sizes, record_read_bytes(r, len) PROVE T'
    <3>1. read[r].command_count < Len(log) /\ len = Len(log[read[r].command_count + 1])
      BY <2>4, ReadBytesGuard DEF record_read_bytes
    <3> QED BY <2>2, <2>4, <3>1, NextCommand DEF record_read_bytes
  <2> QED BY <2>1, <2>3, <2>4
          DEF Next, vars, Copy, record_read_end, Rewind, record_read_bytes_end
<1>3. RecordInv /\ CopyInv /\ T => TypeOK
  BY DEF RecordInv, MemoryInv, LayoutInv, ReadersInv, CopyInv, Byte, TypeOK
<1> QED BY <1>1, <1>2, <1>3, RecordInvHolds, CopyInvHolds, PTL DEF Spec
=============================================================================
