---------------------------- MODULE RelayProofs -----------------------------
(***************************************************************************)
(* Proofs about module Relay, for any commands, any sizes of the sockets   *)
(* and buffers and any split of the reads and writes: the relay implements *)
(* the echo channel.                                                       *)
(*                                                                         *)
(* The argument follows the messages.  M is every message that was written *)
(* up to its NUL, k is how many of them the server has taken up and r how  *)
(* many the console has recorded.  What is on its way to the server is the *)
(* messages after k and perhaps the start of another; what is on its way   *)
(* back is the messages from r to k, each behind its header.  As long as   *)
(* no write was cut short, M is what was sent.                             *)
(***************************************************************************)
EXTENDS Relay, TLAPS, SequenceTheorems

-----------------------------------------------------------------------------
(***************************************************************************)
(* Pieces in a stream of bytes.                                            *)
(***************************************************************************)

\* Pieces, and the bytes up to the end of each of them.
Pieces(P, a) ==
  /\ P \in Seq(Seq(Nat))
  /\ a \in [0 .. Len(P) -> Nat]
  /\ \A i \in 1 .. Len(P) : a[i] = a[i - 1] + Len(P[i])
  /\ \A i, j \in 0 .. Len(P) : i <= j => a[i] <= a[j]

\* s starts with the pieces after r up to k.
Laid(s, P, a, r, k) ==
  /\ a[k] - a[r] <= Len(s)
  /\ \A i \in r + 1 .. k : \A j \in 1 .. Len(P[i]) : s[(a[i - 1] - a[r]) + j] = P[i][j]

\* The bytes of a sequence after the first n.
LEMMA FromProperties ==
  ASSUME NEW S, NEW s \in Seq(S), NEW n \in 0 .. Len(s)
  PROVE  /\ From(s, n) \in Seq(S)
         /\ Len(From(s, n)) = Len(s) - n
         /\ \A i \in 1 .. Len(s) - n : From(s, n)[i] = s[n + i]
BY DEF From

\* The bytes of two sequences, one behind the other.
LEMMA ConcatBytes ==
  ASSUME NEW S, NEW s \in Seq(S), NEW t \in Seq(S)
  PROVE  /\ s \o t \in Seq(S)
         /\ Len(s \o t) = Len(s) + Len(t)
         /\ \A i \in 1 .. Len(s) : (s \o t)[i] = s[i]
         /\ \A i \in 1 .. Len(t) : (s \o t)[Len(s) + i] = t[i]
OBVIOUS

\* Three sequences of bytes, one behind the other.
LEMMA ConcatThree ==
  ASSUME NEW s \in Seq(Nat), NEW t \in Seq(Nat), NEW u \in Seq(Nat)
  PROVE  (s \o t) \o u = s \o (t \o u)
<1> DEFINE l == (s \o t) \o u
           r == s \o (t \o u)
<1>1. /\ s \o t \in Seq(Nat) /\ Len(s \o t) = Len(s) + Len(t)
      /\ t \o u \in Seq(Nat) /\ Len(t \o u) = Len(t) + Len(u)
      /\ Len(s) \in Nat /\ Len(t) \in Nat /\ Len(u) \in Nat
  OBVIOUS
<1>2. /\ l \in Seq(Nat) /\ Len(l) = (Len(s) + Len(t)) + Len(u)
      /\ r \in Seq(Nat) /\ Len(r) = Len(s) + (Len(t) + Len(u))
  BY <1>1
<1>3. Len(l) = Len(r)
  BY <1>1, <1>2
<1>4. ASSUME NEW i \in 1 .. Len(l)
      PROVE  l[i] = r[i]
  BY <1>1, <1>2
<1> HIDE DEF l, r
<1>5. l = r
  BY <1>2, <1>3, <1>4, SeqEqual
<1> QED BY <1>5 DEF l, r

\* A piece and where it lies.
LEMMA PieceAt ==
  ASSUME NEW P, NEW a, Pieces(P, a), NEW i \in 1 .. Len(P)
  PROVE  /\ P[i] \in Seq(Nat) /\ Len(P[i]) \in Nat
         /\ a[i] \in Nat /\ a[i - 1] \in Nat
         /\ a[i] = a[i - 1] + Len(P[i])
<1>1. Len(P) \in Nat
  BY DEF Pieces
<1>2. i \in 0 .. Len(P) /\ i - 1 \in 0 .. Len(P)
  BY <1>1
<1>3. P[i] \in Seq(Nat)
  BY DEF Pieces
<1>4. a[i] \in Nat /\ a[i - 1] \in Nat
  BY <1>2 DEF Pieces
<1>5. a[i] = a[i - 1] + Len(P[i])
  BY DEF Pieces
<1> QED BY <1>3, <1>4, <1>5

\* The first piece is taken from a stream.
LEMMA LaidTake ==
  ASSUME NEW P, NEW a, Pieces(P, a),
         NEW r \in 0 .. Len(P), NEW k \in 0 .. Len(P), r < k,
         NEW s \in Seq(Nat), Laid(s, P, a, r, k)
  PROVE  /\ Len(P[r + 1]) <= Len(s)
         /\ \A j \in 1 .. Len(P[r + 1]) : s[j] = P[r + 1][j]
         /\ Laid(From(s, Len(P[r + 1])), P, a, r + 1, k)
<1>1. Len(P) \in Nat
  BY DEF Pieces
<1>2. r \in Nat /\ k \in Nat /\ r + 1 \in 1 .. Len(P) /\ (r + 1) - 1 = r /\ r + 1 <= k
  BY <1>1
<1>3. PICK p \in Nat : p = Len(P[r + 1])
  BY <1>2, PieceAt
<1>4. PICK x \in Nat : x = a[r]
  BY DEF Pieces
<1>5. a[r + 1] = x + p
  BY <1>2, <1>3, <1>4, PieceAt
<1>6. PICK y \in Nat : y = a[k] /\ x + p <= y
  <2>1. r + 1 \in 0 .. Len(P)
    BY <1>1, <1>2
  <2>2. a[k] \in Nat /\ a[r + 1] <= a[k]
    BY <1>2, <2>1 DEF Pieces
  <2> QED BY <1>5, <2>2
<1>7. PICK l \in Nat : l = Len(s) /\ y - x <= l
  BY <1>4, <1>6 DEF Laid
<1>8. p <= l
  BY <1>6, <1>7
<1>9. ASSUME NEW j \in 1 .. p PROVE s[j] = P[r + 1][j]
  <2>1. r + 1 \in r + 1 .. k
    BY <1>2
  <2>2. s[(a[r] - a[r]) + j] = P[r + 1][j]
    BY <1>2, <1>3, <2>1 DEF Laid
  <2>3. (a[r] - a[r]) + j = j
    BY <1>4
  <2> QED BY <2>2, <2>3
<1> DEFINE t == From(s, p)
<1>10. Len(t) = l - p /\ \A i \in 1 .. l - p : t[i] = s[p + i]
  <2>1. p \in 0 .. Len(s)
    BY <1>7, <1>8
  <2>2. Len(t) = Len(s) - p /\ \A i \in 1 .. Len(s) - p : t[i] = s[p + i]
    BY <2>1, FromProperties
  <2> QED BY <1>7, <2>2
<1> HIDE DEF t
<1>11. a[k] - a[r + 1] <= Len(t)
  <2>1. y - (x + p) <= l - p
    BY <1>7
  <2> QED BY <1>5, <1>6, <1>10, <2>1
<1>12. ASSUME NEW i \in (r + 1) + 1 .. k, NEW j \in 1 .. Len(P[i])
       PROVE  t[(a[i - 1] - a[r + 1]) + j] = P[i][j]
  <2>1. /\ i \in Nat /\ i \in r + 1 .. k /\ i \in 1 .. Len(P)
        /\ i \in 0 .. Len(P) /\ i - 1 \in 0 .. Len(P) /\ r + 1 \in 0 .. Len(P)
        /\ r + 1 <= i - 1 /\ i <= k
    BY <1>1, <1>2
  <2>2. PICK q \in Nat : q = Len(P[i])
    BY <2>1, PieceAt
  <2>3. PICK z \in Nat : z = a[i - 1] /\ a[i] = z + q
    BY <2>1, <2>2, PieceAt
  <2>4. x + p <= z /\ z + q <= y
    <3>1. a[r + 1] <= a[i - 1] /\ a[i] <= a[k]
      BY <2>1 DEF Pieces
    <3> QED BY <1>5, <1>6, <2>3, <3>1
  <2>5. s[(z - x) + j] = P[i][j]
    BY <1>4, <2>1, <2>3 DEF Laid
  <2>6. j \in 1 .. q
    BY <2>2
  <2>7. (z - (x + p)) + j \in 1 .. l - p /\ p + ((z - (x + p)) + j) = (z - x) + j
    BY <1>7, <2>4, <2>6
  <2>8. t[(z - (x + p)) + j] = s[(z - x) + j]
    BY <1>10, <2>7
  <2> QED BY <1>5, <2>3, <2>5, <2>8
<1>13. Laid(t, P, a, r + 1, k)
  BY <1>11, <1>12 DEF Laid
<1> QED BY <1>3, <1>7, <1>8, <1>9, <1>13 DEF t

\* The next piece is put behind a stream.
LEMMA LaidAdd ==
  ASSUME NEW P, NEW a, Pieces(P, a),
         NEW r \in 0 .. Len(P), NEW k \in 0 .. Len(P) - 1, r <= k,
         NEW s \in Seq(Nat), Laid(s, P, a, r, k), Len(s) = a[k] - a[r]
  PROVE  /\ Laid(s \o P[k + 1], P, a, r, k + 1)
         /\ Len(s \o P[k + 1]) = a[k + 1] - a[r]
<1>1. Len(P) \in Nat
  BY DEF Pieces
<1>2. r \in Nat /\ k \in Nat /\ k \in 0 .. Len(P) /\ k + 1 \in 1 .. Len(P) /\ (k + 1) - 1 = k
  BY <1>1
<1>3. P[k + 1] \in Seq(Nat)
  BY <1>2, PieceAt
<1>4. PICK p \in Nat : p = Len(P[k + 1])
  BY <1>3
<1>5. PICK x \in Nat : x = a[r]
  BY DEF Pieces
<1>6. PICK y \in Nat : y = a[k] /\ a[k + 1] = y + p
  BY <1>2, <1>4, PieceAt
<1>7. x <= y
  BY <1>2, <1>5, <1>6 DEF Pieces
<1>8. PICK l \in Nat : l = Len(s)
  OBVIOUS
<1>9. l = y - x
  BY <1>5, <1>6, <1>8
<1> DEFINE t == s \o P[k + 1]
<1>10. Len(t) = l + p
  <2>1. Len(t) = Len(s) + Len(P[k + 1])
    BY <1>3, ConcatBytes
  <2> HIDE DEF t
  <2> QED BY <1>4, <1>8, <2>1
<1>11. \A i \in 1 .. l : t[i] = s[i]
  BY <1>3, <1>8
<1>12. \A i \in 1 .. p : t[l + i] = P[k + 1][i]
  <2>1. \A i \in 1 .. Len(P[k + 1]) : t[Len(s) + i] = P[k + 1][i]
    BY <1>3, ConcatBytes, SMTT(30)
  <2> HIDE DEF t
  <2> QED BY <1>4, <1>8, <2>1
<1> HIDE DEF t
<1>13. Len(t) = a[k + 1] - a[r]
  <2>1. l + p = (y + p) - x
    BY <1>9
  <2> QED BY <1>5, <1>6, <1>10, <2>1
<1>14. a[k + 1] - a[r] <= Len(t)
  <2>1. (y + p) - x <= l + p
    BY <1>9
  <2> QED BY <1>5, <1>6, <1>10, <2>1
<1>15. ASSUME NEW i \in r + 1 .. k + 1, NEW j \in 1 .. Len(P[i])
       PROVE  t[(a[i - 1] - a[r]) + j] = P[i][j]
  <2>1. CASE i = k + 1
    <3>1. (y - x) + j = l + j /\ j \in 1 .. p
      BY <1>4, <1>9, <2>1
    <3> QED BY <1>2, <1>5, <1>6, <1>12, <2>1, <3>1
  <2>2. CASE i # k + 1
    <3>1. i \in r + 1 .. k /\ i \in 1 .. Len(P) /\ i \in 0 .. Len(P) /\ i - 1 \in 0 .. Len(P)
          /\ r <= i - 1 /\ i <= k
      BY <1>1, <1>2, <2>2
    <3>2. PICK q \in Nat : q = Len(P[i])
      BY <3>1, PieceAt
    <3>3. PICK z \in Nat : z = a[i - 1] /\ a[i] = z + q
      BY <3>1, <3>2, PieceAt
    <3>4. x <= z /\ z + q <= y
      <4>1. a[r] <= a[i - 1] /\ a[i] <= a[k]
        BY <1>2, <3>1 DEF Pieces
      <4> QED BY <1>5, <1>6, <3>3, <4>1
    <3>5. s[(z - x) + j] = P[i][j]
      BY <1>5, <3>1, <3>3 DEF Laid
    <3>6. j \in 1 .. q
      BY <3>2
    <3>7. (z - x) + j \in 1 .. l
      BY <1>9, <3>4, <3>6
    <3> QED BY <1>5, <1>11, <3>3, <3>5, <3>7
  <2> QED BY <2>1, <2>2
<1> QED BY <1>13, <1>14, <1>15 DEF Laid, t

\* Bytes behind a stream do not change where its pieces are.
LEMMA LaidMore ==
  ASSUME NEW P, NEW a, Pieces(P, a),
         NEW r \in 0 .. Len(P), NEW k \in 0 .. Len(P), r <= k,
         NEW s \in Seq(Nat), Laid(s, P, a, r, k), NEW t \in Seq(Nat)
  PROVE  Laid(s \o t, P, a, r, k)
<1>1. Len(P) \in Nat
  BY DEF Pieces
<1>2. r \in Nat /\ k \in Nat
  BY <1>1
<1>3. PICK x \in Nat, y \in Nat : x = a[r] /\ y = a[k]
  BY DEF Pieces
<1>4. PICK l \in Nat, m \in Nat : l = Len(s) /\ m = Len(t)
  OBVIOUS
<1>5. y - x <= l
  BY <1>3, <1>4 DEF Laid
<1> DEFINE u == s \o t
<1>6. Len(u) = l + m /\ \A i \in 1 .. l : u[i] = s[i]
  <2>1. Len(u) = Len(s) + Len(t) /\ \A i \in 1 .. Len(s) : u[i] = s[i]
    BY ConcatBytes
  <2> HIDE DEF u
  <2> QED BY <1>4, <2>1
<1> HIDE DEF u
<1>7. a[k] - a[r] <= Len(u)
  <2>1. y - x <= l + m
    BY <1>5
  <2> QED BY <1>3, <1>6, <2>1
<1>8. ASSUME NEW i \in r + 1 .. k, NEW j \in 1 .. Len(P[i])
      PROVE  u[(a[i - 1] - a[r]) + j] = P[i][j]
  <2>1. /\ i \in Nat /\ i \in 1 .. Len(P) /\ i \in 0 .. Len(P) /\ i - 1 \in 0 .. Len(P)
        /\ r <= i - 1 /\ i <= k
    BY <1>1, <1>2
  <2>2. PICK q \in Nat : q = Len(P[i])
    BY <2>1, PieceAt
  <2>3. PICK z \in Nat : z = a[i - 1] /\ a[i] = z + q
    BY <2>1, <2>2, PieceAt
  <2>4. x <= z /\ z + q <= y
    <3>1. a[r] <= a[i - 1] /\ a[i] <= a[k]
      BY <2>1 DEF Pieces
    <3> QED BY <1>3, <2>3, <3>1
  <2>5. s[(z - x) + j] = P[i][j]
    BY <1>3, <2>3 DEF Laid
  <2>6. j \in 1 .. q
    BY <2>2
  <2>7. (z - x) + j \in 1 .. l
    BY <1>5, <2>4, <2>6
  <2> QED BY <1>3, <1>6, <2>3, <2>5, <2>7
<1> QED BY <1>7, <1>8 DEF Laid, u

\* The bytes up to the end of each piece, with one piece more.
MoreBytes(P, a, p) ==
  [i \in 0 .. Len(P) + 1 |-> IF i <= Len(P) THEN a[i] ELSE a[Len(P)] + Len(p)]

\* One piece more leaves the others where they are.
LEMMA PiecesAdd ==
  ASSUME NEW P, NEW a, Pieces(P, a), NEW p \in Seq(Nat)
  PROVE  /\ Pieces(Append(P, p), MoreBytes(P, a, p))
         /\ \A s, r, k : r \in 0 .. Len(P) /\ k \in 0 .. Len(P) /\ Laid(s, P, a, r, k)
                         => Laid(s, Append(P, p), MoreBytes(P, a, p), r, k)
         /\ \A i \in 0 .. Len(P) : MoreBytes(P, a, p)[i] = a[i]
         /\ MoreBytes(P, a, p)[Len(P) + 1] = a[Len(P)] + Len(p)
<1> DEFINE Q == Append(P, p)
           c == MoreBytes(P, a, p)
           n == Len(P)
<1>1. n \in Nat /\ Len(p) \in Nat /\ P \in Seq(Seq(Nat)) /\ a \in [0 .. n -> Nat]
  BY DEF Pieces
<1>2. Q \in Seq(Seq(Nat)) /\ Len(Q) = n + 1 /\ (\A i \in 1 .. n : Q[i] = P[i]) /\ Q[n + 1] = p
  BY <1>1
<1>3. n \in 0 .. n /\ \A i \in 0 .. n : a[i] \in Nat
  BY <1>1
<1>4. /\ \A i \in 0 .. n : c[i] = a[i]
      /\ c[n + 1] = a[n] + Len(p)
      /\ c \in [0 .. n + 1 -> Nat]
  <2> HIDE DEF n
  <2>1. c = [i \in 0 .. n + 1 |-> IF i <= n THEN a[i] ELSE a[n] + Len(p)]
    BY DEF MoreBytes, n
  <2> HIDE DEF c
  <2>2. \A i \in 0 .. n : c[i] = a[i]
    BY <1>1, <2>1
  <2>3. c[n + 1] = a[n] + Len(p)
    BY <1>1, <2>1
  <2>4. \A i \in 0 .. n + 1 : c[i] \in Nat
    <3> SUFFICES ASSUME NEW i \in 0 .. n + 1 PROVE c[i] \in Nat
      OBVIOUS
    <3>1. CASE i = n + 1
      BY <1>1, <1>3, <2>3, <3>1
    <3>2. CASE i # n + 1
      <4>1. i \in 0 .. n
        BY <1>1, <3>2
      <4> QED BY <1>3, <2>2, <4>1
    <3> QED BY <3>1, <3>2
  <2> QED BY <2>1, <2>2, <2>3, <2>4
<1> HIDE DEF Q, c, n
<1>5. ASSUME NEW i \in 1 .. n + 1 PROVE c[i] = c[i - 1] + Len(Q[i])
  <2>1. CASE i = n + 1
    <3>1. i - 1 = n
      BY <1>1, <2>1
    <3> QED BY <1>2, <1>3, <1>4, <2>1, <3>1
  <2>2. CASE i # n + 1
    <3>1. i \in 1 .. n /\ i \in 0 .. n /\ i - 1 \in 0 .. n
      BY <1>1, <2>2
    <3>2. a[i] = a[i - 1] + Len(P[i])
      BY <3>1 DEF Pieces, n
    <3> QED BY <1>2, <1>4, <3>1, <3>2
  <2> QED BY <2>1, <2>2
<1>6. ASSUME NEW i \in 0 .. n + 1, NEW j \in 0 .. n + 1, i <= j PROVE c[i] <= c[j]
  <2>1. \A x, y \in 0 .. n : x <= y => a[x] <= a[y]
    BY DEF Pieces, n
  <2>2. CASE j # n + 1
    <3>1. i \in 0 .. n /\ j \in 0 .. n
      BY <1>1, <1>6, <2>2
    <3> QED BY <1>4, <1>6, <2>1, <3>1
  <2>3. CASE j = n + 1 /\ i # n + 1
    <3>1. i \in 0 .. n /\ i <= n
      BY <1>1, <2>3
    <3>2. a[i] <= a[n] /\ a[i] \in Nat /\ a[n] \in Nat
      BY <1>3, <2>1, <3>1
    <3>3. a[i] <= a[n] + Len(p)
      BY <1>1, <3>2
    <3> QED BY <1>4, <2>3, <3>1, <3>3
  <2>4. CASE j = n + 1 /\ i = n + 1
    <3>1. c[j] \in Nat /\ i = j
      BY <1>4, <2>4
    <3> QED BY <3>1
  <2> QED BY <2>2, <2>3, <2>4
<1>7. Pieces(Q, c)
  BY <1>2, <1>4, <1>5, <1>6 DEF Pieces
<1>8. ASSUME NEW s, NEW r \in 0 .. n, NEW k \in 0 .. n, Laid(s, P, a, r, k)
      PROVE  Laid(s, Q, c, r, k)
  <2>1. c[k] = a[k] /\ c[r] = a[r]
    BY <1>4
  <2>2. ASSUME NEW i \in r + 1 .. k, NEW j \in 1 .. Len(Q[i])
        PROVE  s[(c[i - 1] - c[r]) + j] = Q[i][j]
    <3>1. i \in 1 .. n /\ i - 1 \in 0 .. n
      BY <1>1
    <3>2. Q[i] = P[i] /\ c[i - 1] = a[i - 1]
      BY <1>2, <1>4, <3>1
    <3>3. s[(a[i - 1] - a[r]) + j] = P[i][j]
      BY <1>8, <3>2 DEF Laid
    <3> QED BY <2>1, <3>2, <3>3
  <2>3. a[k] - a[r] <= Len(s)
    BY <1>8 DEF Laid
  <2> QED BY <2>1, <2>2, <2>3 DEF Laid
<1> QED BY <1>4, <1>7, <1>8 DEF Q, c, n

-----------------------------------------------------------------------------
(***************************************************************************)
(* Messages on their way to the server.                                    *)
(***************************************************************************)

\* A message ends at its only NUL.
Message(m) ==
  /\ Len(m) >= 1
  /\ m[Len(m)] = NUL
  /\ \A j \in 1 .. Len(m) - 1 : m[j] # NUL

\* The bytes after the first n have no NUL.
Unended(U, n) == \A x \in n + 1 .. Len(U) : U[x] # NUL

\* U is the messages after k, and the start of another one.
Streamed(U, M, b, k) ==
  Laid(U, M, b, k, Len(M)) /\ Unended(U, b[Len(M)] - b[k])

\* server_process: up to the first NUL is the next message.
LEMMA StreamedTake ==
  ASSUME NEW M, NEW b, Pieces(M, b), \A i \in 1 .. Len(M) : Message(M[i]),
         NEW k \in 0 .. Len(M), NEW U \in Seq(Nat), Streamed(U, M, b, k),
         NEW e \in 1 .. Len(U), U[e] = NUL, \A x \in 1 .. e - 1 : U[x] # NUL
  PROVE  /\ k < Len(M)
         /\ SubSeq(U, 1, e) = M[k + 1]
         /\ e = Len(M[k + 1])
         /\ Streamed(From(U, e), M, b, k + 1)
<1> DEFINE n == Len(M)
<1>1. n \in Nat /\ k \in Nat /\ n \in 0 .. n
  BY DEF Pieces
<1>2. PICK x \in Nat, y \in Nat : x = b[k] /\ y = b[n]
  BY <1>1 DEF Pieces
<1>3. PICK l \in Nat : l = Len(U) /\ y - x <= l
  BY <1>2 DEF Streamed, Laid
<1>4. \A i \in (y - x) + 1 .. l : U[i] # NUL
  BY <1>2, <1>3 DEF Streamed, Unended
<1>5. e \in 1 .. l
  BY <1>3
<1>6. k < n
  <2> SUFFICES ASSUME k = n PROVE FALSE
    BY <1>1
  <2>1. y - x = 0
    BY <1>2
  <2> QED BY <1>4, <1>5, <2>1
<1>7. k + 1 \in 1 .. n /\ k + 1 \in 0 .. n /\ (k + 1) - 1 = k
  BY <1>1, <1>6
<1>8. PICK p \in Nat : p = Len(M[k + 1])
  BY <1>7, PieceAt
<1>9. b[k + 1] = x + p /\ M[k + 1] \in Seq(Nat)
  BY <1>2, <1>7, <1>8, PieceAt
<1>10. p >= 1 /\ M[k + 1][p] = NUL /\ \A j \in 1 .. p - 1 : M[k + 1][j] # NUL
  BY <1>7, <1>8 DEF Message
<1>11. Laid(U, M, b, k, n)
  BY DEF Streamed
<1> HIDE DEF n
<1>12. /\ p <= l
       /\ \A j \in 1 .. p : U[j] = M[k + 1][j]
       /\ Laid(From(U, p), M, b, k + 1, n)
  BY <1>1, <1>3, <1>6, <1>8, <1>11, LaidTake, SMTT(30) DEF n
<1>13. e = p
  <2>1. U[p] = NUL
    BY <1>10, <1>12, SMTT(30)
  <2>2. e <= p
    <3> SUFFICES ASSUME p <= e - 1 PROVE FALSE
      BY <1>5
    <3>1. p \in 1 .. e - 1
      BY <1>5, <1>10
    <3> QED BY <2>1, <3>1
  <2>3. ~(e <= p - 1)
    <3> SUFFICES ASSUME e <= p - 1 PROVE FALSE
      OBVIOUS
    <3>1. e \in 1 .. p - 1 /\ e \in 1 .. p
      BY <1>5
    <3> QED BY <1>10, <1>12, <3>1
  <2> QED BY <1>5, <2>2, <2>3
<1>14. SubSeq(U, 1, e) = M[k + 1]
  <2> DEFINE s == SubSeq(U, 1, p)
  <2>1. s \in Seq(Nat) /\ Len(s) = p /\ \A j \in 1 .. p : s[j] = U[j]
    BY <1>3, <1>12, SMTT(30)
  <2> HIDE DEF s
  <2>2. \A j \in 1 .. p : s[j] = M[k + 1][j]
    BY <1>12, <2>1
  <2>3. s = M[k + 1]
    BY <1>8, <1>9, <2>1, <2>2, SeqEqual
  <2> QED BY <1>13, <2>3 DEF s
<1> DEFINE V == From(U, p)
<1>15. Len(V) = l - p /\ \A i \in 1 .. l - p : V[i] = U[p + i]
  <2>1. p \in 0 .. Len(U)
    BY <1>3, <1>12
  <2>2. Len(V) = Len(U) - p /\ \A i \in 1 .. Len(U) - p : V[i] = U[p + i]
    BY <2>1, FromProperties
  <2> QED BY <1>3, <2>2
<1> HIDE DEF V
<1>16. Unended(V, b[n] - b[k + 1])
  <2> SUFFICES ASSUME NEW i \in (y - (x + p)) + 1 .. l - p PROVE V[i] # NUL
    BY <1>2, <1>9, <1>15 DEF Unended, n
  <2>1. x + p <= y
    <3>1. b[k + 1] <= b[n]
      BY <1>1, <1>7 DEF Pieces, n
    <3> QED BY <1>2, <1>9, <3>1 DEF n
  <2>2. i \in 1 .. l - p /\ p + i \in (y - x) + 1 .. l
    BY <1>3, <1>12, <2>1
  <2> QED BY <1>4, <1>15, <2>2
<1>17. Streamed(V, M, b, k + 1)
  BY <1>12, <1>16 DEF Streamed, V, n
<1> QED BY <1>6, <1>8, <1>13, <1>14, <1>17 DEF V, n

\* A write that was cut before the NUL leaves a message without its end.
LEMMA StreamedCut ==
  ASSUME NEW M, NEW b, Pieces(M, b), NEW k \in 0 .. Len(M),
         NEW U \in Seq(Nat), Streamed(U, M, b, k),
         NEW t \in Seq(Nat), \A i \in 1 .. Len(t) : t[i] # NUL
  PROVE  Streamed(U \o t, M, b, k)
<1> DEFINE n == Len(M)
           V == U \o t
<1>1. n \in Nat /\ k \in Nat /\ n \in 0 .. n /\ k <= n
  BY DEF Pieces
<1>2. PICK x \in Nat, y \in Nat : x = b[k] /\ y = b[n] /\ x <= y
  BY <1>1 DEF Pieces
<1>3. PICK l \in Nat, m \in Nat : l = Len(U) /\ m = Len(t) /\ y - x <= l
  BY <1>2 DEF Streamed, Laid
<1>4. Laid(V, M, b, k, n)
  BY <1>1, LaidMore DEF Streamed
<1>5. /\ Len(V) = l + m
      /\ \A i \in 1 .. l : V[i] = U[i]
      /\ \A i \in 1 .. m : V[l + i] = t[i]
  <2>1. /\ Len(V) = Len(U) + Len(t)
        /\ \A i \in 1 .. Len(U) : V[i] = U[i]
        /\ \A i \in 1 .. Len(t) : V[Len(U) + i] = t[i]
    BY ConcatBytes
  <2> HIDE DEF V
  <2> QED BY <1>3, <2>1
<1> HIDE DEF V
<1>6. ASSUME NEW i \in (y - x) + 1 .. l + m PROVE V[i] # NUL
  <2>1. CASE i <= l
    <3>1. i \in (y - x) + 1 .. l /\ i \in 1 .. l
      BY <1>2, <2>1
    <3> QED BY <1>2, <1>3, <1>5, <3>1 DEF Streamed, Unended
  <2>2. CASE ~(i <= l)
    <3>1. i - l \in 1 .. m /\ l + (i - l) = i
      BY <1>2, <2>2
    <3>2. V[l + (i - l)] = t[i - l]
      BY <1>5, <3>1
    <3> QED BY <1>3, <3>1, <3>2
  <2> QED BY <2>1, <2>2
<1> QED BY <1>2, <1>4, <1>5, <1>6 DEF Streamed, Unended, V

\* A write up to the NUL makes what was there without an end a message.
LEMMA StreamedSend ==
  ASSUME NEW M, NEW b, Pieces(M, b), NEW k \in 0 .. Len(M),
         NEW U \in Seq(Nat), Streamed(U, M, b, k),
         NEW t \in Seq(Nat), Message(t)
  PROVE  \E m \in Seq(Nat) :
           /\ Message(m)
           /\ Streamed(U \o t, Append(M, m), MoreBytes(M, b, m), k)
           /\ Len(U) = b[Len(M)] - b[k] =>
                m = t /\ Len(U \o t) = MoreBytes(M, b, m)[Len(M) + 1] - b[k]
<1> DEFINE n == Len(M)
<1>1. n \in Nat /\ k \in Nat /\ n \in 0 .. n /\ k <= n
  BY DEF Pieces
<1>2. PICK x \in Nat, y \in Nat : x = b[k] /\ y = b[n] /\ x <= y
  BY <1>1 DEF Pieces
<1>3. PICK l \in Nat, q \in Nat : l = Len(U) /\ q = Len(t) /\ y - x <= l
  BY <1>2 DEF Streamed, Laid
<1> DEFINE h == y - x
           g == From(U, h)
           m == g \o t
           V == U \o t
<1>4. h \in Nat /\ h <= l /\ y = x + h
  BY <1>2, <1>3
<1> HIDE DEF h
<1>5. /\ g \in Seq(Nat)
      /\ Len(g) = l - h
      /\ \A i \in 1 .. l - h : g[i] = U[h + i]
  <2>1. h \in 0 .. Len(U)
    BY <1>3, <1>4
  <2>2. /\ g \in Seq(Nat) /\ Len(g) = Len(U) - h
        /\ \A i \in 1 .. Len(U) - h : g[i] = U[h + i]
    BY <2>1, FromProperties
  <2> QED BY <1>3, <2>2
<1> HIDE DEF g
<1>6. /\ m \in Seq(Nat) /\ Len(m) = (l - h) + q
      /\ \A i \in 1 .. l - h : m[i] = g[i]
      /\ \A i \in 1 .. q : m[(l - h) + i] = t[i]
  <2>1. /\ m \in Seq(Nat) /\ Len(m) = Len(g) + Len(t)
        /\ \A i \in 1 .. Len(g) : m[i] = g[i]
        /\ \A i \in 1 .. Len(t) : m[Len(g) + i] = t[i]
    <3>1. g \in Seq(Nat)
      BY <1>5
    <3> QED BY <3>1, ConcatBytes
  <2> HIDE DEF m
  <2> QED BY <1>3, <1>5, <2>1
<1>7. /\ V \in Seq(Nat) /\ Len(V) = l + q
      /\ \A i \in 1 .. l : V[i] = U[i]
      /\ \A i \in 1 .. q : V[l + i] = t[i]
  <2>1. /\ V \in Seq(Nat) /\ Len(V) = Len(U) + Len(t)
        /\ \A i \in 1 .. Len(U) : V[i] = U[i]
        /\ \A i \in 1 .. Len(t) : V[Len(U) + i] = t[i]
    BY ConcatBytes
  <2> HIDE DEF V
  <2> QED BY <1>3, <2>1
<1>8. q >= 1 /\ t[q] = NUL /\ \A j \in 1 .. q - 1 : t[j] # NUL
  BY <1>3 DEF Message
<1>9. h = l => m = t
  <2> SUFFICES ASSUME h = l PROVE g = <<>>
    OBVIOUS
  <2>1. Len(g) = 0
    BY <1>4, <1>5
  <2> QED BY <1>5, <2>1
<1> HIDE DEF m, V
<1>10. PICK w \in Nat : w = (l - h) + q
  BY <1>4
<1>11. Message(m)
  <2>1. m[w] = NUL /\ w >= 1
    <3>1. q \in 1 .. q
      BY <1>8
    <3> QED BY <1>4, <1>6, <1>8, <1>10, <3>1, SMTT(30)
  <2>2. ASSUME NEW j \in 1 .. w - 1 PROVE m[j] # NUL
    <3>1. CASE j <= l - h
      <4>1. j \in 1 .. l - h /\ h + j \in h + 1 .. l
        BY <1>4, <3>1
      <4>2. U[h + j] # NUL
        BY <1>2, <1>3, <4>1 DEF Streamed, Unended, h
      <4> QED BY <1>5, <1>6, <4>1, <4>2
    <3>2. CASE ~(j <= l - h)
      <4>1. j - (l - h) \in 1 .. q - 1 /\ j - (l - h) \in 1 .. q
            /\ (l - h) + (j - (l - h)) = j
        BY <1>4, <1>10, <3>2
      <4>2. m[(l - h) + (j - (l - h))] = t[j - (l - h)]
        BY <1>6, <4>1
      <4> QED BY <1>8, <4>1, <4>2
    <3> QED BY <3>1, <3>2
  <2>3. Len(m) = w
    BY <1>6, <1>10
  <2> QED BY <2>1, <2>2, <2>3 DEF Message
<1> DEFINE Q == Append(M, m)
           c == MoreBytes(M, b, m)
<1>12. /\ Pieces(Q, c)
       /\ \A s, r, j : r \in 0 .. n /\ j \in 0 .. n /\ Laid(s, M, b, r, j) => Laid(s, Q, c, r, j)
       /\ \A i \in 0 .. n : c[i] = b[i]
       /\ c[n + 1] = b[n] + Len(m)
  <2>1. m \in Seq(Nat)
    BY <1>6
  <2> QED BY <2>1, PiecesAdd
<1>13. Len(Q) = n + 1 /\ Q[n + 1] = m
  BY DEF Pieces
<1> HIDE DEF Q, c, n
<1>14. c[k] = x /\ c[n] = y /\ c[n + 1] = y + w
  BY <1>1, <1>2, <1>6, <1>10, <1>12 DEF n
<1>15. Laid(V, Q, c, k, n)
  <2>1. Laid(V, M, b, k, n)
    BY <1>1, LaidMore DEF Streamed, V, n
  <2> QED BY <1>1, <1>12, <2>1, SMTT(30)
<1>16. Laid(V, Q, c, k, n + 1)
  <2>1. c[n + 1] - c[k] <= Len(V)
    <3>1. (y + w) - x <= l + q
      BY <1>4, <1>10
    <3> QED BY <1>7, <1>14, <3>1
  <2>2. ASSUME NEW i \in k + 1 .. n + 1, NEW j \in 1 .. Len(Q[i])
        PROVE  V[(c[i - 1] - c[k]) + j] = Q[i][j]
    <3>1. CASE i # n + 1
      <4>1. i \in k + 1 .. n
        BY <1>1, <3>1
      <4> QED BY <1>15, <4>1 DEF Laid
    <3>2. CASE i = n + 1
      <4>1. i - 1 = n /\ j \in 1 .. w
        BY <1>1, <1>6, <1>10, <1>13, <3>2
      <4>2. V[h + j] = m[j]
        <5>1. CASE j <= l - h
          <6>1. j \in 1 .. l - h /\ h + j \in 1 .. l
            BY <1>4, <4>1, <5>1
          <6> QED BY <1>5, <1>6, <1>7, <6>1
        <5>2. CASE ~(j <= l - h)
          <6>1. j - (l - h) \in 1 .. q /\ (l - h) + (j - (l - h)) = j
                /\ l + (j - (l - h)) = h + j
            BY <1>4, <1>10, <4>1, <5>2
          <6>2. m[(l - h) + (j - (l - h))] = t[j - (l - h)] /\ V[l + (j - (l - h))] = t[j - (l - h)]
            BY <1>6, <1>7, <6>1
          <6> QED BY <6>1, <6>2
        <5> QED BY <5>1, <5>2
      <4>3. (c[i - 1] - c[k]) + j = h + j
        BY <1>14, <4>1 DEF h
      <4> QED BY <1>13, <3>2, <4>2, <4>3
    <3> QED BY <3>1, <3>2
  <2> QED BY <2>1, <2>2 DEF Laid
<1>17. Unended(V, c[n + 1] - c[k])
  <2>1. \A i \in ((y + w) - x) + 1 .. l + q : FALSE
    BY <1>4, <1>10
  <2> QED BY <1>7, <1>14, <2>1 DEF Unended
<1>18. Streamed(V, Q, c, k)
  BY <1>13, <1>16, <1>17 DEF Streamed
<1>19. Len(U) = b[n] - b[k] => m = t /\ Len(V) = c[n + 1] - b[k]
  <2> SUFFICES ASSUME Len(U) = b[n] - b[k] PROVE m = t /\ Len(V) = c[n + 1] - b[k]
    OBVIOUS
  <2>1. l = y - x
    BY <1>2, <1>3 DEF n
  <2>2. h = l
    BY <2>1 DEF h
  <2>3. l + q = (y + w) - x
    BY <1>4, <1>10, <2>2
  <2> QED BY <1>2, <1>7, <1>9, <1>14, <2>2, <2>3
<1> QED BY <1>6, <1>11, <1>18, <1>19 DEF V, Q, c, n

-----------------------------------------------------------------------------
(***************************************************************************)
(* Messages on their way back.                                             *)
(***************************************************************************)

\* A message behind its header.
Frame(m) == <<Len(m), Player>> \o m

\* What server_message has still to write, without its first call and whole.
Behind(out) ==
  IF Len(out) = 3 THEN out[2] \o out[3] ELSE IF Len(out) = 2 THEN out[2] ELSE <<>>
Pending(out) == IF out = <<>> THEN <<>> ELSE out[1] \o Behind(out)

\* The calls of server_message.
Calls(out) ==
  /\ out \in Seq(Seq(Nat)) /\ Len(out) \in {0, 1, 2, 3}
  /\ \A i \in 1 .. Len(out) : out[i] # <<>>

\* The bytes of a frame.
LEMMA FrameBytes ==
  ASSUME NEW m \in Seq(Nat)
  PROVE  /\ Frame(m) \in Seq(Nat)
         /\ Len(Frame(m)) = 2 + Len(m)
         /\ Frame(m)[1] = Len(m)
         /\ \A j \in 1 .. Len(m) : Frame(m)[2 + j] = m[j]
<1> DEFINE h == <<Len(m), Player>>
<1>1. h \in Seq(Nat) /\ Len(h) = 2 /\ h[1] = Len(m)
  BY DEF Player
<1> HIDE DEF h
<1>2. /\ h \o m \in Seq(Nat) /\ Len(h \o m) = 2 + Len(m)
      /\ (h \o m)[1] = Len(m) /\ \A j \in 1 .. Len(m) : (h \o m)[2 + j] = m[j]
  <2>1. /\ h \o m \in Seq(Nat) /\ Len(h \o m) = Len(h) + Len(m)
        /\ \A i \in 1 .. Len(h) : (h \o m)[i] = h[i]
        /\ \A i \in 1 .. Len(m) : (h \o m)[Len(h) + i] = m[i]
    <3>1. h \in Seq(Nat)
      BY <1>1
    <3> QED BY <3>1, ConcatBytes
  <2> QED BY <1>1, <2>1
<1> QED BY <1>2 DEF Frame, h

\* What is pending are bytes, and none only if no call is left.
LEMMA PendingType ==
  ASSUME NEW out, Calls(out)
  PROVE  /\ Behind(out) \in Seq(Nat)
         /\ Pending(out) \in Seq(Nat)
         /\ out # <<>> => out[1] \in Seq(Nat) /\ Len(out[1]) >= 1 /\ Len(Pending(out)) >= 1
<1>1. out \in Seq(Seq(Nat)) /\ Len(out) \in {0, 1, 2, 3}
  BY DEF Calls
<1>2. CASE Len(out) = 0
  <2>1. out = <<>>
    BY <1>1, <1>2
  <2> QED BY <1>2, <2>1 DEF Behind, Pending
<1>3. CASE Len(out) # 0
  <2>1. 1 \in 1 .. Len(out) /\ out # <<>>
    BY <1>1, <1>3
  <2>2. out[1] \in Seq(Nat) /\ out[1] # <<>>
    BY <1>1, <2>1 DEF Calls
  <2>3. Behind(out) \in Seq(Nat)
    <3>1. CASE Len(out) = 1
      BY <3>1 DEF Behind
    <3>2. CASE Len(out) = 2
      <4>1. 2 \in 1 .. Len(out)
        BY <3>2
      <4>2. out[2] \in Seq(Nat)
        BY <1>1, <4>1
      <4> QED BY <3>2, <4>2 DEF Behind
    <3>3. CASE Len(out) = 3
      <4>1. out[2] \in Seq(Nat) /\ out[3] \in Seq(Nat)
        <5>1. 2 \in 1 .. Len(out) /\ 3 \in 1 .. Len(out)
          BY <3>3
        <5> QED BY <1>1, <5>1
      <4>2. out[2] \o out[3] \in Seq(Nat)
        BY <4>1, ConcatBytes
      <4> QED BY <3>3, <4>2 DEF Behind
    <3> QED BY <1>1, <1>3, <3>1, <3>2, <3>3
  <2>4. Len(out[1]) >= 1
    BY <2>2
  <2>5. out[1] \o Behind(out) \in Seq(Nat) /\ Len(out[1] \o Behind(out)) = Len(out[1]) + Len(Behind(out))
    BY <2>2, <2>3, ConcatBytes
  <2>6. Len(out[1] \o Behind(out)) >= 1
    <3>1. Len(out[1]) \in Nat /\ Len(Behind(out)) \in Nat
      BY <2>2, <2>3
    <3>2. Len(out[1]) + Len(Behind(out)) >= 1
      BY <2>4, <3>1
    <3> QED BY <2>5, <3>2
  <2> QED BY <2>1, <2>2, <2>3, <2>4, <2>5, <2>6 DEF Pending
<1> QED BY <1>1, <1>2, <1>3

\* A call that is done.
LEMMA PendingTail ==
  ASSUME NEW out, Calls(out), out # <<>>
  PROVE  Calls(Tail(out)) /\ Pending(Tail(out)) = Behind(out)
<1>1. out \in Seq(Seq(Nat)) /\ Len(out) \in {1, 2, 3}
  <2>1. out \in Seq(Seq(Nat)) /\ Len(out) \in {0, 1, 2, 3}
    BY DEF Calls
  <2>2. Len(out) # 0
    BY <2>1
  <2> QED BY <2>1, <2>2
<1> DEFINE t == Tail(out)
<1>2. t \in Seq(Seq(Nat)) /\ Len(t) = Len(out) - 1 /\ \A i \in 1 .. Len(out) - 1 : t[i] = out[i + 1]
  BY <1>1
<1> HIDE DEF t
<1>3. Calls(t)
  <2>1. ASSUME NEW i \in 1 .. Len(t) PROVE t[i] # <<>>
    <3>1. i \in 1 .. Len(out) - 1 /\ i + 1 \in 1 .. Len(out)
      BY <1>1, <1>2
    <3> QED BY <1>2, <3>1 DEF Calls
  <2>2. Len(t) \in {0, 1, 2}
    BY <1>1, <1>2
  <2> QED BY <1>2, <2>1, <2>2 DEF Calls
<1>4. CASE Len(out) = 1
  <2>1. t = <<>>
    BY <1>2, <1>4
  <2> QED BY <1>3, <1>4, <2>1 DEF Pending, Behind, t
<1>5. CASE Len(out) = 2
  <2>1. Len(t) = 1 /\ t[1] = out[2] /\ out[2] \in Seq(Nat)
    BY <1>1, <1>2, <1>5
  <2>2. t # <<>> /\ Behind(t) = <<>>
    <3>1. Len(t) = 1
      BY <2>1
    <3>2. t # <<>>
      BY <3>1
    <3> QED BY <3>1, <3>2 DEF Behind
  <2>3. Pending(t) = out[2]
    BY <2>1, <2>2 DEF Pending
  <2>4. Behind(out) = out[2]
    BY <1>5 DEF Behind
  <2> QED BY <1>3, <2>3, <2>4 DEF t
<1>6. CASE Len(out) = 3
  <2>1. Len(t) = 2 /\ t[1] = out[2] /\ t[2] = out[3]
    BY <1>1, <1>2, <1>6
  <2>2. t # <<>> /\ Behind(t) = out[3]
    <3>1. t # <<>>
      BY <2>1
    <3> QED BY <2>1, <3>1 DEF Behind
  <2>3. Pending(t) = out[2] \o out[3]
    BY <2>1, <2>2 DEF Pending
  <2>4. Behind(out) = out[2] \o out[3]
    BY <1>6 DEF Behind
  <2> QED BY <1>3, <2>3, <2>4 DEF t
<1> QED BY <1>1, <1>4, <1>5, <1>6

\* A call that has written some of its bytes.
LEMMA PendingPart ==
  ASSUME NEW out, Calls(out), out # <<>>, NEW n \in 1 .. Len(out[1]) - 1
  PROVE  LET part == [out EXCEPT ![1] = From(@, n)]
         IN  Calls(part) /\ Pending(part) = From(out[1], n) \o Behind(out)
<1> DEFINE part == [out EXCEPT ![1] = From(@, n)]
           s == From(out[1], n)
<1>1. out \in Seq(Seq(Nat)) /\ Len(out) \in {1, 2, 3}
  <2>1. out \in Seq(Seq(Nat)) /\ Len(out) \in {0, 1, 2, 3}
    BY DEF Calls
  <2>2. Len(out) # 0
    BY <2>1
  <2> QED BY <2>1, <2>2
<1>2. out[1] \in Seq(Nat)
  BY PendingType
<1>3. s \in Seq(Nat) /\ Len(s) = Len(out[1]) - n
  <2>1. n \in 0 .. Len(out[1])
    BY <1>2
  <2> QED BY <1>2, <2>1, FromProperties
<1>4. s # <<>>
  <2>1. Len(out[1]) - n >= 1
    BY <1>2
  <2> QED BY <1>3, <2>1
<1> HIDE DEF s
<1>5. part = [out EXCEPT ![1] = s]
  BY DEF s
<1> HIDE DEF part
<1>6. /\ part \in Seq(Seq(Nat)) /\ Len(part) = Len(out)
      /\ part[1] = s /\ \A i \in 2 .. Len(out) : part[i] = out[i]
  BY <1>1, <1>3, <1>5, SMTT(30)
<1>7. Calls(part)
  <2>1. ASSUME NEW i \in 1 .. Len(part) PROVE part[i] # <<>>
    <3>1. i = 1 \/ (i \in 2 .. Len(out) /\ i \in 1 .. Len(out))
      BY <1>1, <1>6
    <3> QED BY <1>4, <1>6, <3>1 DEF Calls
  <2>2. Len(part) \in {1, 2, 3}
    BY <1>1, <1>6
  <2> QED BY <1>6, <2>1, <2>2 DEF Calls
<1>8. Behind(part) = Behind(out)
  <2>1. CASE Len(out) = 3
    BY <1>6, <2>1 DEF Behind
  <2>2. CASE Len(out) = 2
    BY <1>6, <2>2 DEF Behind
  <2>3. CASE Len(out) = 1
    BY <1>6, <2>3 DEF Behind
  <2> QED BY <1>1, <2>1, <2>2, <2>3
<1>9. part # <<>>
  BY <1>1, <1>6
<1>10. Pending(part) = s \o Behind(out)
  BY <1>6, <1>8, <1>9 DEF Pending
<1> QED BY <1>7, <1>10 DEF part, s

\* The calls of a new message.
LEMMA PendingWrites ==
  ASSUME NEW m \in Seq(Nat), Len(m) >= 1
  PROVE  Calls(Writes(m)) /\ Writes(m) # <<>> /\ Pending(Writes(m)) = Frame(m)
<1> DEFINE h == <<Len(m)>>
           p == <<Player>>
           w == <<h, p, m>>
<1>1. h \in Seq(Nat) /\ p \in Seq(Nat) /\ h # <<>> /\ p # <<>> /\ m # <<>>
  BY DEF Player
<1>2. h \o p = <<Len(m), Player>>
  <2> DEFINE s == <<Len(m), Player>>
  <2>1. Len(h) = 1 /\ Len(p) = 1 /\ h[1] = Len(m) /\ p[1] = Player
    OBVIOUS
  <2>2. s \in Seq(Nat) /\ Len(s) = 2 /\ s[1] = Len(m) /\ s[2] = Player
    BY DEF Player
  <2> HIDE DEF h, p, s
  <2>3. /\ h \o p \in Seq(Nat) /\ Len(h \o p) = Len(h) + Len(p)
        /\ \A i \in 1 .. Len(h) : (h \o p)[i] = h[i]
        /\ \A i \in 1 .. Len(p) : (h \o p)[Len(h) + i] = p[i]
    <3>1. h \in Seq(Nat) /\ p \in Seq(Nat)
      BY <1>1
    <3> QED BY <3>1, ConcatBytes
  <2>4. Len(h \o p) = 2 /\ (h \o p)[1] = Len(m) /\ (h \o p)[2] = Player
    BY <2>1, <2>3
  <2>5. \A i \in 1 .. 2 : i = 1 \/ i = 2
    OBVIOUS
  <2>6. h \o p = s
    BY <2>2, <2>3, <2>4, <2>5, SeqEqual, ZenonT(60)
  <2> QED BY <2>6 DEF s
<1> HIDE DEF h, p
<1>3. w \in Seq(Seq(Nat)) /\ Len(w) = 3 /\ w[1] = h /\ w[2] = p /\ w[3] = m /\ w # <<>>
  BY <1>1
<1>4. Writes(m) = w
  BY DEF Writes, h, p
<1> HIDE DEF w
<1>5. \A i \in 1 .. 3 : i = 1 \/ i = 2 \/ i = 3
  OBVIOUS
<1>6. Calls(w)
  BY <1>1, <1>3, <1>5 DEF Calls
<1>7. Pending(w) = h \o (p \o m)
  <2>1. Behind(w) = p \o m
    BY <1>3 DEF Behind
  <2> QED BY <1>3, <2>1, Zenon DEF Pending
<1>8. h \o (p \o m) = (h \o p) \o m
  <2>1. h \in Seq(Nat) /\ p \in Seq(Nat)
    BY <1>1
  <2> QED BY <2>1, ConcatThree, Zenon
<1> QED BY <1>2, <1>3, <1>4, <1>6, <1>7, <1>8 DEF Frame

-----------------------------------------------------------------------------
(***************************************************************************)
(* The inductive invariant.                                                *)
(***************************************************************************)

Flags == reset \in BOOLEAN /\ disconnected \in BOOLEAN /\ known \in BOOLEAN /\ buffering \in BOOLEAN

\* The console's end is open, or not yet.
Opened == {"io", "process", "send", "close_client"}
NotClosed == cpc \in Opened \cup {"connection_init"}

\* Where the console is, and which descriptors there are.
Stages ==
  /\ cpc \in {"connection_init", "io", "process", "send", "close_client", "close_server",
              "server_term", "left", "killed"}
  /\ spc \in {"none", "poll", "scan", "exit", "killed"}
  /\ cpc = "connection_init" => fds = {} /\ spc = "none" /\ server_out = <<>>
  /\ cpc \in Opened => fds = {"client_ep", "server_ep"}
  /\ ~NotClosed => "client_ep" \notin fds
  /\ fds \in SUBSET {"client_ep", "server_ep"}

\* The buffers and sockets stay within their sizes.
Buffers ==
  /\ client_buf \in Seq(Nat) /\ Len(client_buf) <= ClientMax
  /\ up \in Seq(Nat) /\ Len(up) <= UpCap
  /\ down \in Seq(Nat) /\ Len(down) <= DownCap
  /\ server_buf \in Seq(Nat) /\ Len(server_buf) <= ServerMax
  /\ msg_start \in 0 .. Len(server_buf)
  /\ Calls(server_out)
  /\ sent \in Seq(Commands)
  /\ received \in Seq(Seq(Nat))

\* The bytes on their way to the server and those on their way back.
Upward == From(server_buf, msg_start) \o up
Downward == client_buf \o (down \o Pending(server_out))

\* The messages M, of which the server has taken up k, with their frames F.
Wire(M, b, F, a, k) ==
  /\ Pieces(M, b) /\ \A i \in 1 .. Len(M) : Message(M[i])
  /\ Pieces(F, a) /\ Len(F) = Len(M) /\ \A i \in 1 .. Len(M) : F[i] = Frame(M[i])
  /\ k \in 0 .. Len(M) /\ Len(received) <= k /\ Len(M) <= Len(sent)
  /\ Streamed(Upward, M, b, k)
  /\ NotClosed => /\ Laid(Downward, F, a, Len(received), k)
                  /\ Len(Downward) = a[k] - a[Len(received)]
  /\ server_out # <<>> => Len(received) < k
  /\ ~buffering => /\ Len(M) = Len(sent)
                   /\ \A i \in 1 .. Len(M) : M[i] = Append(sent[i], NUL)
                   /\ Len(Upward) = b[Len(M)] - b[k]

\* All of it.
RelayInv ==
  /\ Flags /\ Stages /\ Buffers /\ KilledInFlight
  /\ \E M, b, F, a, k : Wire(M, b, F, a, k)

\* Flags are flags.
LEMMA FlagsStep ==
  ASSUME Flags, [Next]_vars
  PROVE  Flags'
<1>1. CASE Client
  BY <1>1 DEF Flags, Client, ConnectionInit, ConnectionFails, ConnectionIo, FirstMessage,
     ConnectionProcessing, ConnectionProcessed, ConnectionOk, CloseClient, CloseServer,
     ServerTerm, serverVars, sockVars
<1>2. CASE Server
  BY <1>2 DEF Flags, Server, ServerRead, ServerStop, ServerMessage, ServerWrite,
     ServerWriteFails, ServerKilled, ServerDone, clientVars, sockVars
<1>3. CASE Leave
  BY <1>3 DEF Flags, Leave, serverVars, sockVars
<1>4. ASSUME NEW cmd \in Commands, ConnectionSend(cmd) PROVE Flags'
  <2>1. buffering' \in BOOLEAN
    BY <1>4 DEF ConnectionSend
  <2> QED BY <1>4, <2>1 DEF Flags, ConnectionSend, serverVars, sockVars
<1>5. CASE UNCHANGED vars
  BY <1>5 DEF Flags, vars, clientVars, serverVars, sockVars
<1> QED BY <1>1, <1>2, <1>3, <1>4, <1>5 DEF Next, User

\* The calls of connection_term.
LEMMA TermCalls ==
  /\ StartTerm => cpc' = "close_client"
  /\ TermNext("close_client") => cpc = "close_client" /\ cpc' = "close_server"
  /\ TermNext("close_server") => cpc = "close_server" /\ cpc' = "server_term"
  /\ TermNext("server_term") => cpc = "server_term" /\ cpc' = "left"
<1>1. /\ Len(TermOrder) = 4 /\ TermOrder[1] = "close_client" /\ TermOrder[2] = "close_server"
      /\ TermOrder[3] = "server_term" /\ TermOrder[4] = "left"
  BY DEF TermOrder
<1>2. \A i \in 1 .. 3 : i = 1 \/ i = 2 \/ i = 3
  OBVIOUS
<1>3. Len(TermOrder) - 1 = 3 /\ 1 + 1 = 2 /\ 2 + 1 = 3 /\ 3 + 1 = 4
  BY <1>1
<1>4. StartTerm => cpc' = "close_client"
  BY <1>1 DEF StartTerm
<1>5. ASSUME NEW call, TermNext(call)
      PROVE  /\ cpc = call
             /\ \/ call = "close_client" /\ cpc' = "close_server"
                \/ call = "close_server" /\ cpc' = "server_term"
                \/ call = "server_term" /\ cpc' = "left"
  <2>1. PICK i \in 1 .. 3 : TermOrder[i] = call /\ cpc' = TermOrder[i + 1]
    BY <1>3, <1>5 DEF TermNext
  <2>2. cpc = call
    BY <1>5 DEF TermNext
  <2> QED BY <1>1, <1>2, <1>3, <2>1, <2>2
<1> QED BY <1>4, <1>5

\* Who may be where, and with which descriptors.
LEMMA StagesStep ==
  ASSUME Stages, [Next]_vars
  PROVE  Stages'
<1> USE DEF Stages, NotClosed, Opened
<1>1. CASE ConnectionInit
  BY <1>1 DEF ConnectionInit, network_socketpair, server_init
<1>2. CASE ConnectionFails \/ Leave
  BY <1>2, TermCalls DEF ConnectionFails, Leave, serverVars, sockVars
<1>3. CASE ConnectionIo \/ FirstMessage \/ ConnectionProcessing \/ ConnectionProcessed \/ ConnectionOk
  BY <1>3 DEF ConnectionIo, FirstMessage, ConnectionProcessing, ConnectionProcessed, ConnectionOk,
     serverVars, sockVars
<1>4. CASE CloseClient
  BY <1>4, TermCalls DEF CloseClient
<1>5. CASE CloseServer
  BY <1>5, TermCalls DEF CloseServer, serverVars
<1>6. CASE ServerTerm
  BY <1>6, TermCalls DEF ServerTerm, serverVars, sockVars
<1>7. CASE ServerRead \/ ServerStop \/ ServerMessage \/ ServerDone
  BY <1>7 DEF ServerRead, ServerStop, ServerMessage, ServerDone, clientVars, sockVars
<1>8. CASE ServerWrite \/ ServerWriteFails
  BY <1>8 DEF ServerWrite, ServerWriteFails, clientVars, sockVars
<1>9. CASE ServerKilled
  BY <1>9 DEF ServerKilled, HungUp, sockVars
<1>10. ASSUME NEW cmd \in Commands, ConnectionSend(cmd) PROVE Stages'
  BY <1>10 DEF ConnectionSend, serverVars, sockVars
<1>11. CASE UNCHANGED vars
  BY <1>11 DEF vars, clientVars, serverVars, sockVars
<1> QED BY <1>1, <1>2, <1>3, <1>4, <1>5, <1>6, <1>7, <1>8, <1>9, <1>10, <1>11
           DEF Next, User, Client, Server

\* The bytes after the first n, with others behind them.
LEMMA FromConcat ==
  ASSUME NEW s \in Seq(Nat), NEW t \in Seq(Nat), NEW n \in 0 .. Len(s)
  PROVE  From(s \o t, n) = From(s, n) \o t
<1> DEFINE x == From(s \o t, n)
           y == From(s, n) \o t
           f == From(s, n)
           st == s \o t
<1>1. PICK l \in Nat, m \in Nat : l = Len(s) /\ m = Len(t)
  OBVIOUS
<1>2. n \in 0 .. l /\ n \in 0 .. l + m
  BY <1>1
<1>3. /\ st \in Seq(Nat) /\ Len(st) = l + m
      /\ \A i \in 1 .. l : st[i] = s[i]
      /\ \A i \in 1 .. m : st[l + i] = t[i]
  <2>1. /\ st \in Seq(Nat) /\ Len(st) = Len(s) + Len(t)
        /\ \A i \in 1 .. Len(s) : st[i] = s[i]
        /\ \A i \in 1 .. Len(t) : st[Len(s) + i] = t[i]
    BY ConcatBytes
  <2> HIDE DEF st
  <2> QED BY <1>1, <2>1
<1> HIDE DEF st
<1>4. /\ x \in Seq(Nat) /\ Len(x) = (l + m) - n
      /\ \A i \in 1 .. (l + m) - n : x[i] = st[n + i]
  <2>1. x = From(st, n)
    BY DEF st
  <2>2. n \in 0 .. Len(st) /\ st \in Seq(Nat)
    BY <1>2, <1>3
  <2> HIDE DEF x
  <2>3. x \in Seq(Nat) /\ Len(x) = Len(st) - n /\ \A i \in 1 .. Len(st) - n : x[i] = st[n + i]
    BY <2>1, <2>2, FromProperties
  <2> QED BY <1>3, <2>3
<1>5. f \in Seq(Nat) /\ Len(f) = l - n /\ \A i \in 1 .. l - n : f[i] = s[n + i]
  <2>1. f \in Seq(Nat) /\ Len(f) = Len(s) - n /\ \A i \in 1 .. Len(s) - n : f[i] = s[n + i]
    BY FromProperties
  <2> HIDE DEF f
  <2> QED BY <1>1, <2>1
<1>6. /\ y \in Seq(Nat) /\ Len(y) = (l - n) + m
      /\ \A i \in 1 .. l - n : y[i] = f[i]
      /\ \A i \in 1 .. m : y[(l - n) + i] = t[i]
  <2>1. f \in Seq(Nat)
    BY <1>5
  <2> HIDE DEF f
  <2>2. y = f \o t
    BY DEF f
  <2> HIDE DEF y
  <2>3. /\ y \in Seq(Nat) /\ Len(y) = Len(f) + Len(t)
        /\ \A i \in 1 .. Len(f) : y[i] = f[i]
        /\ \A i \in 1 .. Len(t) : y[Len(f) + i] = t[i]
    BY <2>1, <2>2, ConcatBytes
  <2> QED BY <1>1, <1>5, <2>3
<1> HIDE DEF x, y, f
<1>7. PICK w \in Nat : w = (l + m) - n /\ w = (l - n) + m
  BY <1>2
<1>8. ASSUME NEW i \in 1 .. w PROVE x[i] = y[i]
  <2>1. x[i] = st[n + i]
    BY <1>4, <1>7
  <2>2. CASE i <= l - n
    <3>1. i \in 1 .. l - n /\ n + i \in 1 .. l
      BY <1>2, <2>2
    <3> QED BY <1>3, <1>5, <1>6, <2>1, <3>1
  <2>3. CASE ~(i <= l - n)
    <3>1. i - (l - n) \in 1 .. m /\ (l - n) + (i - (l - n)) = i /\ l + (i - (l - n)) = n + i
      BY <1>2, <1>7, <2>3
    <3>2. st[l + (i - (l - n))] = t[i - (l - n)] /\ y[(l - n) + (i - (l - n))] = t[i - (l - n)]
      BY <1>3, <1>6, <3>1
    <3> QED BY <2>1, <3>1, <3>2
  <2> QED BY <2>2, <2>3
<1>9. x = y
  BY <1>4, <1>6, <1>7, <1>8, SeqEqual
<1> QED BY <1>9 DEF x, y

\* A sequence is its first bytes and those after them.
LEMMA SplitAt ==
  ASSUME NEW s \in Seq(Nat), NEW n \in 0 .. Len(s)
  PROVE  /\ SubSeq(s, 1, n) \in Seq(Nat) /\ Len(SubSeq(s, 1, n)) = n
         /\ From(s, n) \in Seq(Nat) /\ Len(From(s, n)) = Len(s) - n
         /\ SubSeq(s, 1, n) \o From(s, n) = s
<1> DEFINE h == SubSeq(s, 1, n)
           f == From(s, n)
           c == h \o f
<1>1. h \in Seq(Nat) /\ Len(h) = n /\ \A i \in 1 .. n : h[i] = s[i]
  OBVIOUS
<1>2. f \in Seq(Nat) /\ Len(f) = Len(s) - n /\ \A i \in 1 .. Len(s) - n : f[i] = s[n + i]
  BY FromProperties
<1> HIDE DEF h, f
<1>3. /\ c \in Seq(Nat) /\ Len(c) = Len(h) + Len(f)
      /\ \A i \in 1 .. Len(h) : c[i] = h[i]
      /\ \A i \in 1 .. Len(f) : c[Len(h) + i] = f[i]
  <2>1. h \in Seq(Nat) /\ f \in Seq(Nat)
    BY <1>1, <1>2
  <2> QED BY <2>1, ConcatBytes
<1> HIDE DEF c
<1>4. PICK l \in Nat : l = Len(s)
  OBVIOUS
<1>5. n \in 0 .. l
  BY <1>4
<1>6. Len(c) = l
  <2>1. n + (l - n) = l
    BY <1>5
  <2> QED BY <1>1, <1>2, <1>3, <1>4, <2>1
<1>7. ASSUME NEW i \in 1 .. l PROVE c[i] = s[i]
  <2>1. CASE i <= n
    <3>1. i \in 1 .. n
      BY <2>1
    <3> QED BY <1>1, <1>3, <3>1
  <2>2. CASE ~(i <= n)
    <3>1. i - n \in 1 .. l - n /\ n + (i - n) = i
      BY <1>5, <2>2
    <3>2. i - n \in 1 .. Len(f) /\ i - n \in 1 .. Len(s) - n
      BY <1>2, <1>4, <3>1
    <3>3. c[n + (i - n)] = f[i - n]
      BY <1>1, <1>3, <3>2
    <3>4. f[i - n] = s[n + (i - n)]
      BY <1>2, <3>2
    <3> QED BY <3>1, <3>3, <3>4
  <2> QED BY <2>1, <2>2
<1>8. c = s
  BY <1>3, <1>4, <1>6, <1>7, SeqEqual
<1> QED BY <1>1, <1>2, <1>8 DEF h, f, c

\* The bytes on their way are bytes.
LEMMA WayType ==
  ASSUME Buffers
  PROVE  /\ From(server_buf, msg_start) \in Seq(Nat)
         /\ Upward \in Seq(Nat)
         /\ Pending(server_out) \in Seq(Nat)
         /\ down \o Pending(server_out) \in Seq(Nat)
         /\ Downward \in Seq(Nat)
<1>1. From(server_buf, msg_start) \in Seq(Nat)
  BY FromProperties DEF Buffers
<1>2. Upward \in Seq(Nat)
  BY <1>1, ConcatBytes DEF Buffers, Upward
<1>3. Pending(server_out) \in Seq(Nat)
  BY PendingType DEF Buffers
<1>4. down \o Pending(server_out) \in Seq(Nat)
  BY <1>3, ConcatBytes DEF Buffers
<1>5. Downward \in Seq(Nat)
  BY <1>4, ConcatBytes DEF Buffers, Downward
<1> QED BY <1>1, <1>2, <1>3, <1>4, <1>5

\* A step that neither adds nor takes a message.
LEMMA WireKept ==
  ASSUME NEW M, NEW b, NEW F, NEW a, NEW k, Wire(M, b, F, a, k),
         Upward' = Upward, UNCHANGED <<received, sent, buffering>>,
         NotClosed' => NotClosed /\ Downward' = Downward,
         server_out' # <<>> => server_out # <<>>
  PROVE  Wire(M, b, F, a, k)'
BY DEF Wire

\* What is on its way back does not change where its first part is cut.
LEMMA MoveBytes ==
  ASSUME NEW s \in Seq(Nat), NEW t \in Seq(Nat), NEW u \in Seq(Nat), NEW n \in 0 .. Len(t)
  PROVE  (s \o SubSeq(t, 1, n)) \o (From(t, n) \o u) = s \o (t \o u)
<1> DEFINE h == SubSeq(t, 1, n)
           f == From(t, n)
<1>1. h \in Seq(Nat) /\ f \in Seq(Nat) /\ h \o f = t
  BY SplitAt
<1> HIDE DEF h, f
<1>2. f \o u \in Seq(Nat)
  BY <1>1, ConcatBytes
<1>3. (s \o h) \o (f \o u) = s \o (h \o (f \o u))
  <2>1. h \in Seq(Nat)
    BY <1>1
  <2> QED BY <1>2, <2>1, ConcatThree, ZenonT(60)
<1>4. (h \o f) \o u = h \o (f \o u)
  <2>1. h \in Seq(Nat) /\ f \in Seq(Nat)
    BY <1>1
  <2> QED BY <2>1, ConcatThree, ZenonT(60)
<1> QED BY <1>1, <1>3, <1>4 DEF h, f

\* connection_io moves bytes into the console's buffer.
LEMMA ConnectionIoStep ==
  ASSUME Buffers, NEW M, NEW b, NEW F, NEW a, NEW k, Wire(M, b, F, a, k), ConnectionIo
  PROVE  Buffers' /\ Wire(M, b, F, a, k)'
<1>1. PICK n : n = Least(Len(down), ClientRoom)
  OBVIOUS
<1>2. PICK c \in Nat, d \in Nat : c = Len(client_buf) /\ d = Len(down) /\ c <= ClientMax /\ d <= DownCap
  BY DEF Buffers
<1>3. n \in Nat /\ n <= d /\ n <= ClientMax - c
  <2>1. n = Least(d, ClientMax - c)
    BY <1>1, <1>2 DEF ClientRoom
  <2> QED BY <1>2, <2>1, RelayAssumption DEF Least
<1>4. /\ client_buf' = client_buf \o SubSeq(down, 1, n)
      /\ down' = From(down, n)
      /\ UNCHANGED <<buffering, sent, received, up, server_buf, msg_start, server_out>>
  BY <1>1 DEF ConnectionIo, serverVars
<1>5. n \in 0 .. Len(down)
  BY <1>2, <1>3
<1>6. client_buf \in Seq(Nat) /\ down \in Seq(Nat)
  BY DEF Buffers
<1>7. /\ SubSeq(down, 1, n) \in Seq(Nat) /\ Len(SubSeq(down, 1, n)) = n
      /\ down' \in Seq(Nat) /\ Len(down') = Len(down) - n
  BY <1>4, <1>5, <1>6, SplitAt
<1>8. client_buf' \in Seq(Nat) /\ Len(client_buf') = Len(client_buf) + n
  BY <1>4, <1>6, <1>7, ConcatBytes
<1>9. Len(client_buf') <= ClientMax /\ Len(down') <= DownCap
  <2>1. c + n <= ClientMax /\ d - n <= DownCap
    BY <1>2, <1>3, RelayAssumption
  <2> QED BY <1>2, <1>7, <1>8, <2>1
<1>10. Buffers'
  BY <1>4, <1>7, <1>8, <1>9 DEF Buffers
<1>11. Downward' = Downward
  <2>1. Pending(server_out) \in Seq(Nat)
    BY WayType
  <2> QED BY <1>4, <1>5, <1>6, <2>1, MoveBytes DEF Downward
<1>12. Upward' = Upward
  BY <1>4 DEF Upward
<1>13. NotClosed
  BY DEF ConnectionIo, NotClosed, Opened
<1> QED BY <1>4, <1>10, <1>11, <1>12, <1>13, WireKept

\* The server reads.
LEMMA ServerReadStep ==
  ASSUME Buffers, NEW M, NEW b, NEW F, NEW a, NEW k, Wire(M, b, F, a, k), ServerRead
  PROVE  Buffers' /\ Wire(M, b, F, a, k)'
<1>1. PICK n : n = ServerBytes
  OBVIOUS
<1>2. PICK c \in Nat, d \in Nat : c = Len(server_buf) /\ d = Len(up) /\ c <= ServerMax /\ d <= UpCap
  BY DEF Buffers
<1>3. n \in Nat /\ n <= d /\ n <= ServerMax - c
  <2>1. n = Least(d, ServerMax - c)
    BY <1>1, <1>2 DEF ServerBytes
  <2> QED BY <1>2, <2>1, RelayAssumption DEF Least
<1>4. /\ server_buf' = server_buf \o SubSeq(up, 1, n)
      /\ up' = From(up, n)
      /\ UNCHANGED <<cpc, buffering, sent, received, client_buf, down, msg_start, server_out>>
  BY <1>1 DEF ServerRead, clientVars
<1>5. n \in 0 .. Len(up)
  BY <1>2, <1>3
<1>6. server_buf \in Seq(Nat) /\ up \in Seq(Nat) /\ msg_start \in 0 .. Len(server_buf)
  BY DEF Buffers
<1>7. /\ SubSeq(up, 1, n) \in Seq(Nat) /\ Len(SubSeq(up, 1, n)) = n
      /\ up' \in Seq(Nat) /\ Len(up') = Len(up) - n
      /\ SubSeq(up, 1, n) \o up' = up
  BY <1>4, <1>5, <1>6, SplitAt
<1>8. server_buf' \in Seq(Nat) /\ Len(server_buf') = Len(server_buf) + n
  BY <1>4, <1>6, <1>7, ConcatBytes
<1>9. Len(server_buf') <= ServerMax /\ Len(up') <= UpCap /\ msg_start \in 0 .. Len(server_buf')
  <2>1. c + n <= ServerMax /\ d - n <= UpCap
    BY <1>2, <1>3, RelayAssumption
  <2>2. msg_start \in 0 .. c + n
    BY <1>2, <1>3, <1>6
  <2> QED BY <1>2, <1>7, <1>8, <2>1, <2>2
<1>10. Buffers'
  BY <1>4, <1>7, <1>8, <1>9 DEF Buffers
<1>11. From(server_buf \o SubSeq(up, 1, n), msg_start) = From(server_buf, msg_start) \o SubSeq(up, 1, n)
  BY <1>6, <1>7, FromConcat
<1>12. Upward' = Upward
  <2>1. From(server_buf, msg_start) \in Seq(Nat)
    BY WayType
  <2>2. (From(server_buf, msg_start) \o SubSeq(up, 1, n)) \o up' = From(server_buf, msg_start) \o up
    <3>1. SubSeq(up, 1, n) \in Seq(Nat) /\ up' \in Seq(Nat)
      BY <1>7
    <3>2. (From(server_buf, msg_start) \o SubSeq(up, 1, n)) \o up'
            = From(server_buf, msg_start) \o (SubSeq(up, 1, n) \o up')
      BY <2>1, <3>1, ConcatThree, Zenon
    <3> QED BY <1>7, <3>2
  <2>3. From(server_buf', msg_start') = From(server_buf, msg_start) \o SubSeq(up, 1, n)
    BY <1>4, <1>11
  <2> QED BY <2>2, <2>3 DEF Upward
<1>13. Downward' = Downward /\ (NotClosed' => NotClosed)
  BY <1>4 DEF Downward, NotClosed
<1> QED BY <1>4, <1>10, <1>12, <1>13, WireKept

\* The bytes after the first n of those after the first m.
LEMMA FromFrom ==
  ASSUME NEW s \in Seq(Nat), NEW m \in 0 .. Len(s), NEW n \in 0 .. Len(s) - m
  PROVE  From(From(s, m), n) = From(s, m + n)
<1> DEFINE f == From(s, m)
           x == From(f, n)
           y == From(s, m + n)
<1>1. PICK l \in Nat : l = Len(s)
  OBVIOUS
<1>2. m \in 0 .. l /\ n \in 0 .. l - m /\ m + n \in 0 .. l
  BY <1>1
<1>3. f \in Seq(Nat) /\ Len(f) = l - m /\ \A i \in 1 .. l - m : f[i] = s[m + i]
  <2>1. f \in Seq(Nat) /\ Len(f) = Len(s) - m /\ \A i \in 1 .. Len(s) - m : f[i] = s[m + i]
    BY FromProperties
  <2> HIDE DEF f
  <2> QED BY <1>1, <2>1
<1> HIDE DEF f
<1>4. x \in Seq(Nat) /\ Len(x) = (l - m) - n /\ \A i \in 1 .. (l - m) - n : x[i] = f[n + i]
  <2>1. f \in Seq(Nat) /\ n \in 0 .. Len(f)
    BY <1>2, <1>3
  <2>2. x \in Seq(Nat) /\ Len(x) = Len(f) - n /\ \A i \in 1 .. Len(f) - n : x[i] = f[n + i]
    BY <2>1, FromProperties
  <2> HIDE DEF x
  <2> QED BY <1>3, <2>2
<1>5. y \in Seq(Nat) /\ Len(y) = l - (m + n) /\ \A i \in 1 .. l - (m + n) : y[i] = s[(m + n) + i]
  <2>1. m + n \in 0 .. Len(s)
    BY <1>1, <1>2
  <2>2. y \in Seq(Nat) /\ Len(y) = Len(s) - (m + n)
        /\ \A i \in 1 .. Len(s) - (m + n) : y[i] = s[(m + n) + i]
    BY <2>1, FromProperties
  <2> HIDE DEF y
  <2> QED BY <1>1, <2>2
<1> HIDE DEF x, y
<1>6. PICK w \in Nat : w = (l - m) - n /\ w = l - (m + n)
  BY <1>2
<1>7. ASSUME NEW i \in 1 .. w PROVE x[i] = y[i]
  <2>1. i \in 1 .. (l - m) - n /\ n + i \in 1 .. l - m /\ i \in 1 .. l - (m + n) /\ m + (n + i) = (m + n) + i
    BY <1>2, <1>6
  <2> QED BY <1>3, <1>4, <1>5, <2>1
<1>8. x = y
  BY <1>4, <1>5, <1>6, <1>7, SeqEqual
<1> QED BY <1>8 DEF x, y, f

\* server_routine keeps the unfinished message.
LEMMA ServerDoneStep ==
  ASSUME Buffers, NEW M, NEW b, NEW F, NEW a, NEW k, Wire(M, b, F, a, k), ServerDone
  PROVE  Buffers' /\ Wire(M, b, F, a, k)'
<1>1. /\ server_buf' = From(server_buf, msg_start) /\ msg_start' = 0
      /\ UNCHANGED <<cpc, buffering, sent, received, client_buf, up, down, server_out>>
  BY DEF ServerDone, Unfinished, clientVars
<1>2. server_buf \in Seq(Nat) /\ Len(server_buf) <= ServerMax /\ msg_start \in 0 .. Len(server_buf)
  BY DEF Buffers
<1>3. server_buf' \in Seq(Nat) /\ Len(server_buf') = Len(server_buf) - msg_start
  BY <1>1, <1>2, FromProperties
<1>4. Len(server_buf') <= ServerMax /\ 0 \in 0 .. Len(server_buf')
  <2>1. PICK l \in Nat : l = Len(server_buf) /\ l <= ServerMax /\ msg_start \in 0 .. l
    BY <1>2
  <2>2. l - msg_start <= ServerMax /\ l - msg_start \in Nat
    BY <2>1, RelayAssumption
  <2> QED BY <1>3, <2>1, <2>2
<1>5. Buffers'
  BY <1>1, <1>3, <1>4 DEF Buffers
<1>6. From(server_buf', 0) = server_buf'
  BY <1>3 DEF From
<1>7. Upward' = Upward
  BY <1>1, <1>6 DEF Upward
<1>8. Downward' = Downward /\ (NotClosed' => NotClosed)
  BY <1>1 DEF Downward, NotClosed
<1> QED BY <1>1, <1>5, <1>7, <1>8, WireKept

\* The server writes.
LEMMA ServerWriteStep ==
  ASSUME Buffers, NEW M, NEW b, NEW F, NEW a, NEW k, Wire(M, b, F, a, k), ServerWrite
  PROVE  Buffers' /\ Wire(M, b, F, a, k)'
<1>1. server_out # <<>>
  BY DEF ServerWrite
<1>2. /\ Calls(server_out) /\ server_out[1] \in Seq(Nat) /\ Behind(server_out) \in Seq(Nat)
      /\ down \in Seq(Nat) /\ client_buf \in Seq(Nat)
  BY <1>1, PendingType DEF Buffers
<1>3. PICK c \in Nat, d \in Nat : c = Len(server_out[1]) /\ d = Len(down) /\ d <= DownCap
  BY <1>2 DEF Buffers
<1>4. PICK n \in 1 .. Least(Len(server_out[1]), DownCap - Len(down)) :
        down' = down \o SubSeq(server_out[1], 1, n) /\ server_out' = AfterWrite(n)
  BY DEF ServerWrite
<1>5. n \in Nat /\ n >= 1 /\ n <= c /\ n <= DownCap - d
  <2>1. n \in 1 .. Least(c, DownCap - d)
    BY <1>3
  <2> QED BY <1>3, <2>1, RelayAssumption DEF Least
<1>6. UNCHANGED <<cpc, buffering, sent, received, client_buf, up, server_buf, msg_start>>
  BY DEF ServerWrite, clientVars
<1>7. n \in 0 .. Len(server_out[1])
  BY <1>3, <1>5
<1>8. /\ SubSeq(server_out[1], 1, n) \in Seq(Nat) /\ Len(SubSeq(server_out[1], 1, n)) = n
      /\ From(server_out[1], n) \in Seq(Nat)
      /\ Len(From(server_out[1], n)) = Len(server_out[1]) - n
  BY <1>2, <1>7, SplitAt
<1>9. Calls(server_out') /\ Pending(server_out') = From(server_out[1], n) \o Behind(server_out)
  <2>1. CASE n = Len(server_out[1])
    <3>1. server_out' = Tail(server_out)
      BY <1>4, <2>1 DEF AfterWrite
    <3>2. Calls(server_out') /\ Pending(server_out') = Behind(server_out)
      BY <1>1, <1>2, <3>1, PendingTail
    <3>3. From(server_out[1], n) = <<>>
      <4>1. Len(From(server_out[1], n)) = 0
        BY <1>3, <1>8, <2>1
      <4> QED BY <1>8, <4>1
    <3>4. <<>> \o Behind(server_out) = Behind(server_out)
      BY <1>2
    <3> QED BY <3>2, <3>3, <3>4
  <2>2. CASE n # Len(server_out[1])
    <3>1. n \in 1 .. Len(server_out[1]) - 1
      BY <1>3, <1>5, <2>2
    <3>2. server_out' = [server_out EXCEPT ![1] = From(@, n)]
      BY <1>4, <2>2 DEF AfterWrite
    <3> QED BY <1>1, <1>2, <3>1, <3>2, PendingPart
  <2> QED BY <2>1, <2>2
<1>10. down' \in Seq(Nat) /\ Len(down') = Len(down) + n
  BY <1>2, <1>4, <1>8, ConcatBytes
<1>11. Len(down') <= DownCap
  <2>1. d + n <= DownCap
    BY <1>3, <1>5, RelayAssumption
  <2> QED BY <1>3, <1>10, <2>1
<1>12. Buffers'
  BY <1>6, <1>9, <1>10, <1>11 DEF Buffers
<1>13. down' \o Pending(server_out') = down \o Pending(server_out)
  <2>1. (down \o SubSeq(server_out[1], 1, n)) \o (From(server_out[1], n) \o Behind(server_out))
          = down \o (server_out[1] \o Behind(server_out))
    BY <1>2, <1>7, MoveBytes
  <2>2. Pending(server_out) = server_out[1] \o Behind(server_out)
    BY <1>1 DEF Pending
  <2> QED BY <1>4, <1>9, <2>1, <2>2
<1>14. Downward' = Downward
  BY <1>6, <1>13 DEF Downward
<1>15. Upward' = Upward /\ (NotClosed' => NotClosed)
  BY <1>6 DEF Upward, NotClosed
<1> QED BY <1>1, <1>6, <1>12, <1>14, <1>15, WireKept

\* The steps that only drop what is on its way back.
LEMMA DropStep ==
  ASSUME Buffers, Stages, NEW M, NEW b, NEW F, NEW a, NEW k, Wire(M, b, F, a, k),
         CloseClient \/ ServerWriteFails \/ ServerKilled
  PROVE  Buffers' /\ Wire(M, b, F, a, k)'
<1>1. UNCHANGED <<buffering, sent, received, client_buf, up, server_buf, msg_start>>
  BY DEF CloseClient, ServerWriteFails, ServerKilled, clientVars
<1>2. ~NotClosed'
  <2>1. CASE CloseClient
    BY <2>1, TermCalls DEF CloseClient, NotClosed, Opened
  <2>2. CASE ServerWriteFails
    BY <2>2 DEF ServerWriteFails, Stages, NotClosed, Opened, clientVars
  <2>3. CASE ServerKilled
    BY <2>3 DEF ServerKilled, NotClosed, Opened
  <2> QED BY <2>1, <2>2, <2>3
<1>3. down' \in Seq(Nat) /\ Len(down') <= DownCap
  <2>1. CASE CloseClient
    <3>1. down' = <<>>
      BY <2>1 DEF CloseClient
    <3>2. 0 <= DownCap
      BY RelayAssumption
    <3> QED BY <3>1, <3>2
  <2>2. CASE ServerWriteFails \/ ServerKilled
    BY <2>2 DEF ServerWriteFails, ServerKilled, Buffers
  <2> QED BY <2>1, <2>2
<1>4. Calls(<<>>)
  BY DEF Calls
<1>5. Calls(server_out)
  BY DEF Buffers
<1>6. From(server_out, 1) = IF server_out = <<>> THEN <<>> ELSE Tail(server_out)
  <2>1. server_out \in Seq(Seq(Nat))
    BY <1>5 DEF Calls
  <2> QED BY <2>1 DEF From
<1>7. Calls(server_out') /\ (server_out' # <<>> => server_out # <<>>)
  <2>1. server_out' = <<>> \/ server_out' = server_out \/ (server_out # <<>> /\ server_out' = Tail(server_out))
    BY <1>6 DEF CloseClient, ServerWriteFails, ServerKilled
  <2> QED BY <1>4, <1>5, <2>1, PendingTail
<1>8. Buffers'
  BY <1>1, <1>3, <1>7 DEF Buffers
<1>9. Upward' = Upward
  BY <1>1 DEF Upward
<1> QED BY <1>1, <1>2, <1>7, <1>8, <1>9, WireKept

\* The steps that leave all bytes where they are.
LEMMA QuietStep ==
  ASSUME Buffers, NEW M, NEW b, NEW F, NEW a, NEW k, Wire(M, b, F, a, k),
         UNCHANGED <<buffering, sent, received, client_buf, up, down, server_buf, msg_start, server_out>>,
         NotClosed' => NotClosed
  PROVE  Buffers' /\ Wire(M, b, F, a, k)'
<1>1. Buffers'
  BY DEF Buffers
<1>2. Upward' = Upward /\ Downward' = Downward
  BY DEF Upward, Downward
<1> QED BY <1>1, <1>2, WireKept

\* server_process takes up a message.
LEMMA ServerMessageStep ==
  ASSUME Buffers, NEW M, NEW b, NEW F, NEW a, NEW k, Wire(M, b, F, a, k), ServerMessage
  PROVE  Buffers' /\ Wire(M, b, F, a, k + 1)'
<1>1. PICK end \in Ends : /\ \A e \in Ends : end <= e
                          /\ server_out' = Writes(SubSeq(server_buf, msg_start + 1, end))
                          /\ msg_start' = end
  BY DEF ServerMessage
<1>2. /\ server_out = <<>>
      /\ UNCHANGED <<cpc, buffering, sent, received, client_buf, up, down, server_buf>>
  BY DEF ServerMessage, clientVars
<1>3. PICK l \in Nat, s \in Nat : l = Len(server_buf) /\ s = msg_start /\ s \in 0 .. l
  <2>1. Len(server_buf) \in Nat /\ msg_start \in 0 .. Len(server_buf)
    BY DEF Buffers
  <2>2. msg_start \in Nat
    BY <2>1
  <2> QED BY <2>1, <2>2
<1>4. /\ end \in s + 1 .. l /\ server_buf[end] = NUL
      /\ \A i \in s + 1 .. l : server_buf[i] = NUL => end <= i
  BY <1>1, <1>3 DEF Ends
<1>5. PICK e : e = end - s
  OBVIOUS
<1>6. e \in 1 .. l - s /\ end = s + e
  BY <1>3, <1>4, <1>5
<1> DEFINE f == From(server_buf, s)
           U == f \o up
<1>7. server_buf \in Seq(Nat) /\ up \in Seq(Nat)
  BY DEF Buffers
<1>8. f \in Seq(Nat) /\ Len(f) = l - s /\ \A i \in 1 .. l - s : f[i] = server_buf[s + i]
  <2>1. s \in 0 .. Len(server_buf)
    BY <1>3
  <2>2. /\ f \in Seq(Nat) /\ Len(f) = Len(server_buf) - s
        /\ \A i \in 1 .. Len(server_buf) - s : f[i] = server_buf[s + i]
    BY <1>7, <2>1, FromProperties
  <2> HIDE DEF f
  <2> QED BY <1>3, <2>2
<1> HIDE DEF f
<1>9. /\ U \in Seq(Nat) /\ Len(U) = Len(f) + Len(up)
      /\ \A i \in 1 .. Len(f) : U[i] = f[i]
  <2>1. f \in Seq(Nat)
    BY <1>8
  <2> QED BY <1>7, <2>1, ConcatBytes
<1> HIDE DEF U
<1>10. U = Upward
  BY <1>3 DEF Upward, U, f
<1>11. e \in 1 .. Len(U) /\ e \in 0 .. Len(f)
  <2>1. PICK u \in Nat : u = Len(up)
    BY <1>7
  <2>2. e \in 1 .. (l - s) + u /\ e \in 0 .. l - s
    BY <1>3, <1>6, <2>1
  <2> QED BY <1>8, <1>9, <2>1, <2>2
<1>12. \A i \in 1 .. l - s : U[i] = server_buf[s + i]
  BY <1>8, <1>9
<1>13. U[e] = NUL
  BY <1>4, <1>6, <1>12
<1>14. ASSUME NEW x \in 1 .. e - 1 PROVE U[x] # NUL
  <2>1. x \in 1 .. l - s /\ s + x \in s + 1 .. l /\ ~(end <= s + x)
    BY <1>3, <1>6
  <2> QED BY <1>4, <1>12, <2>1
<1>15. /\ Pieces(M, b) /\ (\A i \in 1 .. Len(M) : Message(M[i]))
       /\ k \in 0 .. Len(M) /\ Streamed(U, M, b, k)
  BY <1>10 DEF Wire
<1>16. /\ k < Len(M) /\ SubSeq(U, 1, e) = M[k + 1] /\ e = Len(M[k + 1])
       /\ Streamed(From(U, e), M, b, k + 1)
  BY <1>9, <1>11, <1>13, <1>14, <1>15, StreamedTake
<1>17. Len(M) \in Nat /\ k + 1 \in 1 .. Len(M) /\ k + 1 \in 0 .. Len(M) /\ k \in 0 .. Len(M) - 1 /\ k \in Nat
  <2>1. Len(M) \in Nat
    BY <1>15 DEF Pieces
  <2> QED BY <1>15, <1>16, <2>1
<1>18. M[k + 1] \in Seq(Nat) /\ Len(M[k + 1]) >= 1
  BY <1>15, <1>17, PieceAt DEF Message
<1>19. SubSeq(server_buf, msg_start + 1, end) = M[k + 1]
  <2> DEFINE x == SubSeq(server_buf, s + 1, s + e)
             y == SubSeq(U, 1, e)
  <2>1. x \in Seq(Nat) /\ Len(x) = e /\ \A i \in 1 .. e : x[i] = server_buf[s + i]
    BY <1>3, <1>6, <1>7
  <2>2. y \in Seq(Nat) /\ Len(y) = e /\ \A i \in 1 .. e : y[i] = U[i]
    BY <1>6, <1>9, <1>11
  <2> HIDE DEF x, y
  <2>3. ASSUME NEW i \in 1 .. e PROVE x[i] = y[i]
    <3>1. i \in 1 .. l - s
      BY <1>3, <1>6
    <3> QED BY <1>12, <2>1, <2>2, <3>1
  <2>4. x = y
    BY <2>1, <2>2, <2>3, SeqEqual
  <2> QED BY <1>3, <1>6, <1>16, <2>4 DEF x, y
<1>20. /\ Calls(server_out') /\ server_out' # <<>>
       /\ Pending(server_out') = Frame(M[k + 1])
  BY <1>1, <1>18, <1>19, PendingWrites
<1>21. Buffers'
  <2>1. msg_start' \in 0 .. Len(server_buf')
    BY <1>1, <1>2, <1>3, <1>4
  <2> QED BY <1>2, <1>20, <2>1 DEF Buffers
<1>22. Upward' = From(U, e)
  <2>1. From(U, e) = From(f, e) \o up
    BY <1>7, <1>8, <1>11, FromConcat DEF U
  <2>2. From(f, e) = From(server_buf, s + e)
    <3>1. s \in 0 .. Len(server_buf) /\ e \in 0 .. Len(server_buf) - s
      BY <1>3, <1>6
    <3> QED BY <1>7, <3>1, FromFrom DEF f
  <2> QED BY <1>1, <1>2, <1>6, <2>1, <2>2 DEF Upward
<1>23. Downward' = Downward \o Frame(M[k + 1])
  <2>1. client_buf \in Seq(Nat) /\ down \in Seq(Nat) /\ Frame(M[k + 1]) \in Seq(Nat)
    BY <1>18, FrameBytes DEF Buffers
  <2>2. Downward = client_buf \o down
    <3>1. Pending(server_out) = <<>>
      BY <1>2 DEF Pending
    <3>2. down \o <<>> = down
      BY <2>1
    <3> QED BY <3>1, <3>2 DEF Downward
  <2>3. (client_buf \o down) \o Frame(M[k + 1]) = client_buf \o (down \o Frame(M[k + 1]))
    BY <2>1, ConcatThree, Zenon
  <2> QED BY <1>2, <1>20, <2>2, <2>3 DEF Downward
<1>24. Len(received) \in Nat /\ Len(received) <= k
  BY DEF Wire, Buffers
<1>25. NotClosed' => /\ Laid(Downward', F, a, Len(received), k + 1)
                     /\ Len(Downward') = a[k + 1] - a[Len(received)]
  <2> SUFFICES ASSUME NotClosed'
               PROVE  /\ Laid(Downward', F, a, Len(received), k + 1)
                      /\ Len(Downward') = a[k + 1] - a[Len(received)]
    OBVIOUS
  <2>1. NotClosed
    BY <1>2 DEF NotClosed
  <2>2. /\ Laid(Downward, F, a, Len(received), k)
        /\ Len(Downward) = a[k] - a[Len(received)]
        /\ Pieces(F, a) /\ Len(F) = Len(M) /\ F[k + 1] = Frame(M[k + 1])
    BY <1>17, <2>1 DEF Wire
  <2>3. Downward \in Seq(Nat)
    BY WayType
  <2>4. PICK r : r = Len(received)
    OBVIOUS
  <2>5. r \in 0 .. Len(F) /\ k \in 0 .. Len(F) - 1 /\ r <= k
    BY <1>17, <1>24, <2>2, <2>4
  <2>6. PICK d \in Seq(Nat) : d = Downward
    BY <2>3
  <2>7. Pieces(F, a) /\ Laid(d, F, a, r, k) /\ Len(d) = a[k] - a[r]
    BY <2>2, <2>4, <2>6
  <2>8. /\ Laid(d \o F[k + 1], F, a, r, k + 1)
        /\ Len(d \o F[k + 1]) = a[k + 1] - a[r]
    BY <2>5, <2>7, LaidAdd
  <2>9. Downward' = d \o F[k + 1]
    BY <1>23, <2>2, <2>6
  <2> QED BY <2>4, <2>8, <2>9
<1>26. Len(received) <= k + 1 /\ Len(received) < k + 1
  BY <1>17, <1>24
<1>27. ~buffering => Len(From(U, e)) = b[Len(M)] - b[k + 1]
  <2> SUFFICES ASSUME ~buffering PROVE Len(From(U, e)) = b[Len(M)] - b[k + 1]
    OBVIOUS
  <2>1. Len(U) = b[Len(M)] - b[k]
    BY <1>10 DEF Wire
  <2>2. PICK x \in Nat, y \in Nat : x = b[k] /\ y = b[Len(M)]
    <3>1. Len(M) \in 0 .. Len(M)
      BY <1>17
    <3>2. b \in [0 .. Len(M) -> Nat]
      BY <1>15 DEF Pieces
    <3>3. b[k] \in Nat /\ b[Len(M)] \in Nat
      BY <1>15, <3>1, <3>2
    <3> QED BY <3>3
  <2>3. b[k + 1] = x + e
    <3>1. b[k + 1] = b[(k + 1) - 1] + Len(M[k + 1])
      BY <1>15, <1>17, PieceAt
    <3>2. (k + 1) - 1 = k
      BY <1>17
    <3> QED BY <1>16, <2>2, <3>1, <3>2
  <2>4. Len(From(U, e)) = Len(U) - e
    <3>1. e \in 0 .. Len(U)
      BY <1>11
    <3> QED BY <1>9, <3>1, FromProperties
  <2>5. (y - x) - e = y - (x + e)
    BY <1>6, <2>2
  <2> QED BY <2>1, <2>2, <2>3, <2>4, <2>5
<1>28. Wire(M, b, F, a, k + 1)'
  BY <1>2, <1>16, <1>17, <1>20, <1>22, <1>25, <1>26, <1>27 DEF Wire
<1> QED BY <1>21, <1>28

\* A frame that is whole in the console's buffer is the next one, and what is
\* behind it are the frames after it.
LEMMA TakeFrame ==
  ASSUME NEW M \in Seq(Seq(Nat)), NEW F, NEW a, Pieces(F, a), Len(F) = Len(M),
         \A i \in 1 .. Len(M) : F[i] = Frame(M[i]),
         NEW r \in Nat, NEW k \in 0 .. Len(M), r <= k,
         NEW c \in Seq(Nat), NEW w \in Seq(Nat),
         Laid(c \o w, F, a, r, k), Len(c \o w) = a[k] - a[r],
         Len(c) >= 2, 2 + c[1] <= Len(c)
  PROVE  /\ r < k /\ Len(M[r + 1]) = c[1] /\ 2 + c[1] \in 0 .. Len(c)
         /\ \A i \in 1 .. c[1] : c[2 + i] = M[r + 1][i]
         /\ Laid(From(c, 2 + c[1]) \o w, F, a, r + 1, k)
         /\ Len(From(c, 2 + c[1]) \o w) = a[k] - a[r + 1]
         /\ Len(w) >= 1 => r + 1 < k
<1> DEFINE D == c \o w
<1>1. PICK l \in Nat, v \in Nat : l = Len(c) /\ v = Len(w)
  OBVIOUS
<1>2. l >= 2
  BY <1>1
<1>3. PICK h \in Nat : h = c[1]
  BY <1>1, <1>2
<1>4. 2 + h <= l
  BY <1>1, <1>3
<1>5. PICK n \in Nat : n = 2 + h /\ n = 2 + c[1] /\ n \in 0 .. l
  BY <1>3, <1>4
<1>6. /\ D \in Seq(Nat) /\ Len(D) = l + v
      /\ \A i \in 1 .. l : D[i] = c[i]
  <2>1. /\ D \in Seq(Nat) /\ Len(D) = Len(c) + Len(w)
        /\ \A i \in 1 .. Len(c) : D[i] = c[i]
    BY ConcatBytes
  <2> HIDE DEF D
  <2> QED BY <1>1, <2>1
<1>7. Laid(D, F, a, r, k) /\ Len(D) = a[k] - a[r]
  OBVIOUS
<1> HIDE DEF D
<1>8. Len(M) \in Nat /\ k \in Nat /\ r \in 0 .. Len(F) /\ k \in 0 .. Len(F)
  OBVIOUS
<1>9. PICK x \in Nat, y \in Nat : x = a[r] /\ y = a[k]
  BY <1>8 DEF Pieces
<1>10. l + v = y - x
  BY <1>6, <1>7, <1>9
<1>11. r < k
  <2> SUFFICES ASSUME r = k PROVE FALSE
    BY <1>8
  <2>1. x = y
    BY <1>9
  <2> QED BY <1>2, <1>10, <2>1
<1>12. r + 1 \in 1 .. Len(M) /\ r + 1 \in 1 .. Len(F) /\ (r + 1) - 1 = r
  BY <1>8, <1>11
<1>13. PICK m \in Seq(Nat) : m = M[r + 1]
  BY <1>12
<1>14. F[r + 1] = Frame(m)
  BY <1>12, <1>13
<1>15. PICK q \in Nat : q = Len(m)
  BY <1>13
<1>16. PICK f \in Seq(Nat) : f = F[r + 1] /\ Len(f) = 2 + q /\ f[1] = q /\ \A j \in 1 .. q : f[2 + j] = m[j]
  BY <1>14, <1>15, FrameBytes
<1>17. /\ \A j \in 1 .. Len(f) : D[j] = f[j]
       /\ Laid(From(D, Len(f)), F, a, r + 1, k)
  <2>1. D \in Seq(Nat)
    BY <1>6
  <2>2. /\ \A j \in 1 .. Len(F[r + 1]) : D[j] = F[r + 1][j]
        /\ Laid(From(D, Len(F[r + 1])), F, a, r + 1, k)
    <3>1. r \in 0 .. Len(F) /\ k \in 0 .. Len(F) /\ Laid(D, F, a, r, k)
      BY <1>7, <1>8
    <3> QED BY <1>11, <2>1, <3>1, LaidTake, SMTT(60)
  <2>3. F[r + 1] = f
    BY <1>16
  <2> QED BY <2>2, <2>3
<1>18. q = h
  <2>1. 1 \in 1 .. Len(f) /\ 1 \in 1 .. l
    BY <1>2, <1>16
  <2> QED BY <1>3, <1>6, <1>16, <1>17, <2>1
<1>19. Len(f) = n
  BY <1>5, <1>16, <1>18
<1>20. ASSUME NEW i \in 1 .. h PROVE c[2 + i] = m[i]
  <2>1. 2 + i \in 1 .. l /\ 2 + i \in 1 .. n /\ i \in 1 .. q
    BY <1>4, <1>5, <1>18
  <2> QED BY <1>6, <1>16, <1>17, <1>19, <2>1
<1>21. From(D, n) = From(c, n) \o w
  <2>1. n \in 0 .. Len(c)
    BY <1>1, <1>5
  <2> QED BY <2>1, FromConcat DEF D
<1>22. Len(From(D, n)) = (l + v) - n
  <2>1. n \in 0 .. Len(D)
    BY <1>5, <1>6
  <2>2. D \in Seq(Nat)
    BY <1>6
  <2>3. Len(From(D, n)) = Len(D) - n
    BY <2>1, <2>2, FromProperties
  <2> QED BY <1>6, <2>3
<1>23. a[r + 1] = x + n
  <2>1. a[r + 1] = a[(r + 1) - 1] + Len(F[r + 1])
    BY <1>12, PieceAt
  <2> QED BY <1>9, <1>12, <1>16, <1>19, <2>1
<1>24. Len(From(D, n)) = a[k] - a[r + 1]
  <2>1. (l + v) - n = y - (x + n)
    BY <1>10
  <2> QED BY <1>9, <1>22, <1>23, <2>1
<1>25. v >= 1 => r + 1 < k
  <2> SUFFICES ASSUME v >= 1, r + 1 = k PROVE FALSE
    BY <1>8, <1>11
  <2>1. y = x + n
    BY <1>9, <1>23
  <2>2. l + v = n
    BY <1>10, <2>1
  <2>3. n <= l
    BY <1>4, <1>5
  <2> QED BY <2>2, <2>3
<1>26. Laid(From(c, n) \o w, F, a, r + 1, k) /\ Len(From(c, n) \o w) = a[k] - a[r + 1]
  BY <1>17, <1>19, <1>21, <1>24
<1>27. Len(M[r + 1]) = c[1] /\ n \in 0 .. Len(c)
  BY <1>1, <1>3, <1>5, <1>13, <1>15, <1>18
<1>28. \A i \in 1 .. c[1] : c[2 + i] = M[r + 1][i]
  BY <1>3, <1>13, <1>20
<1>29. Len(w) >= 1 => r + 1 < k
  BY <1>1, <1>25
<1> QED BY <1>5, <1>11, <1>26, <1>27, <1>28, <1>29

\* connection_processing records the next message, and if no write was cut
\* short it is the next command that was sent.
LEMMA ConnectionProcessingStep ==
  ASSUME Buffers, NEW M, NEW b, NEW F, NEW a, NEW k, Wire(M, b, F, a, k), ConnectionProcessing
  PROVE  /\ Buffers' /\ Wire(M, b, F, a, k)'
         /\ Len(received) < Len(sent)
         /\ ~buffering => SubSeq(client_buf, Header + 1, length - 1) = sent[Len(received) + 1]
<1>1. /\ NotClosed /\ UNCHANGED <<cpc, buffering, sent, up, down, server_buf, msg_start, server_out>>
      /\ received' = Append(received, SubSeq(client_buf, Header + 1, length - 1))
      /\ client_buf' = From(client_buf, length)
  BY DEF ConnectionProcessing, NotClosed, Opened, serverVars
<1>2. Len(client_buf) >= 2 /\ Len(client_buf) >= length /\ length = 2 + client_buf[1]
  BY DEF ConnectionProcessing, WholeMessage, Header, length
<1>3. PICK c \in Seq(Nat) : c = client_buf
  BY DEF Buffers
<1>4. PICK w \in Seq(Nat) : w = down \o Pending(server_out)
  BY WayType
<1>5. PICK r \in Nat : r = Len(received)
  BY DEF Buffers
<1>6. PICK h \in Nat : h = c[1]
  BY <1>2, <1>3
<1>7. length = 2 + h /\ Len(c) >= 2 /\ 2 + h <= Len(c)
  BY <1>2, <1>3, <1>6
<1>8. Downward = c \o w
  BY <1>3, <1>4 DEF Downward
<1>9. /\ M \in Seq(Seq(Nat)) /\ Pieces(F, a) /\ Len(F) = Len(M)
      /\ (\A i \in 1 .. Len(M) : F[i] = Frame(M[i]))
      /\ k \in 0 .. Len(M) /\ r <= k
      /\ Laid(c \o w, F, a, r, k) /\ Len(c \o w) = a[k] - a[r]
  BY <1>1, <1>5, <1>8 DEF Wire, Pieces
<1>10. /\ r < k /\ Len(M[r + 1]) = h /\ 2 + h \in 0 .. Len(c)
       /\ \A i \in 1 .. h : c[2 + i] = M[r + 1][i]
       /\ Laid(From(c, 2 + h) \o w, F, a, r + 1, k)
       /\ Len(From(c, 2 + h) \o w) = a[k] - a[r + 1]
       /\ Len(w) >= 1 => r + 1 < k
  <2>1. 2 + c[1] <= Len(c) /\ Len(c) >= 2
    BY <1>6, <1>7
  <2>2. /\ r < k /\ Len(M[r + 1]) = c[1] /\ 2 + c[1] \in 0 .. Len(c)
        /\ \A i \in 1 .. c[1] : c[2 + i] = M[r + 1][i]
        /\ Laid(From(c, 2 + c[1]) \o w, F, a, r + 1, k)
        /\ Len(From(c, 2 + c[1]) \o w) = a[k] - a[r + 1]
        /\ Len(w) >= 1 => r + 1 < k
    BY <1>9, <2>1, TakeFrame
  <2> QED BY <1>6, <2>2
<1>11. Downward' = From(c, 2 + h) \o w
  BY <1>1, <1>3, <1>4, <1>7 DEF Downward
<1> DEFINE g == SubSeq(c, 3, 1 + h)
<1>12. h >= 1
  <2>1. r + 1 \in 1 .. Len(M)
    <3>1. Len(M) \in Nat
      BY <1>9
    <3> QED BY <1>9, <1>10, <3>1
  <2>2. Message(M[r + 1])
    BY <2>1 DEF Wire
  <2> QED BY <1>10, <2>2 DEF Message
<1>13. g \in Seq(Nat) /\ Len(g) = h - 1 /\ \A i \in 1 .. h - 1 : g[i] = c[2 + i]
  <2>1. PICK l \in Nat : l = Len(c)
    OBVIOUS
  <2>2. 1 + h <= l /\ 3 \in Nat /\ 1 + h \in Nat /\ 3 <= (1 + h) + 1
    BY <1>7, <1>12, <2>1
  <2>3. g \in Seq(Nat)
    BY <2>1, <2>2
  <2>4. Len(g) = h - 1
    BY <1>12, <2>1, <2>2
  <2>5. \A i \in 1 .. h - 1 : g[i] = c[2 + i]
    BY <1>12, <2>1, <2>2
  <2> QED BY <2>3, <2>4, <2>5
<1>14. SubSeq(client_buf, Header + 1, length - 1) = g
  <2>1. Header + 1 = 3 /\ (2 + h) - 1 = 1 + h
    BY DEF Header
  <2> QED BY <1>3, <1>7, <2>1
<1> HIDE DEF g
<1>15. received' \in Seq(Seq(Nat)) /\ Len(received') = r + 1
  <2>1. PICK R \in Seq(Seq(Nat)) : R = received
    BY DEF Buffers
  <2>2. g \in Seq(Nat)
    BY <1>13
  <2>3. Append(R, g) \in Seq(Seq(Nat)) /\ Len(Append(R, g)) = Len(R) + 1
    BY <2>2
  <2> QED BY <1>1, <1>5, <1>14, <2>1, <2>3
<1>16. Buffers'
  <2>1. From(c, 2 + h) \in Seq(Nat) /\ Len(From(c, 2 + h)) = Len(c) - (2 + h)
    BY <1>10, FromProperties
  <2>2. ClientMax \in Nat
    BY RelayAssumption
  <2>3. Len(c) <= ClientMax
    BY <1>3 DEF Buffers
  <2>4. Len(c) - (2 + h) <= ClientMax
    <3>1. PICK l \in Nat : l = Len(c)
      OBVIOUS
    <3>2. l - (2 + h) <= ClientMax
      BY <2>2, <2>3, <3>1
    <3> QED BY <3>1, <3>2
  <2>5. client_buf' \in Seq(Nat) /\ Len(client_buf') <= ClientMax
    BY <1>1, <1>3, <1>7, <2>1, <2>4
  <2> QED BY <1>1, <1>15, <2>5 DEF Buffers
<1>17. server_out' # <<>> => r + 1 < k
  <2> SUFFICES ASSUME server_out # <<>> PROVE Len(w) >= 1
    BY <1>1, <1>10
  <2>1. PICK p \in Seq(Nat) : p = Pending(server_out) /\ Len(p) >= 1
    BY PendingType DEF Buffers
  <2>2. down \in Seq(Nat)
    BY DEF Buffers
  <2>3. Len(down \o p) = Len(down) + Len(p)
    BY <2>2, ConcatBytes
  <2>4. PICK d \in Nat, n \in Nat : d = Len(down) /\ n = Len(p) /\ n >= 1
    BY <2>1, <2>2
  <2>5. d + n >= 1
    BY <2>4
  <2> QED BY <1>4, <2>1, <2>3, <2>4, <2>5
<1>18. Upward' = Upward
  BY <1>1 DEF Upward
<1>19. r + 1 <= k /\ r + 1 = Len(received')
  BY <1>9, <1>10, <1>15
<1>20. Wire(M, b, F, a, k)'
  <2>1. NotClosed' => /\ Laid(Downward', F, a, Len(received'), k)
                      /\ Len(Downward') = a[k] - a[Len(received')]
    BY <1>10, <1>11, <1>15
  <2>2. server_out' # <<>> => Len(received') < k
    BY <1>15, <1>17
  <2>3. Len(received') <= k
    BY <1>19
  <2> QED BY <1>1, <1>18, <2>1, <2>2, <2>3 DEF Wire
<1>21. Len(M) \in Nat /\ Len(M) <= Len(sent) /\ Len(sent) \in Nat
  BY <1>9 DEF Wire, Buffers
<1>22. Len(received) < Len(sent)
  BY <1>5, <1>9, <1>10, <1>21
<1>23. ASSUME ~buffering PROVE g = sent[r + 1]
  <2>1. r + 1 \in 1 .. Len(M)
    BY <1>9, <1>10, <1>21
  <2>2. M[r + 1] = Append(sent[r + 1], NUL) /\ Len(M) = Len(sent)
    BY <1>23, <2>1 DEF Wire
  <2>3. sent[r + 1] \in Commands
    BY <2>1, <2>2 DEF Buffers
  <2>4. PICK t \in Seq(Nat) : t = sent[r + 1]
    BY <2>3, RelayAssumption
  <2>5. PICK q \in Nat : q = Len(t)
    OBVIOUS
  <2>6. Len(Append(t, NUL)) = q + 1 /\ \A i \in 1 .. q : Append(t, NUL)[i] = t[i]
    BY <2>5
  <2>7. h = q + 1
    BY <1>10, <2>2, <2>4, <2>6
  <2>8. ASSUME NEW i \in 1 .. q PROVE g[i] = t[i]
    <3>1. i \in 1 .. h - 1 /\ i \in 1 .. h
      BY <2>7
    <3> QED BY <1>10, <1>13, <2>2, <2>4, <2>6, <3>1
  <2>9. Len(g) = q
    BY <1>13, <2>7
  <2>10. g = t
    BY <1>13, <2>5, <2>8, <2>9, SeqEqual
  <2> QED BY <2>4, <2>10
<1> QED BY <1>5, <1>14, <1>16, <1>20, <1>22, <1>23

\* connection_sync writes a command whole, or what the socket takes of it.
LEMMA ConnectionSendStep ==
  ASSUME Buffers, NEW M, NEW b, NEW F, NEW a, NEW k, Wire(M, b, F, a, k),
         NEW cmd \in Commands, ConnectionSend(cmd)
  PROVE  Buffers' /\ \E M1, b1, F1, a1 : Wire(M1, b1, F1, a1, k)'
<1>1. PICK n \in Writable(Len(cmd) + 1) :
        /\ up' = up \o SubSeq(Append(cmd, NUL), 1, n)
        /\ buffering' = (buffering \/ n # Len(cmd) + 1)
  BY DEF ConnectionSend
<1>2. /\ sent' = Append(sent, cmd)
      /\ UNCHANGED <<cpc, client_buf, received, down, server_buf, msg_start, server_out>>
  BY DEF ConnectionSend, serverVars
<1>3. cmd \in Seq(Nat) /\ \A i \in 1 .. Len(cmd) : cmd[i] # NUL
  BY RelayAssumption
<1>4. PICK q \in Nat, u \in Nat : q = Len(cmd) /\ u = Len(up)
  BY <1>3 DEF Buffers
<1>5. n \in 0 .. q + 1 /\ u + n <= UpCap /\ n \in Nat
  <2>1. UpCap \in Nat
    BY RelayAssumption
  <2>2. n \in IF q + 1 <= UpCap - u THEN {q + 1} ELSE 0 .. UpCap - u
    BY <1>1, <1>4 DEF Writable
  <2>3. u <= UpCap
    BY <1>4 DEF Buffers
  <2>4. CASE q + 1 <= UpCap - u
    BY <1>4, <2>1, <2>2, <2>4
  <2>5. CASE ~(q + 1 <= UpCap - u)
    BY <1>4, <2>1, <2>2, <2>3, <2>5
  <2> QED BY <2>4, <2>5
<1> DEFINE t == Append(cmd, NUL)
           p == SubSeq(t, 1, n)
<1>6. /\ t \in Seq(Nat) /\ Len(t) = q + 1 /\ t[q + 1] = NUL
      /\ \A i \in 1 .. q : t[i] = cmd[i]
  BY <1>3, <1>4 DEF NUL
<1> HIDE DEF t
<1>7. /\ p \in Seq(Nat) /\ Len(p) = n /\ \A i \in 1 .. n : p[i] = t[i]
  <2>1. \A i \in 1 .. n : i \in 1 .. q + 1
    BY <1>4, <1>5
  <2> QED BY <1>4, <1>5, <1>6, <2>1
<1>8. up' = up \o p
  BY <1>1 DEF t
<1> HIDE DEF p
<1>9. Buffers'
  <2>1. up \in Seq(Nat) /\ p \in Seq(Nat)
    BY <1>7 DEF Buffers
  <2>2. up \o p \in Seq(Nat) /\ Len(up \o p) = Len(up) + Len(p)
    BY <2>1, ConcatBytes
  <2>3. up' \in Seq(Nat) /\ Len(up') <= UpCap
    BY <1>4, <1>5, <1>7, <1>8, <2>2
  <2>4. sent' \in Seq(Commands)
    BY <1>2 DEF Buffers
  <2> QED BY <1>2, <2>3, <2>4 DEF Buffers
<1>10. Upward' = Upward \o p
  <2>1. From(server_buf, msg_start) \in Seq(Nat) /\ up \in Seq(Nat) /\ p \in Seq(Nat)
    BY <1>7, WayType DEF Buffers
  <2>2. (From(server_buf, msg_start) \o up) \o p = From(server_buf, msg_start) \o (up \o p)
    BY <2>1, ConcatThree, Zenon
  <2> QED BY <1>2, <1>8, <2>2 DEF Upward
<1>11. Downward' = Downward /\ (NotClosed' <=> NotClosed)
  BY <1>2 DEF Downward, NotClosed
<1>12. PICK U \in Seq(Nat), s \in Nat : U = Upward /\ s = Len(sent)
  BY WayType DEF Buffers
<1>13. Len(sent') = s + 1 /\ sent'[s + 1] = cmd /\ \A i \in 1 .. s : sent'[i] = sent[i]
  BY <1>2, <1>12 DEF Buffers
<1>14. /\ Pieces(M, b) /\ (\A i \in 1 .. Len(M) : Message(M[i])) /\ k \in 0 .. Len(M)
       /\ Streamed(U, M, b, k) /\ Len(M) <= s
  BY <1>12 DEF Wire
<1>15. PICK z \in Nat : z = Len(M)
  BY <1>14 DEF Pieces
<1>16. CASE n # q + 1
  <2>1. buffering'
    BY <1>1, <1>4, <1>16
  <2>2. ASSUME NEW i \in 1 .. Len(p) PROVE p[i] # NUL
    <3>1. i \in 1 .. n /\ i \in 1 .. q
      BY <1>4, <1>5, <1>7, <1>16
    <3> QED BY <1>3, <1>4, <1>6, <1>7, <3>1
  <2>3. Streamed(Upward', M, b, k)
    <3>1. p \in Seq(Nat)
      BY <1>7
    <3>2. Streamed(U \o p, M, b, k)
      BY <1>14, <2>2, <3>1, StreamedCut
    <3> QED BY <1>10, <1>12, <3>2
  <2>4. Len(M) <= Len(sent')
    <3>1. z <= s + 1
      BY <1>14, <1>15
    <3> QED BY <1>13, <1>15, <3>1
  <2>5. Wire(M, b, F, a, k)'
    BY <1>2, <1>11, <2>1, <2>3, <2>4 DEF Wire
  <2> QED BY <1>9, <2>5
<1>17. CASE n = q + 1
  <2>1. Message(p)
    <3>1. q + 1 \in 1 .. n /\ q + 1 >= 1
      BY <1>4, <1>17
    <3>2. p[q + 1] = NUL
      BY <1>6, <1>7, <3>1
    <3>3. ASSUME NEW j \in 1 .. (q + 1) - 1 PROVE p[j] # NUL
      <4>1. j \in 1 .. n /\ j \in 1 .. q
        BY <1>4, <1>17
      <4> QED BY <1>3, <1>4, <1>6, <1>7, <4>1
    <3>4. Len(p) = q + 1
      BY <1>7, <1>17
    <3> QED BY <3>1, <3>2, <3>3, <3>4 DEF Message
  <2>2. p = t
    <3>1. \A i \in 1 .. q + 1 : p[i] = t[i]
      BY <1>7, <1>17
    <3>2. Len(p) = q + 1 /\ Len(t) = q + 1 /\ p \in Seq(Nat) /\ t \in Seq(Nat)
      BY <1>6, <1>7, <1>17
    <3> QED BY <3>1, <3>2, SeqEqual
  <2>3. PICK m \in Seq(Nat) :
          /\ Message(m)
          /\ Streamed(U \o p, Append(M, m), MoreBytes(M, b, m), k)
          /\ Len(U) = b[Len(M)] - b[k] =>
               m = p /\ Len(U \o p) = MoreBytes(M, b, m)[Len(M) + 1] - b[k]
    <3>1. p \in Seq(Nat)
      BY <1>7
    <3> QED BY <1>14, <2>1, <3>1, StreamedSend
  <2> DEFINE Q == Append(M, m)
             c == MoreBytes(M, b, m)
             f == Frame(m)
             G == Append(F, f)
             d == MoreBytes(F, a, f)
  <2>4. Pieces(F, a) /\ Len(F) = z /\ \A i \in 1 .. z : F[i] = Frame(M[i])
    BY <1>15 DEF Wire
  <2>5. f \in Seq(Nat)
    BY FrameBytes
  <2> HIDE DEF f
  <2>6. Len(Q) = z + 1 /\ Q[z + 1] = m /\ \A i \in 1 .. z : Q[i] = M[i]
    BY <1>14, <1>15 DEF Pieces
  <2>7. Len(G) = z + 1 /\ G[z + 1] = f /\ \A i \in 1 .. z : G[i] = F[i]
    BY <2>4, <2>5 DEF Pieces
  <2>8. /\ Pieces(Q, c) /\ \A i \in 0 .. z : c[i] = b[i]
    BY <1>14, <1>15, PiecesAdd
  <2>9. /\ Pieces(G, d) /\ (\A i \in 0 .. z : d[i] = a[i])
        /\ \A x, r, j : r \in 0 .. z /\ j \in 0 .. z /\ Laid(x, F, a, r, j) => Laid(x, G, d, r, j)
    BY <2>4, <2>5, PiecesAdd, ZenonT(60)
  <2> HIDE DEF Q, c, G, d
  <2>10. \A i \in 1 .. z + 1 : i = z + 1 \/ i \in 1 .. z
    BY <1>15
  <2>11. \A i \in 1 .. Len(Q) : Message(Q[i])
    BY <1>14, <1>15, <2>3, <2>6, <2>10
  <2>12. Len(G) = Len(Q) /\ \A i \in 1 .. Len(Q) : G[i] = Frame(Q[i])
    BY <2>4, <2>6, <2>7, <2>10 DEF f
  <2>13. k \in 0 .. Len(Q) /\ Len(Q) <= Len(sent')
    <3>1. k \in 0 .. z + 1 /\ z + 1 <= s + 1
      BY <1>14, <1>15
    <3> QED BY <1>13, <2>6, <3>1
  <2>14. Streamed(Upward', Q, c, k)
    BY <1>10, <1>12, <2>3 DEF Q, c
  <2>15. NotClosed' => /\ Laid(Downward', G, d, Len(received'), k)
                       /\ Len(Downward') = d[k] - d[Len(received')]
    <3> SUFFICES ASSUME NotClosed
                 PROVE  Laid(Downward, G, d, Len(received), k) /\ Len(Downward) = d[k] - d[Len(received)]
      BY <1>2, <1>11
    <3>1. Laid(Downward, F, a, Len(received), k) /\ Len(Downward) = a[k] - a[Len(received)]
      BY DEF Wire
    <3>2. Len(received) \in 0 .. z /\ k \in 0 .. z
      <4>1. Len(received) \in Nat /\ Len(received) <= k
        BY DEF Wire, Buffers
      <4> QED BY <1>14, <1>15, <4>1
    <3> QED BY <2>9, <3>1, <3>2
  <2>16. ASSUME ~buffering'
         PROVE  /\ Len(Q) = Len(sent')
                /\ \A i \in 1 .. Len(Q) : Q[i] = Append(sent'[i], NUL)
                /\ Len(Upward') = c[Len(Q)] - c[k]
    <3>1. ~buffering
      BY <1>1, <2>16
    <3>2. /\ z = s /\ (\A i \in 1 .. z : M[i] = Append(sent[i], NUL))
          /\ Len(U) = b[Len(M)] - b[k]
      BY <1>12, <1>15, <3>1 DEF Wire
    <3>3. m = t /\ Len(U \o p) = c[z + 1] - b[k]
      BY <1>15, <2>2, <2>3, <3>2 DEF c
    <3>4. Len(Q) = Len(sent')
      BY <1>13, <2>6, <3>2
    <3>5. \A i \in 1 .. z + 1 : Q[i] = Append(sent'[i], NUL)
      <4>1. Q[z + 1] = Append(sent'[z + 1], NUL)
        BY <1>13, <2>6, <3>2, <3>3 DEF t
      <4>2. ASSUME NEW i \in 1 .. z PROVE Q[i] = Append(sent'[i], NUL)
        <5>1. sent'[i] = sent[i]
          BY <1>13, <3>2
        <5> QED BY <2>6, <3>2, <5>1
      <4> QED BY <2>10, <4>1, <4>2
    <3>6. Len(Upward') = c[Len(Q)] - c[k]
      <4>1. c[k] = b[k]
        BY <1>14, <1>15, <2>8
      <4> QED BY <1>10, <1>12, <2>6, <3>3, <4>1
    <3> QED BY <2>6, <3>4, <3>5, <3>6
  <2>17. /\ Len(received') <= k
         /\ server_out' # <<>> => Len(received') < k
    BY <1>2 DEF Wire
  <2>18. Wire(Q, c, G, d, k)'
    BY <2>8, <2>9, <2>11, <2>12, <2>13, <2>14, <2>15, <2>16, <2>17 DEF Wire
  <2> QED BY <1>9, <2>18
<1> QED BY <1>16, <1>17

\* A console that was ended by SIGPIPE had commands in flight: server_message
\* was writing one of them.
LEMMA KilledStep ==
  ASSUME Stages, Buffers, KilledInFlight, [Next]_vars,
         NEW M, NEW b, NEW F, NEW a, NEW k, Wire(M, b, F, a, k)
  PROVE  KilledInFlight'
<1>1. CASE ServerKilled
  <2>1. UNCHANGED <<sent, received>> /\ server_out # <<>>
    BY <1>1 DEF ServerKilled
  <2>2. /\ k \in 0 .. Len(M) /\ Len(received) < k /\ Len(M) <= Len(sent) /\ Len(M) \in Nat
        /\ Len(received) \in Nat /\ Len(sent) \in Nat
    BY <2>1, SMTT(30) DEF Wire, Pieces, Buffers
  <2>3. Len(received) < Len(sent)
    BY <2>2
  <2> QED BY <2>1, <2>3 DEF KilledInFlight
<1>2. CASE ~ServerKilled
  <2>1. cpc' = "killed" => cpc = "killed" /\ UNCHANGED <<sent, received>>
    <3>1. CASE Client
      BY <3>1, TermCalls DEF Client, ConnectionInit, ConnectionFails, ConnectionIo, FirstMessage,
         ConnectionProcessing, ConnectionProcessed, ConnectionOk, CloseClient, CloseServer,
         ServerTerm
    <3>2. CASE Server
      BY <1>2, <3>2 DEF Server, ServerRead, ServerStop, ServerMessage, ServerWrite,
         ServerWriteFails, ServerDone, clientVars
    <3>3. CASE Leave
      BY <3>3, TermCalls DEF Leave
    <3>4. ASSUME NEW cmd \in Commands, ConnectionSend(cmd) PROVE cpc' # "killed"
      BY <3>4 DEF ConnectionSend
    <3>5. CASE UNCHANGED vars
      BY <3>5 DEF vars, clientVars
    <3> QED BY <3>1, <3>2, <3>3, <3>4, <3>5 DEF Next, User
  <2> QED BY <2>1 DEF KilledInFlight
<1> QED BY <1>1, <1>2

\* A quiet step.
LEMMA QuietSteps ==
  ASSUME ConnectionInit \/ ConnectionFails \/ Leave \/ FirstMessage \/ ConnectionProcessed
           \/ ConnectionOk \/ CloseServer \/ ServerTerm \/ ServerStop \/ UNCHANGED vars
  PROVE  /\ UNCHANGED <<buffering, sent, received, client_buf, up, down, server_buf, msg_start, server_out>>
         /\ NotClosed' => NotClosed
<1>1. CASE ConnectionInit \/ FirstMessage \/ ConnectionProcessed \/ ConnectionOk
  BY <1>1 DEF ConnectionInit, FirstMessage, ConnectionProcessed, ConnectionOk, NotClosed, Opened, serverVars
<1>2. CASE ConnectionFails \/ Leave
  BY <1>2 DEF ConnectionFails, Leave, NotClosed, Opened, serverVars
<1>3. CASE CloseServer \/ ServerTerm
  BY <1>3, TermCalls DEF CloseServer, ServerTerm, NotClosed, Opened, serverVars
<1>4. CASE ServerStop
  BY <1>4 DEF ServerStop, clientVars, NotClosed
<1>5. CASE UNCHANGED vars
  BY <1>5 DEF vars, clientVars, serverVars, NotClosed
<1> QED BY <1>1, <1>2, <1>3, <1>4, <1>5

\* Every step keeps the bytes in order.
LEMMA WireStep ==
  ASSUME Stages, Buffers, [Next]_vars,
         NEW M, NEW b, NEW F, NEW a, NEW k, Wire(M, b, F, a, k)
  PROVE  Buffers' /\ \E M1, b1, F1, a1, k1 : Wire(M1, b1, F1, a1, k1)'
<1>1. CASE ConnectionInit \/ ConnectionFails \/ Leave \/ FirstMessage \/ ConnectionProcessed
             \/ ConnectionOk \/ CloseServer \/ ServerTerm \/ ServerStop \/ UNCHANGED vars
  <2>1. /\ UNCHANGED <<buffering, sent, received, client_buf, up, down, server_buf, msg_start, server_out>>
        /\ NotClosed' => NotClosed
    BY <1>1, QuietSteps
  <2>2. Buffers' /\ Wire(M, b, F, a, k)'
    BY <2>1, QuietStep
  <2> QED BY <2>2
<1>2. CASE ConnectionIo
  BY <1>2, ConnectionIoStep
<1>3. CASE ConnectionProcessing
  BY <1>3, ConnectionProcessingStep
<1>4. ASSUME NEW cmd \in Commands, ConnectionSend(cmd)
      PROVE  Buffers' /\ \E M1, b1, F1, a1, k1 : Wire(M1, b1, F1, a1, k1)'
  BY <1>4, ConnectionSendStep
<1>5. CASE ServerRead
  BY <1>5, ServerReadStep
<1>6. CASE ServerMessage
  BY <1>6, ServerMessageStep
<1>7. CASE ServerWrite
  BY <1>7, ServerWriteStep
<1>8. CASE CloseClient \/ ServerWriteFails \/ ServerKilled
  BY <1>8, DropStep
<1>9. CASE ServerDone
  BY <1>9, ServerDoneStep
<1> QED BY <1>1, <1>2, <1>3, <1>4, <1>5, <1>6, <1>7, <1>8, <1>9 DEF Next, User, Client, Server

\* Before connection_init nothing is on its way.
LEMMA RelayInvInit ==
  ASSUME Init
  PROVE  RelayInv
<1>1. Flags /\ Stages /\ KilledInFlight
  BY DEF Init, Flags, Stages, NotClosed, Opened, KilledInFlight
<1>2. Buffers
  <2>1. <<>> \in Seq(Nat) /\ <<>> \in Seq(Commands) /\ <<>> \in Seq(Seq(Nat)) /\ Len(<<>>) = 0
    OBVIOUS
  <2>2. Calls(<<>>)
    BY <2>1 DEF Calls
  <2> QED BY <2>1, <2>2, RelayAssumption DEF Init, Buffers
<1> DEFINE z == [i \in 0 .. 0 |-> 0]
<1>3. Pieces(<<>>, z)
  <2>1. <<>> \in Seq(Seq(Nat)) /\ Len(<<>>) = 0
    OBVIOUS
  <2>2. z \in [0 .. 0 -> Nat] /\ \A i, j \in 0 .. 0 : i <= j => z[i] <= z[j]
    OBVIOUS
  <2> QED BY <2>1, <2>2 DEF Pieces
<1>4. z[0] = 0
  OBVIOUS
<1> HIDE DEF z
<1>5. Upward = <<>> /\ Downward = <<>>
  <2>1. From(<<>>, 0) = <<>>
    BY DEF From
  <2>2. Pending(<<>>) = <<>>
    BY DEF Pending
  <2> QED BY <2>1, <2>2 DEF Init, Upward, Downward
<1>6. Laid(<<>>, <<>>, z, 0, 0)
  BY <1>4 DEF Laid
<1>7. Streamed(<<>>, <<>>, z, 0)
  BY <1>4, <1>6 DEF Streamed, Unended
<1>8. /\ Len(received) = 0 /\ Len(sent) = 0 /\ server_out = <<>>
  BY DEF Init
<1>9. Wire(<<>>, z, <<>>, z, 0)
  BY <1>3, <1>4, <1>5, <1>6, <1>7, <1>8 DEF Wire
<1> QED BY <1>1, <1>2, <1>9 DEF RelayInv

\* The invariant is inductive.
LEMMA RelayInvStep ==
  ASSUME RelayInv, [Next]_vars
  PROVE  RelayInv'
<1>1. Flags' /\ Stages'
  BY FlagsStep, StagesStep DEF RelayInv
<1>2. PICK M, b, F, a, k : Wire(M, b, F, a, k)
  BY DEF RelayInv
<1>3. KilledInFlight'
  BY <1>2, KilledStep DEF RelayInv
<1>4. Buffers' /\ \E M1, b1, F1, a1, k1 : Wire(M1, b1, F1, a1, k1)'
  BY <1>2, WireStep DEF RelayInv
<1> QED BY <1>1, <1>3, <1>4 DEF RelayInv

\* However reads and writes are split between connection.c and
\* network_server.c, the bytes on their way are whole messages in order.
THEOREM RelayInvHolds == Spec => []RelayInv
<1>1. Init => RelayInv
  BY RelayInvInit
<1>2. RelayInv /\ [Next]_vars => RelayInv'
  BY RelayInvStep
<1> QED BY <1>1, <1>2, PTL DEF Spec

\* Every variable has its type, and neither receive_buffer nor
\* connection_receive_buffer nor a socket ever holds more than its size.
THEOREM TypeOKHolds == Spec => []TypeOK
<1>1. RelayInv => TypeOK
  <2> SUFFICES ASSUME RelayInv PROVE TypeOK
    OBVIOUS
  <2>1. /\ fds \subseteq {"client_ep", "server_ep"}
        /\ reset \in BOOLEAN /\ disconnected \in BOOLEAN
        /\ known \in BOOLEAN /\ buffering \in BOOLEAN
        /\ spc \in {"none", "poll", "scan", "exit", "killed"}
    BY DEF RelayInv, Flags, Stages
  <2>2. {TermOrder[i] : i \in 1 .. Len(TermOrder)} = {"close_client", "close_server", "server_term", "left"}
    <3>1. /\ Len(TermOrder) = 4 /\ TermOrder[1] = "close_client" /\ TermOrder[2] = "close_server"
          /\ TermOrder[3] = "server_term" /\ TermOrder[4] = "left"
      BY DEF TermOrder
    <3>2. \A i \in 1 .. 4 : i = 1 \/ i = 2 \/ i = 3 \/ i = 4
      OBVIOUS
    <3>3. 1 \in 1 .. 4 /\ 2 \in 1 .. 4 /\ 3 \in 1 .. 4 /\ 4 \in 1 .. 4
      OBVIOUS
    <3> QED BY <3>1, <3>2, <3>3
  <2>3. cpc \in {"connection_init", "io", "process", "send", "killed"}
                  \cup {TermOrder[i] : i \in 1 .. Len(TermOrder)}
    BY <2>2 DEF RelayInv, Stages
  <2>4. msg_start \in 0 .. ServerMax
    <3>1. /\ Len(server_buf) \in Nat /\ Len(server_buf) <= ServerMax
          /\ msg_start \in 0 .. Len(server_buf)
      BY DEF RelayInv, Buffers
    <3>2. ServerMax \in Nat
      BY RelayAssumption
    <3> QED BY <3>1, <3>2
  <2>5. server_out \in Seq(Seq(Nat))
    BY DEF RelayInv, Buffers, Calls
  <2> QED BY <2>1, <2>3, <2>4, <2>5 DEF RelayInv, Buffers, TypeOK
<1> QED BY <1>1, RelayInvHolds, PTL

\* SIGPIPE in server_message only ends a console that called connection_term
\* before all its commands had come back.
THEOREM KilledInFlightHolds == Spec => []KilledInFlight
<1>1. RelayInv => KilledInFlight
  BY DEF RelayInv
<1> QED BY <1>1, RelayInvHolds, PTL

\* A command that is sent and one that comes back are steps of the channel,
\* every other step leaves it alone.
LEMMA EchoStep ==
  ASSUME RelayInv, [Next]_vars
  PROVE  [Echo!Next]_(Echo!vars)
<1>1. PICK M, b, F, a, k : Wire(M, b, F, a, k)
  BY DEF RelayInv
<1>2. Buffers
  BY DEF RelayInv
<1>3. CASE ConnectionProcessing
  <2>1. /\ Len(received) < Len(sent)
        /\ ~buffering => SubSeq(client_buf, Header + 1, length - 1) = sent[Len(received) + 1]
    BY <1>1, <1>2, <1>3, ConnectionProcessingStep
  <2>2. PICK g : g = SubSeq(client_buf, Header + 1, length - 1)
    OBVIOUS
  <2>3. received' = Append(received, g) /\ UNCHANGED <<sent, buffering>>
    BY <1>3, <2>2 DEF ConnectionProcessing
  <2>4. received' \in Seq(Seq(Nat))
    BY <1>1, <1>2, <1>3, ConnectionProcessingStep DEF Buffers
  <2>5. received \in Seq(Seq(Nat))
    BY <1>2 DEF Buffers
  <2>6. /\ Len(received') = Len(received) + 1
        /\ received'[Len(received) + 1] = g
        /\ \A i \in 1 .. Len(received) : received'[i] = received[i]
    BY <2>3, <2>5
  <2>7. SubSeq(received', 1, Len(received)) = received
    BY <2>4, <2>5, <2>6
  <2> QED BY <2>1, <2>2, <2>3, <2>6, <2>7 DEF Echo!Next, Echo!EchoDeliver
<1>4. ASSUME NEW cmd \in Commands, ConnectionSend(cmd) PROVE Echo!EchoSend
  <2>1. sent' = Append(sent, cmd) /\ UNCHANGED received /\ (buffering => buffering')
    BY <1>4 DEF ConnectionSend
  <2>2. sent \in Seq(Commands) /\ sent' \in Seq(Commands)
    BY <1>2, <2>1 DEF Buffers
  <2>3. Len(sent') = Len(sent) + 1 /\ \A i \in 1 .. Len(sent) : sent'[i] = sent[i]
    BY <2>1, <2>2
  <2>4. SubSeq(sent', 1, Len(sent)) = sent
    BY <2>2, <2>3
  <2> QED BY <2>1, <2>3, <2>4 DEF Echo!EchoSend
<1>5. CASE Server
  BY <1>5 DEF Server, ServerRead, ServerStop, ServerMessage, ServerWrite, ServerWriteFails,
     ServerKilled, ServerDone, clientVars, Echo!vars
<1>6. CASE Client /\ ~ConnectionProcessing
  BY <1>6 DEF Client, ConnectionInit, ConnectionFails, ConnectionIo, FirstMessage,
     ConnectionProcessed, ConnectionOk, CloseClient, CloseServer, ServerTerm, Echo!vars
<1>7. CASE Leave \/ UNCHANGED vars
  BY <1>7 DEF Leave, vars, clientVars, Echo!vars
<1> QED BY <1>3, <1>4, <1>5, <1>6, <1>7 DEF Next, User, Echo!Next

\* connection.c and network_server.c implement the echo channel: commands
\* come back whole, in order and once, and after a write that was cut short
\* never more of them than were sent.
THEOREM ImplementsEchoHolds == Spec => ImplementsEcho
<1>1. Init => Echo!Init
  BY DEF Init, Echo!Init
<1>2. RelayInv /\ [Next]_vars => [Echo!Next]_(Echo!vars)
  BY EchoStep
<1> QED BY <1>1, <1>2, RelayInvHolds, PTL DEF Spec, ImplementsEcho, Echo!Spec
=============================================================================
