-------------------------- MODULE HotReloadProofs ---------------------------
(***************************************************************************)
(* Proofs about module HotReload, for any builds of the library with any   *)
(* symbols, any size of the tables and any size of the event buffer: the   *)
(* tables list symbols of the library that is loaded, once each and in the *)
(* order of their addresses, and no build is missed.                       *)
(***************************************************************************)
EXTENDS HotReload, TLAPS, FiniteSetTheorems, FunctionTheorems, SequenceTheorems

-----------------------------------------------------------------------------
(***************************************************************************)
(* Places: the elements of a finite set in some order have the places      *)
(* 0, 1, ...                                                               *)
(***************************************************************************)

\* R orders S, strictly and totally.
Ordered(R, S) ==
  \A x, y \in S : /\ <<x, x>> \notin R
                  /\ x # y => <<x, y>> \in R \/ <<y, x>> \in R
                  /\ \A z \in S : <<x, y>> \in R /\ <<y, z>> \in R => <<x, z>> \in R

\* The place of an element is the number of elements before it.
Before(R, S, x) == {y \in S : <<y, x>> \in R}
Place(R, S, x) == Cardinality(Before(R, S, x))

\* It is a number.
LEMMA PlaceType ==
  ASSUME NEW R, NEW S, IsFiniteSet(S), NEW x
  PROVE  IsFiniteSet(Before(R, S, x)) /\ Place(R, S, x) \in Nat
<1>1. Before(R, S, x) \in SUBSET S
  BY DEF Before
<1>2. IsFiniteSet(Before(R, S, x))
  BY <1>1, FS_Subset
<1> QED BY <1>2, FS_CardinalityType DEF Place

\* An element that is before another has a smaller place.
LEMMA PlaceGrows ==
  ASSUME NEW R, NEW S, Ordered(R, S), IsFiniteSet(S), NEW x \in S, NEW y \in S, <<x, y>> \in R
  PROVE  Place(R, S, x) < Place(R, S, y)
<1> DEFINE B == Before(R, S, x)
<1>1. IsFiniteSet(B) /\ IsFiniteSet(Before(R, S, y)) /\ Place(R, S, x) \in Nat /\ Place(R, S, y) \in Nat
  BY PlaceType
<1>2. x \notin B
  BY DEF Before, Ordered
<1>3. B \cup {x} \in SUBSET Before(R, S, y)
  <2> SUFFICES ASSUME NEW z \in B PROVE <<z, y>> \in R
    BY DEF Before
  <2>1. z \in S /\ <<z, x>> \in R
    BY DEF Before
  <2> QED BY <2>1 DEF Ordered
<1> HIDE DEF B
<1>4. Cardinality(B \cup {x}) = Cardinality(B) + 1
  BY <1>1, <1>2, FS_AddElement
<1>5. Cardinality(B \cup {x}) <= Cardinality(Before(R, S, y))
  BY <1>1, <1>3, FS_Subset
<1> QED BY <1>1, <1>4, <1>5 DEF Place, B

\* Two elements have different places.
LEMMA PlaceInjective ==
  ASSUME NEW R, NEW S, Ordered(R, S), IsFiniteSet(S), NEW x \in S, NEW y \in S,
         Place(R, S, x) = Place(R, S, y)
  PROVE  x = y
<1>1. Place(R, S, x) \in Nat
  BY PlaceType
<1>2. ~(<<x, y>> \in R) /\ ~(<<y, x>> \in R)
  BY <1>1, PlaceGrows
<1> QED BY <1>2 DEF Ordered

\* The elements whose place is below a limit.
Firsts(R, S, m) == {x \in S : Place(R, S, x) < m}

\* They have the places from 0 on.
LEMMA PlacesOnto ==
  ASSUME NEW R, NEW S, Ordered(R, S), IsFiniteSet(S), NEW m \in Int
  PROVE  /\ Cardinality(Firsts(R, S, m)) \in Nat
         /\ \A x \in Firsts(R, S, m) : Place(R, S, x) + 1 \in 1 .. Cardinality(Firsts(R, S, m))
         /\ \A n \in 1 .. Cardinality(Firsts(R, S, m)) :
              \E x \in Firsts(R, S, m) : Place(R, S, x) = n - 1
<1> DEFINE A == Firsts(R, S, m)
           k == Cardinality(A)
           at == [x \in A |-> Place(R, S, x) + 1]
<1>1. A \in SUBSET S /\ \A x \in A : Place(R, S, x) \in Nat
  BY PlaceType DEF Firsts
<1>2. IsFiniteSet(A) /\ k \in Nat
  BY <1>1, FS_Subset, FS_CardinalityType
<1>3. \A x \in A : Place(R, S, x) + 1 \in 1 .. k
  <2> SUFFICES ASSUME NEW x \in A PROVE Place(R, S, x) + 1 \in 1 .. k
    OBVIOUS
  <2> DEFINE B == Before(R, S, x)
  <2>1. x \in S /\ Place(R, S, x) < m /\ Place(R, S, x) \in Nat /\ IsFiniteSet(B)
    BY <1>1, PlaceType DEF Firsts
  <2>2. B \cup {x} \in SUBSET A
    <3> SUFFICES ASSUME NEW y \in B PROVE y \in A
      OBVIOUS
    <3>1. y \in S /\ <<y, x>> \in R
      BY DEF Before
    <3>2. Place(R, S, y) < Place(R, S, x) /\ Place(R, S, y) \in Nat
      BY <2>1, <3>1, PlaceGrows, PlaceType
    <3>3. Place(R, S, y) < m
      BY <2>1, <3>2
    <3> QED BY <3>1, <3>3 DEF Firsts
  <2>3. x \notin B
    BY <2>1 DEF Before, Ordered
  <2> HIDE DEF A
  <2>4. Cardinality(B \cup {x}) <= k
    BY <1>2, <2>2, FS_Subset
  <2>5. Cardinality(B \cup {x}) = Cardinality(B) + 1
    <3> HIDE DEF B
    <3> QED BY <2>1, <2>3, FS_AddElement
  <2> QED BY <1>2, <2>1, <2>4, <2>5 DEF Place
<1>4. \A x, y \in A : at[x] = at[y] => x = y
  <2> SUFFICES ASSUME NEW x \in A, NEW y \in A, at[x] = at[y] PROVE x = y
    OBVIOUS
  <2>1. Place(R, S, x) = Place(R, S, y) /\ x \in S /\ y \in S
    BY <1>1
  <2> QED BY <2>1, PlaceInjective
<1>5. at \in Injection(A, 1 .. k)
  BY <1>3, <1>4 DEF Injection, IsInjective
<1>6. IsFiniteSet(1 .. k) /\ Cardinality(1 .. k) = k
  BY <1>2, FS_Interval
<1>7. at \in Surjection(A, 1 .. k)
  <2> HIDE DEF at, k
  <2> QED BY <1>5, <1>6, FS_Injection DEF k
<1>8. \A n \in 1 .. k : \E x \in A : at[x] = n
  BY <1>7 DEF Surjection
<1>9. \A n \in 1 .. k : \E x \in A : Place(R, S, x) = n - 1
  <2> SUFFICES ASSUME NEW n \in 1 .. k PROVE \E x \in A : Place(R, S, x) = n - 1
    OBVIOUS
  <2>1. PICK x \in A : at[x] = n
    BY <1>8
  <2>2. Place(R, S, x) \in Nat
    BY <1>1
  <2> QED BY <2>1, <2>2
<1> QED BY <1>2, <1>3, <1>9

\* So have all elements.
LEMMA AllPlaces ==
  ASSUME NEW R, NEW S, Ordered(R, S), IsFiniteSet(S)
  PROVE  /\ Cardinality(S) \in Nat
         /\ \A n \in 1 .. Cardinality(S) : \E x \in S : Place(R, S, x) = n - 1
<1> DEFINE N == Cardinality(S)
<1>1. N \in Nat
  BY FS_CardinalityType
<1>2. \A x \in S : Place(R, S, x) < N + 1
  <2> SUFFICES ASSUME NEW x \in S PROVE Place(R, S, x) < N + 1
    OBVIOUS
  <2>1. Before(R, S, x) \in SUBSET S
    BY DEF Before
  <2>2. Place(R, S, x) <= N /\ Place(R, S, x) \in Nat
    BY <2>1, FS_Subset, PlaceType DEF Place
  <2> QED BY <1>1, <2>2
<1>3. Firsts(R, S, N + 1) = S
  BY <1>2 DEF Firsts
<1>4. N + 1 \in Int
  BY <1>1
<1> HIDE DEF N
<1>5. \A n \in 1 .. Cardinality(Firsts(R, S, N + 1)) :
        \E x \in Firsts(R, S, N + 1) : Place(R, S, x) = n - 1
  BY <1>4, PlacesOnto
<1> QED BY <1>1, <1>3, <1>5 DEF N

\* Positions by their number.
Ascending(S) == {p \in S \X S : p[1] < p[2]}

\* Positions by the address of their entry, and those of equal addresses by
\* their number.
ByAddress(entries) ==
  {p \in (1 .. Len(entries)) \X (1 .. Len(entries)) :
     \/ entries[p[1]].address < entries[p[2]].address
     \/ entries[p[1]].address = entries[p[2]].address /\ p[1] < p[2]}

-----------------------------------------------------------------------------
(***************************************************************************)
(* parse_symtab lists each symbol at most once.                            *)
(***************************************************************************)

\* The listed symbols are numbered from 1 on.
LEMMA NthListed ==
  ASSUME NEW k, build \in Builds
  PROVE  /\ Listed(k) \in SUBSET (1 .. Len(SymTab[build]))
         /\ Len(SymTab[build]) \in Nat
         /\ Cardinality(Listed(k)) \in Nat
         /\ \A n \in 1 .. Cardinality(Listed(k)) :
              /\ Nth(k, n) \in Listed(k)
              /\ Cardinality({j \in Listed(k) : j < Nth(k, n)}) = n - 1
<1> DEFINE L == Listed(k)
           R == Ascending(L)
<1>1. Len(SymTab[build]) \in Nat
  BY HotReloadAssumption DEF Builds
<1>2. L \in SUBSET (1 .. Len(SymTab[build]))
  BY DEF Listed
<1>3. IsFiniteSet(L)
  <2>1. IsFiniteSet(1 .. Len(SymTab[build]))
    BY <1>1, FS_Interval
  <2> HIDE DEF L
  <2> QED BY <1>2, <2>1, FS_Subset
<1>4. \A x \in L : x \in Int
  BY <1>1, <1>2
<1> HIDE DEF L
<1>5. Ordered(R, L)
  <2>1. \A x, y \in L : <<x, y>> \in R <=> x < y
    BY DEF Ascending
  <2> HIDE DEF R
  <2> SUFFICES ASSUME NEW x \in L, NEW y \in L
               PROVE  /\ <<x, x>> \notin R
                      /\ x # y => <<x, y>> \in R \/ <<y, x>> \in R
                      /\ \A z \in L : <<x, y>> \in R /\ <<y, z>> \in R => <<x, z>> \in R
    BY DEF Ordered
  <2>2. x \in Int /\ y \in Int
    BY <1>4
  <2>3. <<x, x>> \notin R
    BY <2>1, <2>2
  <2>4. x # y => <<x, y>> \in R \/ <<y, x>> \in R
    BY <2>1, <2>2
  <2>5. ASSUME NEW z \in L, <<x, y>> \in R, <<y, z>> \in R PROVE <<x, z>> \in R
    BY <1>4, <2>1, <2>2, <2>5
  <2> QED BY <2>3, <2>4, <2>5
<1>6. \A x \in L : Place(R, L, x) = Cardinality({j \in L : j < x})
  <2> SUFFICES ASSUME NEW x \in L PROVE Before(R, L, x) = {j \in L : j < x}
    BY DEF Place
  <2> QED BY DEF Before, Ascending
<1> HIDE DEF R
<1>7. /\ Cardinality(L) \in Nat
      /\ \A n \in 1 .. Cardinality(L) : \E x \in L : Place(R, L, x) = n - 1
  BY <1>3, <1>5, AllPlaces
<1>8. ASSUME NEW n \in 1 .. Cardinality(L)
      PROVE  Nth(k, n) \in L /\ Cardinality({j \in L : j < Nth(k, n)}) = n - 1
  <2>1. \E x \in L : Cardinality({j \in L : j < x}) = n - 1
    BY <1>6, <1>7
  <2>2. Nth(k, n) = CHOOSE i \in L : Cardinality({j \in L : j < i}) = n - 1
    BY DEF Nth, L
  <2> HIDE DEF L
  <2> QED BY <2>1, <2>2
<1> QED BY <1>1, <1>2, <1>7, <1>8 DEF L

\* What parse_symtab found: entries of the build on disk, each symbol once.
LEMMA FoundOnce ==
  ASSUME NEW k, build \in Builds
  PROVE  /\ Found(k) \in Seq(Entries)
         /\ \A i \in 1 .. Len(Found(k)) :
              /\ Found(k)[i].build = build
              /\ \A j \in 1 .. i - 1 : Found(k)[j].symbol # Found(k)[i].symbol
<1> DEFINE N == Cardinality(Listed(k))
<1>1. /\ Listed(k) \in SUBSET (1 .. Len(SymTab[build]))
      /\ Len(SymTab[build]) \in Nat
      /\ N \in Nat
      /\ \A n \in 1 .. N : /\ Nth(k, n) \in Listed(k)
                           /\ Cardinality({j \in Listed(k) : j < Nth(k, n)}) = n - 1
  BY NthListed
<1>2. \A i \in 1 .. Len(SymTab[build]) : SymTab[build][i].address \in Nat
  <2>1. SymTab[build] \in Seq(Symbols)
    BY HotReloadAssumption DEF Builds
  <2>2. \A i \in 1 .. Len(SymTab[build]) : SymTab[build][i] \in Symbols
    BY <2>1
  <2> QED BY <2>2 DEF Symbols
<1>3. \A n \in 1 .. N : /\ Nth(k, n) \in Nat
                        /\ SymTab[build][Nth(k, n)].address \in Nat
  <2> SUFFICES ASSUME NEW n \in 1 .. N
               PROVE  Nth(k, n) \in Nat /\ SymTab[build][Nth(k, n)].address \in Nat
    OBVIOUS
  <2>1. Nth(k, n) \in 1 .. Len(SymTab[build])
    BY <1>1
  <2>2. Nth(k, n) \in Nat
    BY <1>1, <2>1
  <2> QED BY <1>2, <2>1, <2>2
<1> HIDE DEF N
<1>4. Found(k) = [n \in 1 .. N |-> [build |-> build, symbol |-> Nth(k, n),
                                    address |-> SymTab[build][Nth(k, n)].address]]
  BY DEF Found, N
<1>5. Found(k) \in [1 .. N -> Entries]
  BY <1>3, <1>4 DEF Entries
<1>6. Found(k) \in Seq(Entries) /\ Len(Found(k)) = N
  BY <1>1, <1>5
<1>7. ASSUME NEW i \in 1 .. N, NEW j \in 1 .. i - 1 PROVE Found(k)[j].symbol # Found(k)[i].symbol
  <2>1. j \in 1 .. N /\ j - 1 # i - 1
    BY <1>1
  <2>2. Nth(k, j) # Nth(k, i)
    BY <1>1, <2>1
  <2> QED BY <1>4, <2>1, <2>2
<1>8. \A i \in 1 .. N : Found(k)[i].build = build
  BY <1>4
<1> QED BY <1>6, <1>7, <1>8

-----------------------------------------------------------------------------
(***************************************************************************)
(* sort_functions and sort_objects.                                        *)
(***************************************************************************)

\* Any entries can be sorted.
LEMMA OrderExists ==
  ASSUME NEW entries \in Seq(Entries)
  PROVE  \E p \in [1 .. Len(entries) -> 1 .. Len(entries)] : Orders(entries, p)
<1> DEFINE n == Len(entries)
           S == 1 .. n
           R == ByAddress(entries)
<1>1. n \in Nat
  OBVIOUS
<1>2. \A i \in S : entries[i].address \in Nat /\ i \in Int
  <2> SUFFICES ASSUME NEW i \in S PROVE entries[i].address \in Nat
    OBVIOUS
  <2>1. entries[i] \in Entries
    OBVIOUS
  <2> QED BY <2>1 DEF Entries
<1>3. \A i, j \in S : <<i, j>> \in R <=> \/ entries[i].address < entries[j].address
                                         \/ entries[i].address = entries[j].address /\ i < j
  BY DEF ByAddress
<1> HIDE DEF R, S
<1>4. Ordered(R, S)
  <2> SUFFICES ASSUME NEW x \in S, NEW y \in S
               PROVE  /\ <<x, x>> \notin R
                      /\ x # y => <<x, y>> \in R \/ <<y, x>> \in R
                      /\ \A z \in S : <<x, y>> \in R /\ <<y, z>> \in R => <<x, z>> \in R
    BY DEF Ordered
  <2>1. <<x, x>> \notin R
    BY <1>2, <1>3, SMTT(30)
  <2>2. x # y => <<x, y>> \in R \/ <<y, x>> \in R
    BY <1>2, <1>3, SMTT(30)
  <2>3. ASSUME NEW z \in S, <<x, y>> \in R, <<y, z>> \in R PROVE <<x, z>> \in R
    BY <1>2, <1>3, <2>3, SMTT(30)
  <2> QED BY <2>1, <2>2, <2>3
<1>5. IsFiniteSet(S) /\ Cardinality(S) = n
  BY <1>1, FS_Interval, SMTT(30) DEF S
<1>6. \A i \in 1 .. n : \E x \in S : Place(R, S, x) = i - 1
  <2> HIDE DEF n
  <2>1. \A i \in 1 .. Cardinality(S) : \E x \in S : Place(R, S, x) = i - 1
    BY <1>4, <1>5, AllPlaces
  <2> QED BY <1>5, <2>1
<1> DEFINE p == [i \in 1 .. n |-> CHOOSE x \in S : Place(R, S, x) = i - 1]
<1>7. \A i \in 1 .. n : p[i] \in S /\ Place(R, S, p[i]) = i - 1
  <2> SUFFICES ASSUME NEW i \in 1 .. n PROVE p[i] \in S /\ Place(R, S, p[i]) = i - 1
    OBVIOUS
  <2>1. \E x \in S : Place(R, S, x) = i - 1
    BY <1>6
  <2>2. p[i] = CHOOSE x \in S : Place(R, S, x) = i - 1
    OBVIOUS
  <2> HIDE DEF p, n
  <2> QED BY <2>1, <2>2
<1>8. p \in [1 .. n -> S]
  BY <1>7
<1> HIDE DEF p
<1>9. ASSUME NEW i \in 1 .. n, NEW j \in 1 .. n, i < j
      PROVE  p[i] # p[j] /\ entries[p[i]].address <= entries[p[j]].address
  <2>1. p[i] \in S /\ p[j] \in S /\ Place(R, S, p[i]) = i - 1 /\ Place(R, S, p[j]) = j - 1
    BY <1>7
  <2>2. p[i] # p[j]
    BY <1>1, <1>9, <2>1
  <2>3. <<p[j], p[i]>> \notin R
    <3>1. ~(Place(R, S, p[j]) < Place(R, S, p[i]))
      BY <1>1, <1>9, <2>1
    <3> QED BY <1>4, <1>5, <2>1, <3>1, PlaceGrows
  <2>4. <<p[i], p[j]>> \in R
    BY <1>4, <2>1, <2>2, <2>3 DEF Ordered
  <2>5. entries[p[i]].address \in Nat /\ entries[p[j]].address \in Nat
    BY <1>2, <2>1
  <2>6. \/ entries[p[i]].address < entries[p[j]].address
        \/ entries[p[i]].address = entries[p[j]].address /\ p[i] < p[j]
    BY <1>3, <2>1, <2>4
  <2>7. entries[p[i]].address <= entries[p[j]].address
    BY <2>5, <2>6
  <2> QED BY <2>2, <2>7
<1>10. Orders(entries, p)
  BY <1>9 DEF Orders
<1> QED BY <1>8, <1>10 DEF S

\* What sorting returns.
LEMMA SortedOrders ==
  ASSUME NEW entries \in Seq(Entries)
  PROVE  /\ Sorted(entries) \in Seq(Entries)
         /\ Len(Sorted(entries)) = Len(entries)
         /\ \E p \in [1 .. Len(entries) -> 1 .. Len(entries)] :
              /\ Orders(entries, p)
              /\ \A i \in 1 .. Len(entries) : Sorted(entries)[i] = entries[p[i]]
<1> DEFINE n == Len(entries)
           p == CHOOSE q \in [1 .. n -> 1 .. n] : Orders(entries, q)
<1>1. n \in Nat
  OBVIOUS
<1>2. p \in [1 .. n -> 1 .. n] /\ Orders(entries, p)
  BY OrderExists
<1>3. Sorted(entries) = [i \in 1 .. n |-> entries[p[i]]]
  BY DEF Sorted
<1> HIDE DEF p
<1>4. \A i \in 1 .. n : entries[p[i]] \in Entries
  BY <1>2
<1>5. Sorted(entries) \in [1 .. n -> Entries]
  BY <1>3, <1>4
<1>6. Sorted(entries) \in Seq(Entries) /\ Len(Sorted(entries)) = n
  BY <1>1, <1>5
<1>7. \A i \in 1 .. n : Sorted(entries)[i] = entries[p[i]]
  BY <1>3
<1> QED BY <1>2, <1>6, <1>7

\* parse_symtab and the sort, on empty tables: what dlfn_open makes of them.
LEMMA OpenedTable ==
  ASSUME NEW k \in Kinds, build \in Builds, table[k] = <<>>
  PROVE  LET t == Sorted(Parsed(k))
         IN  /\ t \in Seq(Entries)
             /\ Len(t) <= MaxSymbols
             /\ \A i \in 1 .. Len(t) :
                  /\ t[i].build = build
                  /\ \A j \in 1 .. i - 1 : /\ t[j].symbol # t[i].symbol
                                           /\ t[j].address <= t[i].address
<1> DEFINE f == Found(k)
           m == AtMost(Len(f), MaxSymbols)
           e == Parsed(k)
           t == Sorted(e)
<1>1. /\ f \in Seq(Entries)
      /\ \A i \in 1 .. Len(f) : /\ f[i].build = build
                                /\ \A j \in 1 .. i - 1 : f[j].symbol # f[i].symbol
  BY FoundOnce
<1> HIDE DEF f
<1>2. m \in Nat /\ m <= Len(f) /\ m <= MaxSymbols
  BY <1>1, HotReloadAssumption DEF AtMost
<1> HIDE DEF m
<1>3. e = SubSeq(f, 1, m)
  <2>1. <<>> \o f = f
    BY <1>1
  <2> QED BY <2>1 DEF Parsed, f, m
<1> HIDE DEF e
<1>4. e \in Seq(Entries) /\ Len(e) = m /\ \A i \in 1 .. m : e[i] = f[i]
  BY <1>1, <1>2, <1>3
<1>5. \A i \in 1 .. m : i \in 1 .. Len(f)
  BY <1>1, <1>2
<1>6. \A i \in 1 .. m : e[i].build = build
  BY <1>1, <1>4, <1>5
<1>7. \A i, j \in 1 .. m : i # j => e[i].symbol # e[j].symbol
  <2>1. ASSUME NEW i \in 1 .. m, NEW j \in 1 .. m, j < i PROVE e[j].symbol # e[i].symbol
    <3>1. j \in 1 .. i - 1
      BY <1>2, <2>1
    <3> QED BY <1>1, <1>4, <1>5, <3>1
  <2> SUFFICES ASSUME NEW i \in 1 .. m, NEW j \in 1 .. m, i # j
               PROVE  e[i].symbol # e[j].symbol
    OBVIOUS
  <2>2. j < i \/ i < j
    BY <1>2
  <2> QED BY <2>1, <2>2
<1>8. t \in Seq(Entries) /\ Len(t) = m
  BY <1>4, SortedOrders
<1>9. PICK p \in [1 .. m -> 1 .. m] : /\ Orders(e, p)
                                      /\ \A i \in 1 .. m : t[i] = e[p[i]]
  BY <1>4, SortedOrders
<1> HIDE DEF t
<1>10. \A i \in 1 .. m : t[i].build = build
  BY <1>6, <1>9
<1>11. ASSUME NEW i \in 1 .. m, NEW j \in 1 .. i - 1
       PROVE  t[j].symbol # t[i].symbol /\ t[j].address <= t[i].address
  <2>1. j \in 1 .. m /\ j < i
    BY <1>2
  <2>2. p[j] # p[i] /\ e[p[j]].address <= e[p[i]].address
    BY <1>4, <1>9, <2>1 DEF Orders
  <2>3. p[i] \in 1 .. m /\ p[j] \in 1 .. m
    BY <1>9, <2>1
  <2>4. t[i] = e[p[i]] /\ t[j] = e[p[j]]
    BY <1>9, <2>1
  <2> QED BY <1>7, <2>2, <2>3, <2>4
<1>12. \A i \in 1 .. Len(t) : /\ t[i].build = build
                              /\ \A j \in 1 .. i - 1 : /\ t[j].symbol # t[i].symbol
                                                       /\ t[j].address <= t[i].address
  BY <1>8, <1>10, <1>11
<1>13. Len(t) <= MaxSymbols
  BY <1>2, <1>8
<1> QED BY <1>8, <1>12, <1>13 DEF t, e

-----------------------------------------------------------------------------
(***************************************************************************)
(* The inductive invariant.  The watch exists from before the library is   *)
(* opened until after the loop, so a build that is completed after the     *)
(* load leaves its name in the queue; a library is loaded only while the   *)
(* tables are those of dlfn_open.                                          *)
(***************************************************************************)

\* The types of the state.
Types ==
  /\ pc \in 1 .. 5
  /\ running \in BOOLEAN /\ complete \in BOOLEAN /\ watching \in BOOLEAN
  /\ build \in Builds /\ dlhandle \in Builds \cup {Closed}
  /\ others \in 0 .. MaxOther /\ reloads \in 0 .. MaxReload
  /\ events \in Seq(Names)

\* The tables.
Tables ==
  /\ table \in [Kinds -> Seq(Entries)]
  /\ \A k \in Kinds : Len(table[k]) <= MaxSymbols
  /\ dlhandle = Closed => table = Empty
  /\ TablesOfLoaded

\* Where the library is closed and where the watch exists.
Stages ==
  /\ pc \in {1, 2} => dlhandle = Closed
  /\ pc \in {2, 3} => watching

\* All of it.
HotInv == Types /\ Tables /\ Stages /\ NoBuildMissed

\* The steps by their number.
LEMMA AtPc ==
  /\ Len(Order) = 5
  /\ At("notify_init") <=> pc = 1
  /\ At("dlfn_open") <=> pc = 2
  /\ At("loop") <=> pc = 3
  /\ At("notify_shutdown") <=> pc = 4
  /\ At("dlfn_shutdown") <=> pc = 5
<1>1. Len(Order) = 5
  BY DEF Order
<1>2. \A i \in 1 .. 5 : i = 1 \/ i = 2 \/ i = 3 \/ i = 4 \/ i = 5
  OBVIOUS
<1>3. /\ Order[1] = "notify_init" /\ Order[2] = "dlfn_open" /\ Order[3] = "loop"
      /\ Order[4] = "notify_shutdown" /\ Order[5] = "dlfn_shutdown"
  BY DEF Order
<1> QED BY <1>1, <1>2, <1>3 DEF At

\* The loop in the next state.
LEMMA AtLoopNext == At("loop")' <=> pc' = 3
<1>1. \A i \in 1 .. 5 : i = 1 \/ i = 2 \/ i = 3 \/ i = 4 \/ i = 5
  OBVIOUS
<1>2. /\ Order[1] = "notify_init" /\ Order[2] = "dlfn_open" /\ Order[3] = "loop"
      /\ Order[4] = "notify_shutdown" /\ Order[5] = "dlfn_shutdown" /\ Len(Order) = 5
  BY DEF Order
<1> QED BY <1>1, <1>2 DEF At

\* Continue goes to the next step.
LEMMA ContinueNext ==
  ASSUME Continue, pc \in 1 .. 5
  PROVE  pc' = IF pc = 5 THEN 1 ELSE pc + 1
<1>1. pc' = (pc % 5) + 1
  BY AtPc DEF Continue
<1>2. pc = 1 \/ pc = 2 \/ pc = 3 \/ pc = 4 \/ pc = 5
  OBVIOUS
<1> QED BY <1>1, <1>2

\* Empty tables satisfy everything that is said of tables.
LEMMA EmptyTables ==
  /\ Empty \in [Kinds -> Seq(Entries)]
  /\ \A k \in Kinds : Empty[k] = <<>> /\ Len(Empty[k]) = 0 /\ Len(Empty[k]) <= MaxSymbols
<1>1. <<>> \in Seq(Entries) /\ Len(<<>>) = 0
  OBVIOUS
<1>2. 0 <= MaxSymbols
  BY HotReloadAssumption
<1> QED BY <1>1, <1>2 DEF Empty

\* Initially it holds.
LEMMA HotInvInit == Init => HotInv
<1> SUFFICES ASSUME Init PROVE HotInv
  OBVIOUS
<1>1. 1 \in Builds
  BY HotReloadAssumption DEF Builds
<1>2. Types
  <2>1. <<>> \in Seq(Names)
    OBVIOUS
  <2>2. 0 \in 0 .. MaxOther /\ 0 \in 0 .. MaxReload
    BY HotReloadAssumption
  <2>3. 1 \in 1 .. 5
    OBVIOUS
  <2> QED BY <1>1, <2>1, <2>2, <2>3, Zenon DEF Init, Types
<1>3. Tables
  BY EmptyTables DEF Init, Tables, TablesOfLoaded
<1>4. Stages /\ NoBuildMissed
  BY AtPc DEF Init, Stages, NoBuildMissed
<1> QED BY <1>2, <1>3, <1>4 DEF HotInv

\* The tables depend on the library only.
LEMMA SameTables ==
  ASSUME Tables, UNCHANGED lib
  PROVE  Tables'
BY DEF Tables, TablesOfLoaded, lib

\* The queue after a close of a written file.
LEMMA QueuedEvents ==
  ASSUME Types, NEW name \in Names
  PROVE  /\ Queued(name) \in Seq(Names)
         /\ Len(events) \in Nat
         /\ Len(events) <= Len(Queued(name))
         /\ \A i \in 1 .. Len(events) : Queued(name)[i] = events[i]
         /\ watching => /\ Len(Queued(name)) = Len(events) + 1
                        /\ Queued(name)[Len(events) + 1] = name
<1>1. events \in Seq(Names)
  BY DEF Types
<1>2. CASE watching
  BY <1>1, <1>2 DEF Queued
<1>3. CASE ~watching
  BY <1>1, <1>3 DEF Queued
<1> QED BY <1>2, <1>3

\* What the compiler and other programs do preserves it.
LEMMA CompilerStep ==
  ASSUME HotInv, Compiler
  PROVE  HotInv'
<1> USE DEF HotInv
<1>1. UNCHANGED <<pc, running, watching, lib, reloads>>
  BY DEF Compiler, Truncate, CloseWrite, WriteOther
<1>2. Tables' /\ Stages'
  BY <1>1, SameTables DEF Stages, lib
<1>3. CASE Truncate
  <2>1. build' \in Builds
    BY <1>3, HotReloadAssumption DEF Truncate, Types, Builds
  <2>2. Types'
    BY <1>3, <2>1 DEF Truncate, Types, lib
  <2>3. NoBuildMissed'
    BY <1>3 DEF Truncate, NoBuildMissed
  <2> QED BY <1>2, <2>2, <2>3
<1>4. CASE CloseWrite
  <2>1. /\ Queued("library") \in Seq(Names)
        /\ Len(events) \in Nat
        /\ watching => /\ Len(Queued("library")) = Len(events) + 1
                       /\ Queued("library")[Len(events) + 1] = "library"
    BY QueuedEvents DEF Names
  <2>2. Types'
    BY <1>4, <2>1 DEF CloseWrite, Types, lib
  <2>3. NoBuildMissed'
    <3> SUFFICES ASSUME At("loop")' PROVE \E i \in 1 .. Len(events') : events'[i] = "library"
      BY DEF NoBuildMissed
    <3>1. pc = 3
      BY <1>1, AtPc DEF At
    <3>2. watching
      BY <3>1 DEF Stages
    <3>3. Len(events') = Len(events) + 1 /\ events'[Len(events) + 1] = "library"
      BY <1>4, <2>1, <3>2 DEF CloseWrite
    <3>4. Len(events) + 1 \in 1 .. Len(events')
      BY <2>1, <3>3
    <3> QED BY <3>3, <3>4
  <2> QED BY <1>2, <2>2, <2>3
<1>5. CASE WriteOther
  <2>0. PICK name \in Names : events' = Queued(name)
    BY <1>5 DEF WriteOther
  <2>1. /\ Queued(name) \in Seq(Names)
        /\ Len(events) \in Nat
        /\ Len(events) <= Len(Queued(name))
        /\ \A i \in 1 .. Len(events) : Queued(name)[i] = events[i]
    BY QueuedEvents
  <2>2. Types'
    BY <1>5, <2>0, <2>1, HotReloadAssumption DEF WriteOther, Types, lib
  <2>3. NoBuildMissed'
    <3> SUFFICES ASSUME At("loop")', running', complete', dlhandle' # build'
                 PROVE  \E i \in 1 .. Len(events') : events'[i] = "library"
      BY DEF NoBuildMissed
    <3>1. At("loop") /\ running /\ complete /\ dlhandle # build
      BY <1>5 DEF WriteOther, At, lib
    <3>2. PICK i \in 1 .. Len(events) : events[i] = "library"
      BY <3>1 DEF NoBuildMissed
    <3>3. Len(events') \in Nat
      BY <2>0, <2>1
    <3>4. i \in 1 .. Len(events') /\ events'[i] = "library"
      BY <2>0, <2>1, <3>2, <3>3
    <3> QED BY <3>4
  <2> QED BY <1>2, <2>2, <2>3
<1> QED BY <1>3, <1>4, <1>5 DEF Compiler

\* dlfn_open preserves it.
LEMMA OpenStep ==
  ASSUME HotInv, DlfnOpen
  PROVE  HotInv'
<1> USE DEF HotInv
<1>1. pc = 2 /\ pc' = 3
  BY AtPc, ContinueNext DEF DlfnOpen, Types
<1>2. Types'
  BY <1>1 DEF DlfnOpen, Types, disk
<1>3. build \in Builds /\ build # Closed /\ dlhandle' = build
  BY HotReloadAssumption DEF DlfnOpen, Types
<1>4. \A k \in Kinds : table[k] = <<>>
  BY <1>1, EmptyTables DEF Stages, Tables
<1>5. table' = [k \in Kinds |-> Sorted(Parsed(k))]
  BY DEF DlfnOpen
<1>6. ASSUME NEW k \in Kinds
      PROVE  /\ table'[k] \in Seq(Entries)
             /\ Len(table'[k]) <= MaxSymbols
             /\ \A i \in 1 .. Len(table'[k]) :
                  /\ table'[k][i].build = build
                  /\ \A j \in 1 .. i - 1 : /\ table'[k][j].symbol # table'[k][i].symbol
                                           /\ table'[k][j].address <= table'[k][i].address
  <2>1. table'[k] = Sorted(Parsed(k))
    BY <1>5
  <2> QED BY <1>3, <1>4, <2>1, OpenedTable
<1>7. Tables'
  <2>1. table' \in [Kinds -> Seq(Entries)]
    BY <1>5, <1>6
  <2>2. TablesOfLoaded'
    BY <1>3, <1>6 DEF TablesOfLoaded
  <2> QED BY <1>3, <1>6, <2>1, <2>2 DEF Tables
<1>8. Stages'
  BY <1>1 DEF Stages, DlfnOpen
<1>9. NoBuildMissed'
  BY <1>3 DEF NoBuildMissed, DlfnOpen, disk
<1> QED BY <1>2, <1>7, <1>8, <1>9

\* notify_poll preserves it: the library's name is among the events that were
\* read, and the loop ends, or among those that were left.
LEMMA PollStep ==
  ASSUME HotInv, NotifyPoll
  PROVE  HotInv'
<1> USE DEF HotInv
<1> DEFINE n == AtMost(Len(events), BufEvents)
           rest == SubSeq(events, n + 1, Len(events))
<1>1. /\ At("loop") /\ running
      /\ events' = rest
      /\ running' = (Handled(n) \cap InPath = {})
      /\ UNCHANGED <<pc, build, complete, others, watching, dlhandle, table, reloads>>
  BY DEF NotifyPoll, disk, lib
<1>2. events \in Seq(Names) /\ Len(events) \in Nat
  BY DEF Types
<1>3. n \in 0 .. Len(events)
  BY <1>2, HotReloadAssumption DEF AtMost
<1> HIDE DEF n
<1>4. /\ rest \in Seq(Names)
      /\ Len(rest) = Len(events) - n
      /\ \A i \in 1 .. Len(events) - n : rest[i] = events[n + i]
  BY <1>2, <1>3
<1> HIDE DEF rest
<1>5. running' \in BOOLEAN
  BY <1>1, Zenon
<1>6. Types'
  BY <1>1, <1>4, <1>5 DEF Types
<1>7. Tables' /\ Stages'
  BY <1>1, SameTables DEF Stages, lib
<1>8. NoBuildMissed'
  <2> SUFFICES ASSUME running', complete', dlhandle' # build'
               PROVE  \E i \in 1 .. Len(events') : events'[i] = "library"
    BY DEF NoBuildMissed
  <2>1. complete /\ dlhandle # build
    BY <1>1
  <2>2. PICK i \in 1 .. Len(events) : events[i] = "library"
    BY <1>1, <2>1 DEF NoBuildMissed
  <2>3. i \notin 1 .. n
    <3>1. "library" \notin Handled(n)
      BY <1>1 DEF InPath
    <3> QED BY <2>2, <3>1 DEF Handled
  <2>4. i - n \in 1 .. Len(events) - n /\ n + (i - n) = i
    BY <1>2, <1>3, <2>3
  <2>5. rest[i - n] = "library"
    BY <1>4, <2>2, <2>4
  <2> QED BY <1>1, <1>4, <2>4, <2>5
<1> QED BY <1>6, <1>7, <1>8

\* The other steps of game_simulation preserve it.
LEMMA ConsoleStep ==
  ASSUME HotInv, Console
  PROVE  HotInv'
<1> USE DEF HotInv
<1>1. <<>> \in Seq(Names)
  OBVIOUS
<1>2. CASE NotifyInit
  <2>1. pc = 1 /\ pc' = 2
    BY <1>2, AtPc, ContinueNext DEF NotifyInit, Types
  <2>2. Types'
    BY <1>1, <1>2, <2>1 DEF NotifyInit, Types, disk, lib
  <2>3. Tables' /\ Stages'
    BY <1>2, <2>1, SameTables DEF NotifyInit, Stages, lib
  <2>4. ~At("loop")'
    BY <2>1, AtLoopNext
  <2> QED BY <2>2, <2>3, <2>4 DEF NoBuildMissed
<1>3. CASE DlfnOpen
  BY <1>3, OpenStep
<1>4. CASE DlfnOpenFails
  <2>1. pc = 2 /\ pc' = 3
    BY <1>4, AtPc, ContinueNext DEF DlfnOpenFails, Types
  <2>2. Types'
    BY <1>4, <2>1 DEF DlfnOpenFails, Types, disk
  <2>3. UNCHANGED lib
    BY <1>4, <2>1 DEF DlfnOpenFails, Stages, lib
  <2>4. Tables' /\ Stages'
    BY <1>4, <2>1, <2>3, SameTables DEF DlfnOpenFails, Stages
  <2>5. NoBuildMissed'
    BY <1>4 DEF DlfnOpenFails, NoBuildMissed, disk
  <2> QED BY <2>2, <2>4, <2>5
<1>5. CASE NotifyPoll
  BY <1>5, PollStep
<1>6. CASE LoopEnds
  <2>1. pc = 3 /\ pc' = 4
    BY <1>6, AtPc, ContinueNext DEF LoopEnds, Types
  <2>2. Types'
    BY <1>6, <2>1 DEF LoopEnds, Types, disk, lib
  <2>3. Tables' /\ Stages'
    BY <1>6, <2>1, SameTables DEF LoopEnds, Stages
  <2>4. ~At("loop")'
    BY <2>1, AtLoopNext
  <2> QED BY <2>2, <2>3, <2>4 DEF NoBuildMissed
<1>7. CASE NotifyShutdown
  <2>1. pc = 4 /\ pc' = 5
    BY <1>7, AtPc, ContinueNext DEF NotifyShutdown, Types
  <2>2. Types'
    <3>1. pc' \in 1 .. 5
      BY <2>1
    <3> QED BY <1>1, <1>7, <3>1, Zenon DEF NotifyShutdown, Types, disk, lib
  <2>3. Tables' /\ Stages'
    BY <1>7, <2>1, SameTables DEF NotifyShutdown, Stages
  <2>4. ~At("loop")'
    BY <2>1, AtLoopNext
  <2> QED BY <2>2, <2>3, <2>4 DEF NoBuildMissed
<1>8. CASE DlfnShutdown
  <2>1. pc = 5 /\ pc' = 1
    BY <1>8, AtPc, ContinueNext DEF DlfnShutdown, Types
  <2>2. Types'
    BY <1>8, <2>1 DEF DlfnShutdown, Types, disk
  <2>3. table' = Empty /\ dlhandle' = Closed
    BY <1>8 DEF DlfnShutdown, Tables, Cleared
  <2>4. Tables'
    BY <2>3, EmptyTables DEF Tables, TablesOfLoaded
  <2>5. Stages'
    BY <2>1, <2>3 DEF Stages
  <2>6. ~At("loop")'
    BY <2>1, AtLoopNext
  <2> QED BY <2>2, <2>4, <2>5, <2>6 DEF NoBuildMissed
<1> QED BY <1>2, <1>3, <1>4, <1>5, <1>6, <1>7, <1>8 DEF Console

\* Every step preserves it.
LEMMA HotInvStep ==
  ASSUME HotInv, [Next]_vars
  PROVE  HotInv'
<1>1. CASE Compiler
  BY <1>1, CompilerStep
<1>2. CASE Console
  BY <1>2, ConsoleStep
<1>3. CASE Reload
  <2>1. Types'
    <3>1. reloads' \in 0 .. MaxReload
      BY <1>3, HotReloadAssumption DEF HotInv, Types, Reload
    <3> QED BY <1>3, <3>1, Zenon DEF HotInv, Reload, Types, disk, lib
  <2>2. Tables' /\ Stages'
    <3>1. UNCHANGED <<pc, watching, dlhandle>> /\ UNCHANGED lib
      BY <1>3 DEF Reload, lib
    <3> QED BY <3>1, SameTables DEF HotInv, Stages
  <2>3. NoBuildMissed'
    BY <1>3 DEF Reload, NoBuildMissed
  <2> QED BY <2>1, <2>2, <2>3 DEF HotInv
<1>4. CASE UNCHANGED vars
  <2>1. UNCHANGED <<pc, running, build, complete, others, watching, events, dlhandle, table, reloads>>
    BY <1>4 DEF vars, disk, lib
  <2>2. Tables' /\ Types' /\ Stages'
    BY <2>1, SameTables DEF HotInv, Types, Stages, lib
  <2>3. NoBuildMissed'
    BY <2>1 DEF HotInv, NoBuildMissed, At
  <2> QED BY <2>2, <2>3 DEF HotInv
<1> QED BY <1>1, <1>2, <1>3, <1>4 DEF Next

-----------------------------------------------------------------------------
(***************************************************************************)
(* Theorems.                                                               *)
(***************************************************************************)

\* The inductive invariant holds in every run, whatever the compiler does.
THEOREM HotInvHolds == Spec => []HotInv
<1>1. Init => HotInv
  BY HotInvInit
<1>2. HotInv /\ [Next]_vars => HotInv'
  BY HotInvStep
<1> QED BY <1>1, <1>2, PTL DEF Spec

\* Every variable has its type and the tables of functions and objects stay
\* within their arrays, however many symbols a build has and however often it
\* is reloaded.
THEOREM TypeOKHolds == Spec => []TypeOK
<1>1. HotInv => TypeOK
  <2> SUFFICES ASSUME HotInv PROVE TypeOK
    OBVIOUS
  <2>1. Types /\ Tables
    BY DEF HotInv
  <2>2. \A i \in 1 .. Len(events) : events[i] \in Names
    BY <2>1 DEF Types
  <2>3. \A k \in Kinds : \A i \in 1 .. Len(table[k]) : table[k][i] \in Entries
    BY <2>1 DEF Tables
  <2> QED BY <2>1, <2>2, <2>3, AtPc DEF Types, Tables, TypeOK
<1> QED BY <1>1, HotInvHolds, PTL

\* The tables list symbols of the library that is loaded, each at most once
\* and in the order of their addresses: no call goes through an address of a
\* library that was closed.
THEOREM TablesOfLoadedHolds == Spec => []TablesOfLoaded
<1>1. HotInv => TablesOfLoaded
  BY DEF HotInv, Tables
<1> QED BY <1>1, HotInvHolds, PTL

\* A console that runs an old build has the news of the new one in its queue,
\* wherever the compiler's writes fall between the watch, the load, the reads
\* and the restarts.
THEOREM NoBuildMissedHolds == Spec => []NoBuildMissed
<1>1. HotInv => NoBuildMissed
  BY DEF HotInv
<1> QED BY <1>1, HotInvHolds, PTL
=============================================================================
