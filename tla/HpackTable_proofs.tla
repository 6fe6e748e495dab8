------------------------- MODULE HpackTable_proofs -------------------------
(***************************************************************************)
(* Proofs about the dynamic table of HPACK, for every set of strings and   *)
(* every size of the buffer: the circular buffer holds the characters of   *)
(* a list of headers, and the list is the one that HPACK prescribes.       *)
(*                                                                         *)
(* The characters are looked at backwards from next, as the code does:     *)
(* Back(t, d) is the one at distance d, and Off(es, k) is the distance at  *)
(* which the k-th newest of the headers es begins.                         *)
(***************************************************************************)
EXTENDS HpackTable, FiniteSetTheorems, WellFoundedInduction, TLAPS

\* The value of a % m for the sums that occur: all are smaller than 2 * m.
Wrapped(a, m) == IF a < m THEN a ELSE a - m

\* The character at distance d before next.
Back(t, d) == t.buffer[Wrapped(t.next - d + t.max_size, t.max_size)]

Headers == Names \X Values

\* The cells of a header: its characters and two of its three zeros.
Cells(e) == Len(e[1]) + Len(e[2]) + 2

AllCells(es) == [i \in 1 .. Len(es) |-> Cells(es[i])]

AllSizes(es) == [i \in 1 .. Len(es) |-> Abs!Size(es[i])]

\* The distance before next at which the k-th newest of the headers es begins.
Off(es, k) == PartialSums(AllCells(es))[k]

\* The header e begins at distance p before next.
EntryAt(t, p, e) ==
  /\ Back(t, p) = 0
  /\ \A i \in 1 .. Len(e[1]) : Back(t, p - i) = e[1][i]
  /\ Back(t, p - Len(e[1]) - 1) = 0
  /\ \A i \in 1 .. Len(e[2]) : Back(t, p - Len(e[1]) - 1 - i) = e[2][i]
  /\ Back(t, p - Cells(e)) = 0

Tables ==
  [buffer : [0 .. MaxTable - 1 -> Nat], max_size : 0 .. MaxTable,
   settings_max_table_size : 0 .. MaxTable, actual_size : Nat, n_entries : Nat,
   first : Nat, next : Nat]

\* The table t holds the headers es, the newest first.
Holds(t, es) ==
  /\ es \in Seq(Headers) /\ t \in Tables
  /\ t.n_entries = Len(es)
  /\ t.actual_size = Abs!SizeOf(es, Len(es)) /\ t.actual_size <= t.max_size
  /\ t.next < t.max_size \/ t.next = 0
  /\ t.first = Wrapped(t.next - Off(es, Len(es)) + t.max_size, t.max_size)
  /\ \A k \in 1 .. Len(es) : EntryAt(t, Off(es, k), es[k])

\* The inductive invariant: the table holds the headers that can be read.
IInv == Holds(table, Entries) /\ stuck = FALSE

-----------------------------------------------------------------------------
(* Sequences, induction and sums.                                            *)

\* The length of a sequence, and its elements.
LEMMA SeqParts ==
  ASSUME NEW S, NEW s \in Seq(S)
  PROVE  Len(s) \in Nat /\ \A i \in 1 .. Len(s) : s[i] \in S
  OBVIOUS

\* A set of naturals that is not empty has a least element.
LEMMA LeastNatural ==
  ASSUME NEW T, T \subseteq Nat, T # {}
  PROVE  \E x \in T : \A y \in T : x <= y
<1> DEFINE R == {p \in Nat \X Nat : p[1] < p[2]}
<1>1. IsWellFoundedOn(R, Nat)
  BY NatLessThanWellFounded, Zenon DEF OpToRel
<1>2. ASSUME NEW x \in Nat, NEW y \in Nat, ~(<<y, x>> \in R) PROVE x <= y
  BY <1>2
<1> HIDE DEF R
<1>3. PICK x \in T : \A y \in T : ~(<<y, x>> \in R)
  BY <1>1, WFMin, Zenon
<1> QED BY <1>2, <1>3, Zenon

\* The least element is the value of Min, which is what a loop of the code
\* finds first.
LEMMA MinIs ==
  ASSUME NEW T, T \subseteq Nat, NEW x \in T, \A y \in T : x <= y
  PROVE  Min(T) = x /\ First(T) = x
<1>1. Min(T) \in T /\ \A y \in T : Min(T) <= y
  BY Zenon DEF Min
<1>2. Min(T) \in Nat /\ x \in Nat /\ Min(T) <= x /\ x <= Min(T)
  BY <1>1, Zenon
<1>3. Min(T) = x
  BY <1>2
<1> QED BY <1>3, Zenon DEF First

\* The largest element is the value of Max.
LEMMA MaxIs ==
  ASSUME NEW T, T \subseteq Nat, NEW x \in T, \A y \in T : y <= x
  PROVE  Max(T) = x
<1>1. Max(T) \in T /\ \A y \in T : Max(T) >= y
  <2>1. \A y \in T : x >= y
    <3> SUFFICES ASSUME NEW y \in T PROVE x >= y
      OBVIOUS
    <3>1. y <= x /\ y \in Nat /\ x \in Nat
      BY Zenon
    <3> QED BY <3>1
  <2> QED BY <2>1, Zenon DEF Max
<1>2. Max(T) \in Nat /\ x \in Nat /\ Max(T) >= x /\ Max(T) <= x
  BY <1>1, Zenon
<1> QED BY <1>2

\* Induction up to n: a set that holds 0 and the successor of each of its
\* elements holds all numbers up to n.
LEMMA Induction ==
  ASSUME NEW T, NEW n \in Nat, 0 \in T, \A i \in 0 .. n - 1 : i \in T => i + 1 \in T
  PROVE  \A i \in 0 .. n : i \in T
<1> DEFINE B == {i \in 0 .. n : i \notin T}
<1> SUFFICES ASSUME B # {} PROVE FALSE
  BY Zenon
<1>1. PICK x \in B : \A y \in B : x <= y
  <2>1. B \subseteq Nat
    OBVIOUS
  <2> HIDE DEF B
  <2> QED BY <2>1, LeastNatural, Zenon
<1>2. x \in 0 .. n /\ x \notin T /\ x # 0
  BY <1>1
<1>3. x - 1 \in 0 .. n - 1 /\ x - 1 \in 0 .. n /\ ~(x <= x - 1) /\ (x - 1) + 1 = x
  BY <1>2
<1>4. x - 1 \in T
  BY <1>1, <1>3
<1> QED BY <1>2, <1>3, <1>4

\* f is the function that the recursion of PartialSums defines, up to n.
SumsUpTo(f, s, n) == f = [i \in 0 .. n |-> IF i = 0 THEN 0 ELSE f[i - 1] + s[i]]

\* The recursion defines a function.
LEMMA SumsExist ==
  ASSUME NEW s, NEW n \in Nat
  PROVE  \E f : SumsUpTo(f, s, n)
<1> DEFINE T == {i \in Nat : \E f : SumsUpTo(f, s, i)}
<1>1. 0 \in T
  <2>1. SumsUpTo([i \in 0 .. 0 |-> 0], s, 0)
    BY DEF SumsUpTo
  <2> QED BY <2>1
<1>2. ASSUME NEW m \in 0 .. n - 1, m \in T PROVE m + 1 \in T
  <2>1. PICK f : SumsUpTo(f, s, m)
    BY <1>2
  <2> DEFINE g == [i \in 0 .. m + 1 |-> IF i = m + 1 THEN f[m] + s[m + 1] ELSE f[i]]
  <2>2. ASSUME NEW i \in 0 .. m + 1 PROVE g[i] = IF i = 0 THEN 0 ELSE g[i - 1] + s[i]
    <3>1. CASE i = m + 1
      BY <3>1
    <3>2. CASE i # m + 1
      <4>1. i \in 0 .. m /\ (i # 0 => i - 1 \in 0 .. m)
        BY <2>2, <3>2
      <4>2. f[i] = IF i = 0 THEN 0 ELSE f[i - 1] + s[i]
        BY <2>1, <4>1 DEF SumsUpTo
      <4> QED BY <4>1, <4>2
    <3> QED BY <3>1, <3>2
  <2>3. SumsUpTo(g, s, m + 1)
    <3> HIDE DEF g
    <3>1. g = [i \in 0 .. m + 1 |-> g[i]]
      BY DEF g
    <3> QED BY <2>2, <3>1, Zenon DEF SumsUpTo
  <2>4. m + 1 \in Nat
    OBVIOUS
  <2> HIDE DEF g
  <2> QED BY <2>3, <2>4
<1> HIDE DEF T
<1>3. n \in T
  BY <1>1, <1>2, Induction
<1> QED BY <1>3 DEF T

\* PartialSums is what its recursion says.
LEMMA SumsStep ==
  ASSUME NEW s, Len(s) \in Nat
  PROVE  /\ PartialSums(s)[0] = 0
         /\ \A i \in 0 .. Len(s) - 1 : PartialSums(s)[i + 1] = PartialSums(s)[i] + s[i + 1]
<1> DEFINE f == PartialSums(s)
<1>1. SumsUpTo(f, s, Len(s))
  <2>1. \E g : SumsUpTo(g, s, Len(s))
    BY SumsExist
  <2>2. f = CHOOSE g : SumsUpTo(g, s, Len(s))
    BY DEF PartialSums, SumsUpTo
  <2> QED BY <2>1, <2>2
<1> HIDE DEF f
<1>2. \A i \in 0 .. Len(s) : f[i] = IF i = 0 THEN 0 ELSE f[i - 1] + s[i]
  BY <1>1 DEF SumsUpTo
<1>3. f[0] = 0
  BY <1>2
<1>4. ASSUME NEW i \in 0 .. Len(s) - 1 PROVE f[i + 1] = f[i] + s[i + 1]
  <2>1. i + 1 \in 0 .. Len(s) /\ i + 1 # 0 /\ (i + 1) - 1 = i
    OBVIOUS
  <2> QED BY <1>2, <2>1
<1> QED BY <1>3, <1>4 DEF f

-----------------------------------------------------------------------------
(* Sizes and distances.                                                      *)

\* The parts of a header: strings without zeros.
LEMMA HeaderParts ==
  ASSUME NEW e \in Headers
  PROVE  /\ e[1] \in Names /\ e[2] \in Values /\ e = <<e[1], e[2]>>
         /\ e[1] \in Seq(Nat \ {0}) /\ e[2] \in Seq(Nat \ {0})
         /\ Len(e[1]) \in Nat /\ Len(e[2]) \in Nat
<1>1. e[1] \in Names /\ e[2] \in Values /\ e = <<e[1], e[2]>>
  BY DEF Headers
<1>2. e[1] \in Seq(Nat \ {0}) /\ e[2] \in Seq(Nat \ {0})
  BY <1>1, TableAssumption
<1> QED BY <1>1, <1>2, SeqParts

\* An entry counts for more than its cells.
LEMMA HeaderSize ==
  ASSUME NEW e \in Headers
  PROVE  /\ Cells(e) \in Nat /\ Cells(e) >= 2 /\ Abs!Size(e) \in Nat
         /\ Cells(e) + 1 <= Abs!Size(e) /\ Cells(e) - 2 + Overhead = Abs!Size(e)
<1>1. Len(e[1]) \in Nat /\ Len(e[2]) \in Nat /\ Overhead \in Nat /\ Overhead > 2
  BY HeaderParts, TableAssumption, Zenon
<1>2. PICK a \in Nat, b \in Nat : a = Len(e[1]) /\ b = Len(e[2])
  BY <1>1, Zenon
<1>3. Cells(e) = a + b + 2 /\ Abs!Size(e) = a + b + Overhead
  BY <1>2, Zenon DEF Cells, Abs!Size
<1> QED BY <1>1, <1>3

\* The size of a list is the sum of the sizes of its headers.
LEMMA SizeOfIs ==
  ASSUME NEW es, NEW k
  PROVE  Abs!SizeOf(es, k) = PartialSums(AllSizes(es))[k]
  BY DEF Abs!SizeOf, Abs!PartialSums, PartialSums, AllSizes

\* Every header adds its cells to the distance, and its size to the size.
LEMMA OffStep ==
  ASSUME NEW es \in Seq(Headers)
  PROVE  /\ Off(es, 0) = 0 /\ Abs!SizeOf(es, 0) = 0
         /\ \A k \in 0 .. Len(es) - 1 :
              /\ es[k + 1] \in Headers
              /\ Off(es, k + 1) = Off(es, k) + Cells(es[k + 1])
              /\ Abs!SizeOf(es, k + 1) = Abs!SizeOf(es, k) + Abs!Size(es[k + 1])
<1>1. Len(es) \in Nat /\ \A i \in 1 .. Len(es) : es[i] \in Headers
  BY SeqParts
<1>2. \A i \in 1 .. Len(es) : Cells(es[i]) \in Nat /\ Abs!Size(es[i]) \in Nat
  BY <1>1, HeaderSize
<1>3. AllCells(es) \in Seq(Nat) /\ Len(AllCells(es)) = Len(es)
  BY <1>1, <1>2 DEF AllCells
<1>4. AllSizes(es) \in Seq(Nat) /\ Len(AllSizes(es)) = Len(es)
  BY <1>1, <1>2 DEF AllSizes
<1>5. Off(es, 0) = 0 /\ Abs!SizeOf(es, 0) = 0
  BY <1>1, <1>3, <1>4, SumsStep, SizeOfIs DEF Off
<1>6. ASSUME NEW k \in 0 .. Len(es) - 1
      PROVE  /\ Off(es, k + 1) = Off(es, k) + Cells(es[k + 1])
             /\ Abs!SizeOf(es, k + 1) = Abs!SizeOf(es, k) + Abs!Size(es[k + 1])
  <2>1. k + 1 \in 1 .. Len(es)
    BY <1>1
  <2>2. AllCells(es)[k + 1] = Cells(es[k + 1]) /\ AllSizes(es)[k + 1] = Abs!Size(es[k + 1])
    BY <2>1, Zenon DEF AllCells, AllSizes
  <2> QED BY <1>1, <1>3, <1>4, <2>2, SumsStep, SizeOfIs, Zenon DEF Off
<1> QED BY <1>1, <1>5, <1>6

\* The distances are smaller than the sizes by at least the number of headers.
LEMMA OffTypes ==
  ASSUME NEW es \in Seq(Headers)
  PROVE  \A k \in 0 .. Len(es) :
           Off(es, k) \in Nat /\ Abs!SizeOf(es, k) \in Nat /\ Off(es, k) + k <= Abs!SizeOf(es, k)
<1> DEFINE P(k) == Off(es, k) \in Nat /\ Abs!SizeOf(es, k) \in Nat
                   /\ Off(es, k) + k <= Abs!SizeOf(es, k)
           T == {k \in Nat : P(k)}
<1>1. Len(es) \in Nat
  BY SeqParts
<1>2. 0 \in T
  BY OffStep
<1>3. ASSUME NEW k \in 0 .. Len(es) - 1, k \in T PROVE k + 1 \in T
  <2>1. /\ es[k + 1] \in Headers
        /\ Off(es, k + 1) = Off(es, k) + Cells(es[k + 1])
        /\ Abs!SizeOf(es, k + 1) = Abs!SizeOf(es, k) + Abs!Size(es[k + 1])
    BY OffStep, Zenon
  <2>2. /\ Cells(es[k + 1]) \in Nat /\ Abs!Size(es[k + 1]) \in Nat
        /\ Cells(es[k + 1]) + 1 <= Abs!Size(es[k + 1])
    BY <2>1, HeaderSize, Zenon
  <2>3. P(k)
    BY <1>3, Zenon
  <2> QED BY <2>1, <2>2, <2>3
<1> HIDE DEF T
<1>4. \A k \in 0 .. Len(es) : k \in T
  BY <1>1, <1>2, <1>3, Induction
<1> QED BY <1>4, Zenon DEF T

\* Older headers are farther from next, and a header begins after the next
\* newer one.
LEMMA OffMonotone ==
  ASSUME NEW es \in Seq(Headers), NEW j \in 0 .. Len(es), NEW k \in 0 .. Len(es), j <= k
  PROVE  Off(es, j) <= Off(es, k) /\ Abs!SizeOf(es, j) <= Abs!SizeOf(es, k)
<1> DEFINE P(i) == j <= i => Off(es, j) <= Off(es, i) /\ Abs!SizeOf(es, j) <= Abs!SizeOf(es, i)
           T == {i \in 0 .. Len(es) : P(i)}
<1>1. Len(es) \in Nat
  BY SeqParts
<1>2. 0 \in T
  <2>1. 0 \in 0 .. Len(es) /\ (j <= 0 => j = 0)
    BY <1>1
  <2>2. Off(es, 0) <= Off(es, 0) /\ Abs!SizeOf(es, 0) <= Abs!SizeOf(es, 0)
    BY OffStep
  <2> QED BY <2>1, <2>2, Zenon
<1>3. ASSUME NEW i \in 0 .. Len(es) - 1, i \in T PROVE i + 1 \in T
  <2>1. i \in 0 .. Len(es) /\ i + 1 \in 0 .. Len(es) /\ (j <= i + 1 => j <= i \/ j = i + 1)
    BY <1>1
  <2>2. /\ es[i + 1] \in Headers
        /\ Off(es, i + 1) = Off(es, i) + Cells(es[i + 1])
        /\ Abs!SizeOf(es, i + 1) = Abs!SizeOf(es, i) + Abs!Size(es[i + 1])
    BY OffStep, Zenon
  <2>3. Cells(es[i + 1]) \in Nat /\ Abs!Size(es[i + 1]) \in Nat
    BY <2>2, HeaderSize, Zenon
  <2>4. \A l \in {i, i + 1, j} : Off(es, l) \in Nat /\ Abs!SizeOf(es, l) \in Nat
    BY <2>1, OffTypes, Zenon
  <2>5. P(i)
    BY <1>3, Zenon
  <2>6. P(i + 1)
    <3>1. ASSUME NEW a \in Nat, NEW b \in Nat, NEW c \in Nat, a <= b PROVE a <= b + c
      BY <3>1
    <3>2. CASE j <= i
      BY <2>2, <2>3, <2>4, <2>5, <3>1, <3>2, Zenon
    <3>3. CASE j = i + 1
      <4>1. Off(es, j) <= Off(es, j) /\ Abs!SizeOf(es, j) <= Abs!SizeOf(es, j)
        BY <2>4
      <4> QED BY <3>3, <4>1, Zenon
    <3> QED BY <2>1, <3>2, <3>3, Zenon
  <2> QED BY <2>1, <2>6, Zenon
<1> HIDE DEF T
<1>4. \A i \in 0 .. Len(es) : i \in T
  BY <1>1, <1>2, <1>3, Induction, Zenon
<1> QED BY <1>4, Zenon DEF T

\* Dropping the oldest headers does not change the distances and sizes of the
\* others.
LEMMA OffPrefix ==
  ASSUME NEW es \in Seq(Headers), NEW n \in 0 .. Len(es)
  PROVE  /\ SubSeq(es, 1, n) \in Seq(Headers) /\ Len(SubSeq(es, 1, n)) = n
         /\ \A k \in 1 .. n : SubSeq(es, 1, n)[k] = es[k]
         /\ \A k \in 0 .. n : /\ Off(SubSeq(es, 1, n), k) = Off(es, k)
                              /\ Abs!SizeOf(SubSeq(es, 1, n), k) = Abs!SizeOf(es, k)
<1> DEFINE ps == SubSeq(es, 1, n)
           P(k) == Off(ps, k) = Off(es, k) /\ Abs!SizeOf(ps, k) = Abs!SizeOf(es, k)
           T == {k \in 0 .. n : P(k)}
<1>1. Len(es) \in Nat /\ n \in Nat
  BY SeqParts
<1>2. ps \in Seq(Headers) /\ Len(ps) = n /\ \A k \in 1 .. n : ps[k] = es[k]
  BY <1>1
<1> HIDE DEF ps
<1>3. 0 \in T
  BY <1>1, <1>2, OffStep
<1>4. ASSUME NEW k \in 0 .. n - 1, k \in T PROVE k + 1 \in T
  <2>1. k \in 0 .. Len(es) - 1 /\ k \in 0 .. Len(ps) - 1 /\ k + 1 \in 1 .. n /\ k + 1 \in 0 .. n
    BY <1>1, <1>2
  <2>2. /\ Off(es, k + 1) = Off(es, k) + Cells(es[k + 1])
        /\ Abs!SizeOf(es, k + 1) = Abs!SizeOf(es, k) + Abs!Size(es[k + 1])
    BY <2>1, OffStep, Zenon
  <2>3. /\ Off(ps, k + 1) = Off(ps, k) + Cells(ps[k + 1])
        /\ Abs!SizeOf(ps, k + 1) = Abs!SizeOf(ps, k) + Abs!Size(ps[k + 1])
    BY <1>2, <2>1, OffStep, Zenon
  <2>4. ps[k + 1] = es[k + 1] /\ P(k)
    BY <1>2, <1>4, <2>1, Zenon
  <2>5. P(k + 1)
    BY <2>2, <2>3, <2>4, Zenon
  <2> QED BY <2>1, <2>5, Zenon
<1> HIDE DEF T
<1>5. \A k \in 0 .. n : k \in T
  BY <1>1, <1>3, <1>4, Induction, Zenon
<1> QED BY <1>2, <1>5, Zenon DEF T, ps

\* A new header moves the others away by its cells, and adds its size.
LEMMA OffCons ==
  ASSUME NEW es \in Seq(Headers), NEW e \in Headers
  PROVE  /\ <<e>> \o es \in Seq(Headers) /\ Len(<<e>> \o es) = Len(es) + 1
         /\ (<<e>> \o es)[1] = e /\ \A k \in 1 .. Len(es) : (<<e>> \o es)[k + 1] = es[k]
         /\ \A k \in 0 .. Len(es) :
              /\ Off(<<e>> \o es, k + 1) = Cells(e) + Off(es, k)
              /\ Abs!SizeOf(<<e>> \o es, k + 1) = Abs!Size(e) + Abs!SizeOf(es, k)
<1> DEFINE cs == <<e>> \o es
           P(k) == /\ Off(cs, k + 1) = Cells(e) + Off(es, k)
                   /\ Abs!SizeOf(cs, k + 1) = Abs!Size(e) + Abs!SizeOf(es, k)
           T == {k \in 0 .. Len(es) : P(k)}
<1>1. Len(es) \in Nat
  BY SeqParts
<1>2. /\ cs \in Seq(Headers) /\ Len(cs) = Len(es) + 1
      /\ cs[1] = e /\ \A k \in 1 .. Len(es) : cs[k + 1] = es[k]
  BY <1>1
<1> HIDE DEF cs
<1>3. \A k \in 0 .. Len(es) :
        /\ Off(cs, k + 1) = Off(cs, k) + Cells(cs[k + 1])
        /\ Abs!SizeOf(cs, k + 1) = Abs!SizeOf(cs, k) + Abs!Size(cs[k + 1])
  <2>1. \A k \in 0 .. Len(es) : k \in 0 .. Len(cs) - 1
    BY <1>1, <1>2
  <2> QED BY <1>2, <2>1, OffStep, Zenon
<1>4. Cells(e) \in Nat /\ Abs!Size(e) \in Nat
  BY HeaderSize
<1>5. 0 \in T
  <2>1. /\ Off(cs, 0 + 1) = Off(cs, 0) + Cells(cs[0 + 1])
        /\ Abs!SizeOf(cs, 0 + 1) = Abs!SizeOf(cs, 0) + Abs!Size(cs[0 + 1])
    BY <1>1, <1>3
  <2>2. /\ Off(cs, 0) = 0 /\ Abs!SizeOf(cs, 0) = 0 /\ Off(es, 0) = 0 /\ Abs!SizeOf(es, 0) = 0
        /\ cs[0 + 1] = e
    BY <1>2, OffStep
  <2>3. P(0)
    BY <1>4, <2>1, <2>2
  <2> QED BY <1>1, <2>3
<1>6. ASSUME NEW k \in 0 .. Len(es) - 1, k \in T PROVE k + 1 \in T
  <2>1. k + 1 \in 0 .. Len(es) /\ k + 1 \in 1 .. Len(es) /\ k \in 0 .. Len(es)
    BY <1>1
  <2>2. /\ Off(es, k + 1) = Off(es, k) + Cells(es[k + 1])
        /\ Abs!SizeOf(es, k + 1) = Abs!SizeOf(es, k) + Abs!Size(es[k + 1])
        /\ es[k + 1] \in Headers
    BY OffStep, Zenon
  <2>3. /\ Off(cs, (k + 1) + 1) = Off(cs, k + 1) + Cells(es[k + 1])
        /\ Abs!SizeOf(cs, (k + 1) + 1) = Abs!SizeOf(cs, k + 1) + Abs!Size(es[k + 1])
    BY <1>2, <1>3, <2>1, Zenon
  <2>4. /\ Off(es, k) \in Nat /\ Abs!SizeOf(es, k) \in Nat
        /\ Cells(es[k + 1]) \in Nat /\ Abs!Size(es[k + 1]) \in Nat
    BY <2>1, <2>2, OffTypes, HeaderSize, Zenon
  <2>5. P(k)
    BY <1>6, Zenon
  <2>6. P(k + 1)
    BY <1>4, <2>2, <2>3, <2>4, <2>5, SMTT(30)
  <2> QED BY <2>1, <2>6, Zenon
<1> HIDE DEF T
<1>7. \A k \in 0 .. Len(es) : k \in T
  BY <1>1, <1>5, <1>6, Induction, Zenon
<1> QED BY <1>2, <1>7, Zenon DEF T, cs

-----------------------------------------------------------------------------
(* Positions in the buffer.                                                  *)

\* The remainders of the code (tables.c:96, 134, 249), of sums smaller than
\* three times the size of the table.
LEMMA WrapMod ==
  ASSUME NEW m \in Nat \ {0}
  PROVE  /\ \A a \in 0 .. 2 * m - 1 : a % m = Wrapped(a, m) /\ Wrapped(a, m) \in 0 .. m - 1
         /\ \A a \in 0 .. 2 * m - 1 : (a + m) % m = Wrapped(a, m)
<1>1. ASSUME NEW a \in 0 .. 2 * m - 1
      PROVE  a % m = Wrapped(a, m) /\ Wrapped(a, m) \in 0 .. m - 1
  BY <1>1 DEF Wrapped
<1>2. ASSUME NEW a \in 0 .. 2 * m - 1 PROVE (a + m) % m = Wrapped(a, m)
  BY <1>2 DEF Wrapped
<1> QED BY <1>1, <1>2, Zenon

\* The sizes are of type uint16_t (tables.h); those that occur fit.
LEMMA ShortMod ==
  UINT16_MAX \in Nat /\ \A x \in 0 .. UINT16_MAX : x % (UINT16_MAX + 1) = x
<1>1. INT16_MAX \in Nat
  BY SMT DEF INT16_MAX
<1>2. UINT16_MAX \in Nat
  BY <1>1 DEF UINT16_MAX
<1> QED BY <1>2

\* The counter of a search is of type uint8_t (tables.c:627).
LEMMA CounterMod ==
  UINT8_MAX \in Nat /\ \A x \in 0 .. UINT8_MAX : x % (UINT8_MAX + 1) = x
<1>1. UINT8_MAX \in Nat
  BY SMT DEF UINT8_MAX
<1> QED BY <1>1

\* A table is small enough for its sizes.
LEMMA TableFits == MaxTable \in Nat /\ MaxTable \in 0 .. UINT16_MAX
<1>1. MaxTable \in 0 .. INT16_MAX
  BY TableAssumption, Zenon
<1>2. INT16_MAX \in Nat
  BY SMT DEF INT16_MAX
<1> QED BY <1>1, <1>2 DEF UINT16_MAX

\* The numbers of a table that holds headers: there is a cell more than the
\* headers occupy.
LEMMA HoldsNumbers ==
  ASSUME NEW t, NEW es, Holds(t, es)
  PROVE  /\ es \in Seq(Headers) /\ Len(es) \in Nat /\ t.n_entries = Len(es)
         /\ t.max_size \in 0 .. MaxTable /\ MaxTable \in 0 .. UINT16_MAX
         /\ t.actual_size \in 0 .. t.max_size /\ t.actual_size = Abs!SizeOf(es, Len(es))
         /\ t.first \in Nat /\ t.next \in Nat /\ t.buffer \in [0 .. MaxTable - 1 -> Nat]
         /\ Off(es, Len(es)) \in Nat /\ Off(es, Len(es)) + Len(es) <= t.max_size
         /\ Len(es) > 0 => /\ t.max_size \in Nat \ {0} /\ t.next \in 0 .. t.max_size - 1
                           /\ Off(es, Len(es)) \in 0 .. t.max_size - 1
<1>1. /\ es \in Seq(Headers) /\ t \in Tables /\ t.n_entries = Len(es)
      /\ t.actual_size = Abs!SizeOf(es, Len(es)) /\ t.actual_size <= t.max_size
      /\ t.next < t.max_size \/ t.next = 0
  BY Zenon DEF Holds
<1>2. /\ t.max_size \in 0 .. MaxTable /\ t.actual_size \in Nat
      /\ t.first \in Nat /\ t.next \in Nat /\ t.buffer \in [0 .. MaxTable - 1 -> Nat]
  BY <1>1 DEF Tables
<1>3. Len(es) \in Nat /\ MaxTable \in 0 .. UINT16_MAX
  BY <1>1, SeqParts, TableFits, Zenon
<1>4. Len(es) \in 0 .. Len(es)
  BY <1>3
<1>5. /\ Off(es, Len(es)) \in Nat /\ Abs!SizeOf(es, Len(es)) \in Nat
      /\ Off(es, Len(es)) + Len(es) <= Abs!SizeOf(es, Len(es))
  BY <1>1, <1>4, OffTypes, Zenon
<1>6. t.max_size \in Nat /\ t.actual_size \in 0 .. t.max_size
  BY <1>1, <1>2, <1>3
<1>7. Off(es, Len(es)) + Len(es) <= t.max_size
  BY <1>1, <1>3, <1>5, <1>6
<1>8. ASSUME Len(es) > 0
      PROVE  /\ t.max_size \in Nat \ {0} /\ t.next \in 0 .. t.max_size - 1
             /\ Off(es, Len(es)) \in 0 .. t.max_size - 1
  <2>1. ASSUME NEW o \in Nat, NEW l \in Nat, NEW m \in Nat, l > 0, o + l <= m
        PROVE  m # 0 /\ o \in 0 .. m - 1 /\ 0 \in 0 .. m - 1
    BY <2>1
  <2>2. ASSUME NEW x \in Nat, NEW m \in Nat, x < m PROVE x \in 0 .. m - 1
    BY <2>2
  <2>3. /\ t.max_size # 0 /\ Off(es, Len(es)) \in 0 .. t.max_size - 1
        /\ 0 \in 0 .. t.max_size - 1
    BY <1>3, <1>5, <1>6, <1>7, <1>8, <2>1, Zenon
  <2>4. t.next \in 0 .. t.max_size - 1
    BY <1>1, <1>2, <1>6, <2>2, <2>3, Zenon
  <2> QED BY <1>6, <2>3, <2>4, Zenon
<1> QED BY <1>1, <1>2, <1>3, <1>5, <1>6, <1>7, <1>8, Zenon

\* What the code reads is a character at some distance before next: from next
\* backwards, from the beginning of a string at distance p on (tables.c:96,
\* 133, 173).
LEMMA CellBack ==
  ASSUME NEW t, t.max_size \in Nat \ {0}, t.next \in 0 .. t.max_size - 1
  PROVE  /\ \A d \in 0 .. t.max_size - 1 : Cell(t, t.next, -d) = Back(t, d)
         /\ \A p \in 0 .. t.max_size - 1 : \A i \in 0 .. p :
              Cell(t, t.next - p, i) = Back(t, p - i)
<1> DEFINE m == t.max_size
           x == t.next
<1>1. ASSUME NEW d \in 0 .. m - 1 PROVE Cell(t, t.next, -d) = Back(t, d)
  <2>1. x + (-d) + m = x - d + m /\ x - d + m \in 0 .. 2 * m - 1
    BY <1>1
  <2>2. (x - d + m) % m = Wrapped(x - d + m, m)
    BY <2>1, WrapMod, Zenon
  <2> QED BY <2>1, <2>2, Zenon DEF Cell, Back
<1>2. ASSUME NEW p \in 0 .. m - 1, NEW i \in 0 .. p
      PROVE  Cell(t, t.next - p, i) = Back(t, p - i)
  <2>1. x - p + i + m = x - (p - i) + m /\ x - (p - i) + m \in 0 .. 2 * m - 1
    BY <1>2
  <2>2. (x - (p - i) + m) % m = Wrapped(x - (p - i) + m, m)
    BY <2>1, WrapMod, Zenon
  <2> QED BY <2>1, <2>2, Zenon DEF Cell, Back
<1> QED BY <1>1, <1>2, Zenon

\* So is what is read from first on (tables.c:249), u cells before next.
LEMMA CellForth ==
  ASSUME NEW t, t.max_size \in Nat \ {0}, t.next \in 0 .. t.max_size - 1,
         NEW u \in 0 .. t.max_size - 1,
         t.first = Wrapped(t.next - u + t.max_size, t.max_size)
  PROVE  /\ t.first \in 0 .. t.max_size - 1
         /\ \A j \in 0 .. u : Cell(t, t.first, j) = Back(t, u - j)
<1> DEFINE m == t.max_size
           x == t.next
           f == t.first
<1>1. x - u + m \in 0 .. 2 * m - 1
  OBVIOUS
<1>2. f \in 0 .. m - 1
  BY <1>1, WrapMod, Zenon
<1>3. ASSUME NEW j \in 0 .. u PROVE Cell(t, t.first, j) = Back(t, u - j)
  <2>1. f + j \in 0 .. 2 * m - 1
    BY <1>2
  <2>2. (f + j + m) % m = Wrapped(f + j, m)
    BY <2>1, WrapMod, Zenon
  <2>3. Wrapped(f + j, m) = Wrapped(x - (u - j) + m, m)
    BY <1>2 DEF Wrapped
  <2> QED BY <2>2, <2>3, Zenon DEF Cell, Back
<1> QED BY <1>2, <1>3, Zenon

-----------------------------------------------------------------------------
(* Zeros.                                                                    *)

\* Only the zeros of a header are zeros.
LEMMA EntryChars ==
  ASSUME NEW t, NEW e \in Headers, NEW p \in Nat, Cells(e) <= p, EntryAt(t, p, e)
  PROVE  /\ \A d \in p - Cells(e) + 1 .. p - Len(e[1]) - 2 : Back(t, d) # 0
         /\ \A d \in p - Len(e[1]) .. p - 1 : Back(t, d) # 0
         /\ p - Cells(e) \in Nat /\ p - Len(e[1]) - 1 \in Nat
         /\ p - Cells(e) < p - Len(e[1]) - 1 /\ p - Len(e[1]) - 1 < p
         /\ Back(t, p) = 0 /\ Back(t, p - Len(e[1]) - 1) = 0 /\ Back(t, p - Cells(e)) = 0
<1> DEFINE a == Len(e[1])
           b == Len(e[2])
<1>1. a \in Nat /\ b \in Nat /\ Cells(e) = a + b + 2
  BY HeaderParts, Zenon DEF Cells
<1>2. (\A i \in 1 .. a : e[1][i] # 0) /\ (\A i \in 1 .. b : e[2][i] # 0)
  <2>1. e[1] \in Seq(Nat \ {0}) /\ e[2] \in Seq(Nat \ {0})
    BY HeaderParts, Zenon
  <2>2. (\A i \in 1 .. a : e[1][i] \in Nat \ {0}) /\ (\A i \in 1 .. b : e[2][i] \in Nat \ {0})
    BY <2>1, SeqParts, Zenon
  <2> QED BY <2>2
<1>3. /\ \A i \in 1 .. a : Back(t, p - i) # 0
      /\ \A i \in 1 .. b : Back(t, p - a - 1 - i) # 0
      /\ Back(t, p) = 0 /\ Back(t, p - a - 1) = 0 /\ Back(t, p - Cells(e)) = 0
  BY <1>2, Zenon DEF EntryAt
<1> HIDE DEF a, b
<1>4. ASSUME NEW d \in p - Cells(e) + 1 .. p - a - 2 PROVE Back(t, d) # 0
  <2>1. p - a - 1 - d \in 1 .. b /\ p - a - 1 - (p - a - 1 - d) = d
    BY <1>1, <1>4
  <2> QED BY <1>3, <2>1
<1>5. ASSUME NEW d \in p - a .. p - 1 PROVE Back(t, d) # 0
  <2>1. p - d \in 1 .. a /\ p - (p - d) = d
    BY <1>1, <1>5
  <2> QED BY <1>3, <2>1
<1>6. /\ p - Cells(e) \in Nat /\ p - a - 1 \in Nat
      /\ p - Cells(e) < p - a - 1 /\ p - a - 1 < p
  BY <1>1
<1> QED BY <1>3, <1>4, <1>5, <1>6, Zenon DEF a

\* Zeros counts one more at the next zero.
LEMMA ZerosSkip ==
  ASSUME NEW t, t.max_size \in Nat \ {0}, t.next \in 0 .. t.max_size - 1,
         NEW a \in Nat, NEW c \in Nat, a < c, c < t.max_size,
         Back(t, c) = 0, \A d \in a + 1 .. c - 1 : Back(t, d) # 0
  PROVE  /\ Zeros(t, a) \in Nat /\ Zeros(t, c) = Zeros(t, a) + 1
         /\ \A i \in a .. c - 1 : Zeros(t, i) = Zeros(t, a)
<1> DEFINE Z(i) == {j \in 1 .. i : Cell(t, t.next, -j) = 0}
<1>1. \A j \in 1 .. c : Cell(t, t.next, -j) = Back(t, j)
  <2>1. \A j \in 1 .. c : j \in 0 .. t.max_size - 1
    OBVIOUS
  <2> QED BY <2>1, CellBack
<1>2. \A i \in a .. c - 1 : Z(i) = Z(a)
  <2> SUFFICES ASSUME NEW i \in a .. c - 1, NEW j
               PROVE  j \in Z(i) <=> j \in Z(a)
    BY Zenon
  <2>1. CASE j \in 1 .. a
    BY <2>1
  <2>2. CASE j \in a + 1 .. i
    <3>1. j \in 1 .. c /\ j \in a + 1 .. c - 1 /\ j \notin 1 .. a
      BY <2>2
    <3> QED BY <1>1, <3>1, Zenon
  <2>3. CASE j \notin 1 .. i
    BY <2>3
  <2> QED BY <2>1, <2>2, <2>3
<1>3. Z(c) = Z(c - 1) \cup {c} /\ c \notin Z(c - 1)
  <2>1. c \in 1 .. c /\ Cell(t, t.next, -c) = 0
    BY <1>1
  <2>2. \A j : j \in 1 .. c <=> j \in 1 .. c - 1 \/ j = c
    OBVIOUS
  <2>3. c \notin 1 .. c - 1
    OBVIOUS
  <2> QED BY <2>1, <2>2, <2>3, Zenon
<1>4. IsFiniteSet(Z(a)) /\ Cardinality(Z(a)) \in Nat
  <2>1. IsFiniteSet(1 .. a) /\ Z(a) \in SUBSET (1 .. a)
    <3>1. 1 \in Int /\ a \in Int
      OBVIOUS
    <3>2. IsFiniteSet(1 .. a)
      BY <3>1, FS_Interval, Zenon
    <3> QED BY <3>2, Zenon
  <2> HIDE DEF Z
  <2> QED BY <2>1, FS_Subset, FS_CardinalityType, Zenon
<1>5. c - 1 \in a .. c - 1
  OBVIOUS
<1>6. \A i : Zeros(t, i) = Cardinality(Z(i))
  BY Zenon DEF Zeros
<1> HIDE DEF Z
<1>7. Cardinality(Z(c)) = Cardinality(Z(a)) + 1
  <2>1. Z(c) = Z(a) \cup {c} /\ c \notin Z(a)
    BY <1>2, <1>3, <1>5, Zenon
  <2> QED BY <1>4, <2>1, FS_AddElement
<1> QED BY <1>2, <1>4, <1>6, <1>7, Zenon

\* The zero with which the k-th newest header begins is the 2 * k-th one
\* before next.
LEMMA ZerosAt ==
  ASSUME NEW t, NEW es, Holds(t, es)
  PROVE  \A k \in 0 .. Len(es) :
           /\ Zeros(t, Off(es, k)) = 2 * k
           /\ \A i \in 0 .. Off(es, k) - 1 : Zeros(t, i) \in Nat /\ Zeros(t, i) < 2 * k
<1> DEFINE P(k) == /\ Zeros(t, Off(es, k)) = 2 * k
                   /\ \A i \in 0 .. Off(es, k) - 1 : Zeros(t, i) \in Nat /\ Zeros(t, i) < 2 * k
           T == {k \in Nat : P(k)}
<1>1. es \in Seq(Headers) /\ Len(es) \in Nat
  BY HoldsNumbers, Zenon
<1>2. 0 \in T
  <2>1. Off(es, 0) = 0
    BY <1>1, OffStep
  <2>2. {j \in 1 .. 0 : Cell(t, t.next, -j) = 0} = {}
    OBVIOUS
  <2>3. Zeros(t, 0) = 0
    BY <2>2, FS_EmptySet, Zenon DEF Zeros
  <2> QED BY <2>1, <2>3
<1>3. ASSUME NEW k \in 0 .. Len(es) - 1, k \in T PROVE k + 1 \in T
  <2> DEFINE e == es[k + 1]
             o == Off(es, k)
             p == Off(es, k + 1)
             c == p - Len(e[1]) - 1
  <2>1. k \in 0 .. Len(es) /\ k + 1 \in 1 .. Len(es) /\ k + 1 \in 0 .. Len(es) /\ Len(es) > 0
    BY <1>1
  <2>2. e \in Headers /\ p = o + Cells(e) /\ o \in Nat /\ p \in Nat
    BY <1>1, <2>1, OffStep, OffTypes, Zenon
  <2>3. EntryAt(t, p, e)
    BY <2>1, Zenon DEF Holds
  <2>4. /\ t.max_size \in Nat \ {0} /\ t.next \in 0 .. t.max_size - 1
        /\ Off(es, Len(es)) \in 0 .. t.max_size - 1
    BY <2>1, HoldsNumbers, Zenon
  <2>5. p < t.max_size
    <3>1. Len(es) \in 0 .. Len(es) /\ k + 1 <= Len(es)
      BY <1>1
    <3>2. p <= Off(es, Len(es))
      BY <1>1, <2>1, <3>1, OffMonotone, Zenon
    <3> QED BY <2>2, <2>4, <3>2
  <2>6. P(k)
    BY <1>3, Zenon
  <2> HIDE DEF e, o, p
  <2>7. Cells(e) \in Nat /\ Cells(e) <= p /\ p - Cells(e) = o
    <3>1. Cells(e) \in Nat
      BY <2>2, HeaderSize, Zenon
    <3> QED BY <2>2, <3>1
  <2>8. /\ \A d \in o + 1 .. c - 1 : Back(t, d) # 0
        /\ \A d \in c + 1 .. p - 1 : Back(t, d) # 0
        /\ c \in Nat /\ o < c /\ c < p /\ Back(t, c) = 0 /\ Back(t, p) = 0
    <3>1. /\ \A d \in p - Cells(e) + 1 .. p - Len(e[1]) - 2 : Back(t, d) # 0
          /\ \A d \in p - Len(e[1]) .. p - 1 : Back(t, d) # 0
          /\ p - Cells(e) \in Nat /\ c \in Nat /\ p - Cells(e) < c /\ c < p
          /\ Back(t, c) = 0 /\ Back(t, p) = 0
      <4>1. /\ \A d \in p - Cells(e) + 1 .. p - Len(e[1]) - 2 : Back(t, d) # 0
            /\ \A d \in p - Len(e[1]) .. p - 1 : Back(t, d) # 0
            /\ p - Cells(e) \in Nat /\ p - Len(e[1]) - 1 \in Nat
            /\ p - Cells(e) < p - Len(e[1]) - 1 /\ p - Len(e[1]) - 1 < p
            /\ Back(t, p) = 0 /\ Back(t, p - Len(e[1]) - 1) = 0
        <5> HIDE DEF c
        <5>1. e \in Headers /\ p \in Nat /\ Cells(e) <= p
          BY <2>2, <2>7, Zenon
        <5> QED BY <2>3, <5>1, EntryChars, Zenon
      <4> QED BY <4>1, Zenon
    <3>2. Len(e[1]) \in Nat /\ c - 1 = p - Len(e[1]) - 2 /\ c + 1 = p - Len(e[1])
      BY <2>2, HeaderParts
    <3> QED BY <2>7, <3>1, <3>2
  <2> HIDE DEF c
  <2>9. Zeros(t, o) = 2 * k /\ (\A i \in 0 .. o - 1 : Zeros(t, i) \in Nat /\ Zeros(t, i) < 2 * k)
    BY <2>6, Zenon DEF o
  <2>10. Zeros(t, c) = Zeros(t, o) + 1 /\ \A i \in o .. c - 1 : Zeros(t, i) = Zeros(t, o)
    <3>1. c < t.max_size
      BY <2>2, <2>4, <2>5, <2>8
    <3> QED BY <2>2, <2>4, <2>8, <3>1, ZerosSkip, ZenonT(30)
  <2>11. Zeros(t, p) = Zeros(t, c) + 1 /\ \A i \in c .. p - 1 : Zeros(t, i) = Zeros(t, c)
    BY <2>2, <2>4, <2>5, <2>8, ZerosSkip, ZenonT(30)
  <2>12. ASSUME NEW i \in 0 .. p - 1 PROVE Zeros(t, i) \in Nat /\ Zeros(t, i) < 2 * (k + 1)
    <3>1. i \in 0 .. o - 1 \/ i \in o .. c - 1 \/ i \in c .. p - 1
      BY <2>2, <2>8, <2>12
    <3>2. \/ Zeros(t, i) \in Nat /\ Zeros(t, i) < 2 * k
          \/ Zeros(t, i) = Zeros(t, o) \/ Zeros(t, i) = Zeros(t, c)
      BY <2>9, <2>10, <2>11, <3>1, Zenon
    <3> QED BY <2>9, <2>10, <3>2
  <2>13. P(k + 1)
    <3>1. Zeros(t, p) = 2 * (k + 1)
      BY <2>9, <2>10, <2>11
    <3> QED BY <2>12, <3>1, Zenon DEF p
  <2>14. k + 1 \in Nat
    OBVIOUS
  <2> QED BY <2>13, <2>14, Zenon
<1> HIDE DEF T
<1>4. \A k \in 0 .. Len(es) : k \in T
  BY <1>1, <1>2, <1>3, Induction, Zenon
<1> QED BY <1>4, Zenon DEF T

-----------------------------------------------------------------------------
(* Reading.                                                                  *)

\* The string s begins at distance p before next.
StringAt(t, p, s) ==
  /\ \A i \in 1 .. Len(s) : Back(t, p - i) = s[i]
  /\ Back(t, p - Len(s) - 1) = 0

\* The position of an index is the distance at which its header begins.
LEMMA PosOf ==
  ASSUME NEW t, NEW es, Holds(t, es), NEW k \in 1 .. Len(es)
  PROVE  /\ Off(es, k) \in 1 .. t.max_size - 1
         /\ hpack_tables_dynamic_pos_of_index(t, k) = Off(es, k)
<1> DEFINE p == Off(es, k)
<1>1. /\ es \in Seq(Headers) /\ Len(es) \in Nat /\ Len(es) > 0
      /\ k - 1 \in 0 .. Len(es) - 1 /\ (k - 1) + 1 = k /\ k \in 0 .. Len(es) /\ k <= Len(es)
      /\ Len(es) \in 0 .. Len(es) /\ k - 1 \in 0 .. Len(es)
  <2>1. es \in Seq(Headers) /\ Len(es) \in Nat
    BY HoldsNumbers, Zenon
  <2> QED BY <2>1
<1>2. t.max_size \in Nat \ {0} /\ Off(es, Len(es)) \in 0 .. t.max_size - 1
  BY <1>1, HoldsNumbers, Zenon
<1>3. p \in Nat /\ p <= Off(es, Len(es)) /\ Off(es, k - 1) \in Nat
  BY <1>1, OffTypes, OffMonotone, Zenon
<1>4. es[k] \in Headers /\ p = Off(es, k - 1) + Cells(es[k])
  <2>1. es[(k - 1) + 1] \in Headers /\ Off(es, (k - 1) + 1) = Off(es, k - 1) + Cells(es[(k - 1) + 1])
    BY <1>1, OffStep, Zenon
  <2> QED BY <1>1, <2>1
<1>5. Cells(es[k]) \in Nat /\ Cells(es[k]) >= 2
  BY <1>4, HeaderSize, Zenon
<1>6. p \in 1 .. t.max_size - 1
  BY <1>2, <1>3, <1>4, <1>5
<1>7. Zeros(t, p) = 2 * k /\ \A i \in 0 .. p - 1 : Zeros(t, i) \in Nat /\ Zeros(t, i) < 2 * k
  BY <1>1, ZerosAt, Zenon
<1> HIDE DEF p
<1>8. ASSUME NEW i \in Nat, Zeros(t, i) = 2 * k PROVE p <= i
  <2> SUFFICES ASSUME i < p PROVE FALSE
    BY <1>3
  <2>1. i \in 0 .. p - 1
    BY <1>3
  <2>2. Zeros(t, i) \in Nat /\ Zeros(t, i) < 2 * k
    BY <1>7, <2>1, Zenon
  <2> QED BY <1>8, <2>2
<1> DEFINE D == {i \in 1 .. t.max_size - 1 : Zeros(t, i) = 2 * k}
<1>9. D \subseteq Nat
  BY <1>2
<1>10. p \in D
  BY <1>6, <1>7
<1>11. \A y \in D : p <= y
  BY <1>8, <1>9, Zenon
<1> HIDE DEF D
<1>12. First(D) = p
  BY <1>9, <1>10, <1>11, MinIs, Zenon
<1> QED BY <1>6, <1>12, Zenon DEF p, D, hpack_tables_dynamic_pos_of_index

\* hpack_tables_dynamic_copy_to_ext reads the string that begins there.
LEMMA CopyString ==
  ASSUME NEW t, t.max_size \in Nat \ {0}, t.next \in 0 .. t.max_size - 1,
         NEW s \in Seq(Nat \ {0}), NEW p \in 0 .. t.max_size - 1, Len(s) + 1 <= p,
         StringAt(t, p, s)
  PROVE  hpack_tables_dynamic_copy_to_ext(t, p) = s
<1> DEFINE n == Len(s) + 1
           D == {i \in 1 .. t.max_size - 1 : Cell(t, t.next - p, i) = 0}
<1>1. Len(s) \in Nat /\ \A i \in 1 .. Len(s) : s[i] \in Nat \ {0}
  BY SeqParts, Zenon
<1>2. \A i \in 0 .. p : Cell(t, t.next - p, i) = Back(t, p - i)
  BY CellBack, Zenon
<1>3. \A i \in 1 .. Len(s) : Cell(t, t.next - p, i) = s[i]
  <2>1. \A i \in 1 .. Len(s) : i \in 0 .. p
    BY <1>1
  <2> QED BY <1>2, <2>1, Zenon DEF StringAt
<1>4. Cell(t, t.next - p, n) = 0
  <2>1. n \in 0 .. p /\ p - n = p - Len(s) - 1
    BY <1>1
  <2> QED BY <1>2, <2>1, Zenon DEF StringAt
<1>5. D \subseteq Nat /\ n \in D
  BY <1>1, <1>4
<1>6. ASSUME NEW y \in D PROVE n <= y
  <2> SUFFICES ASSUME ~(n <= y) PROVE FALSE
    OBVIOUS
  <2>1. y \in Nat /\ y \in 1 .. t.max_size - 1
    OBVIOUS
  <2>2. y \in 1 .. Len(s)
    BY <1>1, <2>1
  <2>3. Cell(t, t.next - p, y) = 0 /\ s[y] # 0
    BY <1>1, <2>2
  <2> QED BY <1>3, <2>2, <2>3
<1> HIDE DEF D
<1>7. First(D) = n
  BY <1>5, <1>6, MinIs, Zenon
<1>8. hpack_tables_dynamic_copy_to_ext(t, p) = [i \in 1 .. n - 1 |-> Cell(t, t.next - p, i)]
  BY <1>7, Zenon DEF hpack_tables_dynamic_copy_to_ext, D
<1>9. n - 1 = Len(s)
  BY <1>1
<1>10. s = [i \in 1 .. Len(s) |-> s[i]]
  BY <1>1
<1> HIDE DEF n
<1>11. [i \in 1 .. Len(s) |-> Cell(t, t.next - p, i)] = [i \in 1 .. Len(s) |-> s[i]]
  BY <1>3, Zenon
<1> QED BY <1>8, <1>9, <1>10, <1>11, Zenon

\* The two strings of a header.
LEMMA EntryStrings ==
  ASSUME NEW t, NEW es, Holds(t, es), NEW k \in 1 .. Len(es)
  PROVE  LET e == es[k]
             p == Off(es, k)
         IN  /\ t.max_size \in Nat \ {0} /\ t.next \in 0 .. t.max_size - 1
             /\ e \in Headers /\ p \in 1 .. t.max_size - 1
             /\ Len(e[1]) + 1 <= p /\ StringAt(t, p, e[1])
             /\ p - Len(e[1]) - 1 \in 0 .. t.max_size - 1
             /\ Len(e[2]) + 1 <= p - Len(e[1]) - 1 /\ StringAt(t, p - Len(e[1]) - 1, e[2])
<1> DEFINE e == es[k]
           p == Off(es, k)
<1>1. es \in Seq(Headers) /\ Len(es) \in Nat
  BY HoldsNumbers, Zenon
<1>2. Len(es) > 0 /\ k - 1 \in 0 .. Len(es) - 1 /\ (k - 1) + 1 = k /\ k - 1 \in 0 .. Len(es)
  BY <1>1
<1>3. t.max_size \in Nat \ {0} /\ t.next \in 0 .. t.max_size - 1
  BY <1>2, HoldsNumbers, Zenon
<1>4. e \in Headers /\ p = Off(es, k - 1) + Cells(e)
  <2>1. es[(k - 1) + 1] \in Headers /\ Off(es, (k - 1) + 1) = Off(es, k - 1) + Cells(es[(k - 1) + 1])
    BY <1>1, <1>2, OffStep, Zenon
  <2> QED BY <1>2, <2>1
<1>5. Off(es, k - 1) \in Nat /\ p \in 1 .. t.max_size - 1
  BY <1>1, <1>2, OffTypes, PosOf, Zenon
<1>6. EntryAt(t, p, e)
  BY Zenon DEF Holds
<1> HIDE DEF e, p
<1>7. Len(e[1]) \in Nat /\ Len(e[2]) \in Nat /\ Cells(e) = Len(e[1]) + Len(e[2]) + 2
  BY <1>4, HeaderParts, Zenon DEF Cells
<1>8. StringAt(t, p, e[1])
  BY <1>6, Zenon DEF EntryAt, StringAt
<1>9. StringAt(t, p - Len(e[1]) - 1, e[2])
  <2>1. p - Len(e[1]) - 1 - Len(e[2]) - 1 = p - Cells(e)
    BY <1>5, <1>7
  <2> QED BY <1>6, <2>1, Zenon DEF EntryAt, StringAt
<1>10. /\ Len(e[1]) + 1 <= p /\ p - Len(e[1]) - 1 \in 0 .. t.max_size - 1
       /\ Len(e[2]) + 1 <= p - Len(e[1]) - 1
  <2>1. PICK a \in Nat, b \in Nat, o \in Nat :
          a = Len(e[1]) /\ b = Len(e[2]) /\ o = Off(es, k - 1)
    BY <1>5, <1>7, Zenon
  <2>2. p = o + (a + b + 2)
    BY <1>4, <1>7, <2>1, Zenon
  <2>3. a + 1 <= p /\ p - a - 1 \in 0 .. t.max_size - 1 /\ b + 1 <= p - a - 1
    BY <1>3, <1>5, <2>2
  <2> QED BY <2>1, <2>3, Zenon
<1> QED BY <1>3, <1>4, <1>5, <1>8, <1>9, <1>10, Zenon DEF e, p

\* The decoder reads, for an index, the header that the table holds there.
LEMMA ReadsEntry ==
  ASSUME NEW t, NEW es, Holds(t, es), NEW k \in 1 .. Len(es)
  PROVE  hpack_tables_dynamic_find_entry_name_and_value(t, k) = es[k]
<1> DEFINE e == es[k]
           p == Off(es, k)
           string == [pos \in Int |-> hpack_tables_dynamic_copy_to_ext(t, pos)]
           header == [pos \in Int |-> <<string[pos], string[pos - Len(string[pos]) - 1]>>]
<1>1. /\ t.max_size \in Nat \ {0} /\ t.next \in 0 .. t.max_size - 1
      /\ e \in Headers /\ p \in 1 .. t.max_size - 1
      /\ Len(e[1]) + 1 <= p /\ StringAt(t, p, e[1])
      /\ p - Len(e[1]) - 1 \in 0 .. t.max_size - 1
      /\ Len(e[2]) + 1 <= p - Len(e[1]) - 1 /\ StringAt(t, p - Len(e[1]) - 1, e[2])
  BY EntryStrings, Zenon
<1>2. hpack_tables_dynamic_pos_of_index(t, k) = p
  BY PosOf, Zenon
<1> HIDE DEF e, p
<1>3. p \in 0 .. t.max_size - 1 /\ p \in Int /\ p - Len(e[1]) - 1 \in Int
  BY <1>1
<1>4. /\ e[1] \in Seq(Nat \ {0}) /\ e[2] \in Seq(Nat \ {0}) /\ e = <<e[1], e[2]>>
  BY <1>1, HeaderParts, Zenon
<1>5. hpack_tables_dynamic_copy_to_ext(t, p) = e[1]
  BY <1>1, <1>3, <1>4, CopyString, Zenon
<1>6. hpack_tables_dynamic_copy_to_ext(t, p - Len(e[1]) - 1) = e[2]
  BY <1>1, <1>4, CopyString, Zenon
<1>7. string[p] = e[1] /\ string[p - Len(e[1]) - 1] = e[2]
  BY <1>3, <1>5, <1>6, Zenon
<1> HIDE DEF string
<1>8. header[p] = <<e[1], e[2]>>
  BY <1>3, <1>7, Zenon
<1>9. hpack_tables_dynamic_find_entry_name_and_value(t, k) = header[p]
  BY <1>2, Zenon DEF hpack_tables_dynamic_find_entry_name_and_value, string
<1> QED BY <1>4, <1>8, <1>9, Zenon DEF e

-----------------------------------------------------------------------------
(* Removing entries.                                                         *)

\* The loop of pop finds the end of the oldest header.
LEMMA OldestEndIs ==
  ASSUME NEW t, NEW es, Holds(t, es), Len(es) > 0
  PROVE  OldestEnd(t) = Cells(es[Len(es)])
<1> DEFINE n == Len(es)
           e == es[n]
           u == Off(es, n)
           c == Cells(e)
           a == Len(e[1]) + 1
           Z(i) == {j \in 1 .. i : Cell(t, t.first, j) = 0}
           D == {i \in 1 .. t.max_size - 1 : Cardinality(Z(i)) = 2}
<1>1. n \in Nat /\ n \in 1 .. n
  <2>1. n \in Nat
    BY HoldsNumbers, Zenon
  <2> QED BY <2>1
<1>2. /\ t.max_size \in Nat \ {0} /\ t.next \in 0 .. t.max_size - 1
      /\ e \in Headers /\ u \in 1 .. t.max_size - 1 /\ u \in 0 .. t.max_size - 1
  BY <1>1, EntryStrings, HoldsNumbers, Zenon
<1>3. EntryAt(t, u, e) /\ t.first = Wrapped(t.next - u + t.max_size, t.max_size)
  BY <1>1, Zenon DEF Holds
<1>4. c \in Nat /\ c >= 2 /\ c <= u
  <2>1. c \in Nat /\ c >= 2
    BY <1>2, HeaderSize, Zenon
  <2>2. n - 1 \in 0 .. n - 1 /\ n - 1 \in 0 .. n /\ (n - 1) + 1 = n
    BY <1>1
  <2>3. Off(es, (n - 1) + 1) = Off(es, n - 1) + Cells(es[(n - 1) + 1]) /\ Off(es, n - 1) \in Nat
    BY <2>2, OffStep, OffTypes, HoldsNumbers, Zenon
  <2>4. u = Off(es, n - 1) + c
    BY <2>2, <2>3
  <2> HIDE DEF u, c
  <2> QED BY <2>1, <2>3, <2>4
<1>5. \A j \in 0 .. u : Cell(t, t.first, j) = Back(t, u - j)
  BY <1>2, <1>3, CellForth, Zenon
<1> HIDE DEF u, e
<1>6. /\ \A d \in u - c + 1 .. u - Len(e[1]) - 2 : Back(t, d) # 0
      /\ \A d \in u - Len(e[1]) .. u - 1 : Back(t, d) # 0
      /\ Back(t, u - Len(e[1]) - 1) = 0 /\ Back(t, u - c) = 0
      /\ u - c < u - Len(e[1]) - 1 /\ u - Len(e[1]) - 1 < u
  <2>1. u \in Nat
    BY <1>2
  <2>2. e \in Headers /\ Cells(e) <= u /\ EntryAt(t, u, e)
    BY <1>2, <1>3, <1>4, Zenon
  <2> QED BY <2>1, <2>2, EntryChars, Zenon
<1>7. Len(e[1]) \in Nat
  BY <1>2, HeaderParts, Zenon
<1> HIDE DEF c, n
<1>8. a \in 1 .. c - 1 /\ a \in 0 .. u /\ u - a = u - Len(e[1]) - 1
  <2>1. u \in Nat
    BY <1>2
  <2>2. u - c < u - Len(e[1]) - 1
    BY <1>6, Zenon
  <2> QED BY <1>4, <1>7, <2>1, <2>2
<1>9. Cell(t, t.first, a) = 0 /\ Cell(t, t.first, c) = 0
  <2>1. c \in 0 .. u
    BY <1>2, <1>4
  <2> QED BY <1>5, <1>6, <1>8, <2>1, Zenon
<1>10. ASSUME NEW j \in 1 .. c - 1, j # a PROVE Cell(t, t.first, j) # 0
  <2>1. j \in 0 .. u
    BY <1>2, <1>4, <1>10
  <2>2. u - j \in u - c + 1 .. u - Len(e[1]) - 2 \/ u - j \in u - Len(e[1]) .. u - 1
    BY <1>2, <1>4, <1>7, <1>10
  <2> QED BY <1>5, <1>6, <2>1, <2>2, Zenon
<1> HIDE DEF a
<1>11. Z(c) = {a} \cup {c} /\ c \notin {a}
  <2>1. \A j : j \in 1 .. c <=> j \in 1 .. c - 1 \/ j = c
    BY <1>4
  <2>2. c # a
    BY <1>4, <1>8
  <2> QED BY <1>8, <1>9, <1>10, <2>1, <2>2, Zenon
<1>12. Cardinality(Z(c)) = 2
  <2>1. IsFiniteSet({a}) /\ Cardinality({a}) = 1
    BY FS_Singleton, Zenon
  <2> HIDE DEF Z
  <2>2. Cardinality(Z(c)) = Cardinality({a}) + 1
    BY <1>11, <2>1, FS_AddElement, Zenon
  <2> QED BY <2>1, <2>2
<1>13. ASSUME NEW i \in D PROVE c <= i
  <2> SUFFICES ASSUME ~(c <= i) PROVE FALSE
    OBVIOUS
  <2>1. i \in 1 .. c - 1
    BY <1>2, <1>4
  <2>2. \A j \in 1 .. i : j \in 1 .. c - 1
    BY <1>4, <2>1
  <2>3. Z(i) \in SUBSET {a}
    BY <1>10, <2>2, Zenon
  <2>4. IsFiniteSet({a}) /\ Cardinality({a}) = 1
    BY FS_Singleton, Zenon
  <2>5. Cardinality(Z(i)) = 2
    BY Zenon
  <2> HIDE DEF Z
  <2>6. Cardinality(Z(i)) <= 1
    BY <2>3, <2>4, FS_Subset, ZenonT(30)
  <2> QED BY <2>5, <2>6
<1>14. D \subseteq Nat
  BY <1>2
<1>15. c \in D
  BY <1>2, <1>4, <1>12
<1> HIDE DEF D
<1>16. First(D) = c
  BY <1>13, <1>14, <1>15, MinIs, Zenon
<1> QED BY <1>16, Zenon DEF OldestEnd, D, c, e, n

\* Two tables with the same buffer, next and size have the same characters.
LEMMA EntrySame ==
  ASSUME NEW t, NEW u, u.buffer = t.buffer, u.next = t.next, u.max_size = t.max_size,
         NEW p, NEW e, EntryAt(t, p, e)
  PROVE  EntryAt(u, p, e)
  BY Zenon DEF EntryAt, Back

\* What pop leaves alone.
Rest(t) == <<t.buffer, t.next, t.max_size, t.settings_max_table_size>>

\* hpack_tables_dynamic_pop removes the oldest header, and the size stays that
\* of the others.
LEMMA PopHolds ==
  ASSUME NEW t, NEW es, Holds(t, es), Len(es) > 0
  PROVE  /\ Holds(hpack_tables_dynamic_pop(t), SubSeq(es, 1, Len(es) - 1))
         /\ Rest(hpack_tables_dynamic_pop(t)) = Rest(t)
<1> DEFINE n == Len(es)
           ps == SubSeq(es, 1, n - 1)
           c == Cells(es[n])
           z == Abs!Size(es[n])
           v == hpack_tables_dynamic_pop(t)
           u == Off(es, n)
           m == t.max_size
<1>1. /\ es \in Seq(Headers) /\ n \in Nat /\ t.n_entries = n
      /\ m \in 0 .. MaxTable /\ MaxTable \in 0 .. UINT16_MAX
      /\ t.actual_size \in 0 .. m /\ t.actual_size = Abs!SizeOf(es, n)
      /\ m \in Nat \ {0} /\ t.next \in 0 .. m - 1 /\ u \in 0 .. m - 1
  BY HoldsNumbers, Zenon
<1>2. t \in Tables /\ t.first = Wrapped(t.next - u + m, m)
  BY Zenon DEF Holds
<1>3. /\ n \in 1 .. n /\ n - 1 \in 0 .. n - 1 /\ n - 1 \in 0 .. n /\ (n - 1) + 1 = n
      /\ \A k \in 1 .. n - 1 : k \in 1 .. n /\ k \in 0 .. n - 1
  BY <1>1
<1>4. /\ es[n] \in Headers /\ u = Off(es, n - 1) + c
      /\ Abs!SizeOf(es, n) = Abs!SizeOf(es, n - 1) + z
      /\ Off(es, n - 1) \in Nat /\ Abs!SizeOf(es, n - 1) \in Nat
  <2>1. /\ es[(n - 1) + 1] \in Headers
        /\ Off(es, (n - 1) + 1) = Off(es, n - 1) + Cells(es[(n - 1) + 1])
        /\ Abs!SizeOf(es, (n - 1) + 1) = Abs!SizeOf(es, n - 1) + Abs!Size(es[(n - 1) + 1])
    BY <1>1, <1>3, OffStep, Zenon
  <2>2. Off(es, n - 1) \in Nat /\ Abs!SizeOf(es, n - 1) \in Nat
    BY <1>1, <1>3, OffTypes, Zenon
  <2> QED BY <1>3, <2>1, <2>2
<1>5. c \in Nat /\ c >= 2 /\ z \in Nat /\ c - 2 + Overhead = z
  BY <1>4, HeaderSize, Zenon
<1>6. OldestEnd(t) = c
  BY OldestEndIs, Zenon
<1>7. /\ ps \in Seq(Headers) /\ Len(ps) = n - 1
      /\ \A k \in 1 .. n - 1 : ps[k] = es[k] /\ Off(ps, k) = Off(es, k)
      /\ Off(ps, n - 1) = Off(es, n - 1) /\ Abs!SizeOf(ps, n - 1) = Abs!SizeOf(es, n - 1)
  BY <1>1, <1>3, OffPrefix, Zenon
<1> HIDE DEF c, z, ps, u, n
<1>8. v = [t EXCEPT !.first = (t.first + c) % m,
                    !.actual_size = (t.actual_size - z) % (UINT16_MAX + 1),
                    !.n_entries = n - 1]
  <2>1. c # ERROR /\ t.n_entries # 0
    <3>1. n > 0
      BY Zenon DEF n
    <3> QED BY <1>1, <1>5, <3>1 DEF ERROR
  <2>2. v = [t EXCEPT !.first = (t.first + c) % m,
                      !.actual_size = (t.actual_size - (c - 2 + Overhead)) % (UINT16_MAX + 1),
                      !.n_entries = t.n_entries - 1]
    BY <1>6, <2>1, Zenon DEF hpack_tables_dynamic_pop
  <2> QED BY <1>1, <1>5, <2>2, Zenon
<1>9. (t.actual_size - z) % (UINT16_MAX + 1) = Abs!SizeOf(es, n - 1)
  <2>1. PICK x \in Nat : x = Abs!SizeOf(es, n - 1)
    BY <1>4, Zenon
  <2>2. t.actual_size = x + z /\ t.actual_size \in 0 .. m /\ m \in 0 .. MaxTable
        /\ MaxTable \in 0 .. UINT16_MAX
    BY <1>1, <1>4, <2>1, Zenon
  <2>3. t.actual_size - z = x /\ x \in 0 .. UINT16_MAX
    BY <1>5, <2>2, ShortMod
  <2> QED BY <2>1, <2>3, ShortMod, Zenon
<1>10. (t.first + c) % m = Wrapped(t.next - Off(es, n - 1) + m, m) /\ (t.first + c) % m \in Nat
  <2>1. PICK o \in Nat : o = Off(es, n - 1)
    BY <1>4, Zenon
  <2>2. t.first = Wrapped(t.next - (o + c) + m, m) /\ o + c \in 0 .. m - 1
    BY <1>1, <1>2, <1>4, <2>1, Zenon
  <2>3. /\ t.first + c \in 0 .. 2 * m - 1
        /\ Wrapped(t.first + c, m) = Wrapped(t.next - o + m, m)
        /\ Wrapped(t.next - o + m, m) \in Nat
    <3>1. PICK w \in Nat \ {0}, x \in Nat : w = m /\ x = t.next /\ x \in 0 .. w - 1
      BY <1>1
    <3>2. PICK f : f = t.first
      BY Zenon
    <3>3. /\ c \in Nat /\ o + c \in 0 .. w - 1 /\ x \in 0 .. w - 1
          /\ f = Wrapped(x - (o + c) + w, w)
      BY <1>5, <2>2, <3>1, <3>2, Zenon
    <3>4. /\ f + c \in 0 .. 2 * w - 1 /\ Wrapped(f + c, w) = Wrapped(x - o + w, w)
          /\ Wrapped(x - o + w, w) \in Nat
      BY <3>3 DEF Wrapped
    <3> QED BY <3>1, <3>2, <3>4, Zenon
  <2>4. (t.first + c) % m = Wrapped(t.first + c, m)
    BY <1>1, <2>3, WrapMod, Zenon
  <2> QED BY <2>1, <2>3, <2>4, Zenon
<1>11. /\ v \in Tables /\ v.buffer = t.buffer /\ v.next = t.next /\ v.max_size = m
       /\ v.settings_max_table_size = t.settings_max_table_size
       /\ v.n_entries = n - 1 /\ v.actual_size = Abs!SizeOf(es, n - 1)
       /\ v.first = Wrapped(t.next - Off(es, n - 1) + m, m)
  <2>1. n - 1 \in Nat
    BY <1>1, <1>3
  <2> DEFINE ff == (t.first + c) % m
             aa == (t.actual_size - z) % (UINT16_MAX + 1)
  <2>2. ff \in Nat /\ aa \in Nat
    BY <1>4, <1>9, <1>10, Zenon
  <2> HIDE DEF ff, aa, v
  <2>3. v = [t EXCEPT !.first = ff, !.actual_size = aa, !.n_entries = n - 1]
    BY <1>8, Zenon DEF ff, aa
  <2>4. /\ v \in Tables /\ v.buffer = t.buffer /\ v.next = t.next /\ v.max_size = m
        /\ v.settings_max_table_size = t.settings_max_table_size
        /\ v.n_entries = n - 1 /\ v.actual_size = aa /\ v.first = ff
    BY <1>2, <2>1, <2>2, <2>3, Zenon DEF Tables
  <2> QED BY <1>9, <1>10, <2>4, Zenon DEF ff, aa
<1> HIDE DEF v
<1>12. v.actual_size <= v.max_size
  BY <1>1, <1>4, <1>5, <1>11
<1>13. \A k \in 1 .. n - 1 : EntryAt(v, Off(ps, k), ps[k])
  <2>1. \A k \in 1 .. n - 1 : EntryAt(t, Off(es, k), es[k])
    BY <1>3, Zenon DEF Holds, n
  <2> QED BY <1>7, <1>11, <2>1, EntrySame, Zenon
<1>14. v.next < v.max_size
  BY <1>1, <1>11
<1>15. Holds(v, ps)
  BY <1>7, <1>11, <1>12, <1>13, <1>14, Zenon DEF Holds
<1> QED BY <1>11, <1>15, Zenon DEF Rest, v, ps, n

\* f is the function that the recursion of Popped defines, up to n.
PopsUpTo(f, t, n) ==
  f = [k \in 0 .. n |-> IF k = 0 THEN t ELSE hpack_tables_dynamic_pop(f[k - 1])]

\* The recursion defines a function.
LEMMA PopsExist ==
  ASSUME NEW t, NEW n \in Nat
  PROVE  \E f : PopsUpTo(f, t, n)
<1> DEFINE T == {i \in Nat : \E f : PopsUpTo(f, t, i)}
<1>1. 0 \in T
  <2>1. PopsUpTo([i \in 0 .. 0 |-> t], t, 0)
    BY DEF PopsUpTo
  <2> QED BY <2>1
<1>2. ASSUME NEW m \in 0 .. n - 1, m \in T PROVE m + 1 \in T
  <2>1. PICK f : PopsUpTo(f, t, m)
    BY <1>2
  <2> DEFINE pop(k) == hpack_tables_dynamic_pop(k)
             g == [i \in 0 .. m + 1 |-> IF i = m + 1 THEN pop(f[m]) ELSE f[i]]
  <2> HIDE DEF pop
  <2>2. ASSUME NEW i \in 0 .. m + 1 PROVE g[i] = IF i = 0 THEN t ELSE pop(g[i - 1])
    <3>1. CASE i = m + 1
      BY <3>1
    <3>2. CASE i # m + 1
      <4>1. i \in 0 .. m /\ (i # 0 => i - 1 \in 0 .. m)
        BY <2>2, <3>2
      <4>2. f[i] = IF i = 0 THEN t ELSE pop(f[i - 1])
        BY <2>1, <4>1, Zenon DEF PopsUpTo, pop
      <4> QED BY <4>1, <4>2
    <3> QED BY <3>1, <3>2
  <2>3. PopsUpTo(g, t, m + 1)
    <3> HIDE DEF g
    <3>1. g = [i \in 0 .. m + 1 |-> g[i]]
      BY DEF g
    <3> QED BY <2>2, <3>1, Zenon DEF PopsUpTo, pop
  <2>4. m + 1 \in Nat
    OBVIOUS
  <2> HIDE DEF g
  <2> QED BY <2>3, <2>4
<1> HIDE DEF T
<1>3. n \in T
  BY <1>1, <1>2, Induction
<1> QED BY <1>3 DEF T

\* The calls of pop by a loop, one after the other.
LEMMA PoppedStep ==
  ASSUME NEW t, t.n_entries \in Nat
  PROVE  /\ Popped(t)[0] = t
         /\ \A k \in 0 .. t.n_entries - 1 :
              Popped(t)[k + 1] = hpack_tables_dynamic_pop(Popped(t)[k])
<1> DEFINE f == Popped(t)
           n == t.n_entries
<1>1. PopsUpTo(f, t, n)
  <2>1. \E g : PopsUpTo(g, t, n)
    BY PopsExist, Zenon
  <2>2. f = CHOOSE g : PopsUpTo(g, t, n)
    BY Zenon DEF Popped, PopsUpTo
  <2> QED BY <2>1, <2>2, Zenon
<1> HIDE DEF f
<1>2. \A k \in 0 .. n : f[k] = IF k = 0 THEN t ELSE hpack_tables_dynamic_pop(f[k - 1])
  BY <1>1, Zenon DEF PopsUpTo
<1>3. 0 \in 0 .. n
  OBVIOUS
<1>4. f[0] = t
  BY <1>2, <1>3, Zenon
<1>5. ASSUME NEW k \in 0 .. n - 1 PROVE f[k + 1] = hpack_tables_dynamic_pop(f[k])
  <2>1. k + 1 \in 0 .. n /\ k + 1 # 0 /\ (k + 1) - 1 = k
    OBVIOUS
  <2>2. f[k + 1] = hpack_tables_dynamic_pop(f[(k + 1) - 1])
    BY <1>2, <2>1, Zenon
  <2> QED BY <2>1, <2>2, Zenon
<1> QED BY <1>4, <1>5, Zenon DEF f

\* After k of them the k oldest headers are gone.
LEMMA PoppedHolds ==
  ASSUME NEW t, NEW es, Holds(t, es)
  PROVE  \A k \in 0 .. Len(es) : /\ Holds(Popped(t)[k], SubSeq(es, 1, Len(es) - k))
                                 /\ Rest(Popped(t)[k]) = Rest(t)
<1> DEFINE n == Len(es)
           f == Popped(t)
           P(k) == Holds(f[k], SubSeq(es, 1, n - k)) /\ Rest(f[k]) = Rest(t)
           T == {k \in 0 .. n : P(k)}
<1>1. es \in Seq(Headers) /\ n \in Nat /\ t.n_entries = n
  BY HoldsNumbers, Zenon
<1>2. f[0] = t /\ \A k \in 0 .. n - 1 : f[k + 1] = hpack_tables_dynamic_pop(f[k])
  BY <1>1, PoppedStep, Zenon
<1> HIDE DEF f
<1>3. 0 \in T
  <2>1. SubSeq(es, 1, n - 0) = es
    BY <1>1
  <2>2. 0 \in 0 .. n
    BY <1>1
  <2> QED BY <1>2, <2>1, <2>2, Zenon
<1>4. ASSUME NEW k \in 0 .. n - 1, k \in T PROVE k + 1 \in T
  <2> DEFINE ps == SubSeq(es, 1, n - k)
  <2>1. Holds(f[k], ps) /\ Rest(f[k]) = Rest(t)
    BY <1>4, Zenon
  <2>2. n - k \in 0 .. n /\ n - k > 0 /\ k + 1 \in 0 .. n
    BY <1>1
  <2>3. Len(ps) = n - k
    BY <1>1, <2>2, OffPrefix, Zenon
  <2>4. SubSeq(ps, 1, Len(ps) - 1) = SubSeq(es, 1, n - (k + 1))
    BY <1>1, <2>2, <2>3
  <2> HIDE DEF ps
  <2>5. Len(ps) > 0
    BY <2>2, <2>3, Zenon
  <2>6. /\ Holds(hpack_tables_dynamic_pop(f[k]), SubSeq(ps, 1, Len(ps) - 1))
        /\ Rest(hpack_tables_dynamic_pop(f[k])) = Rest(f[k])
    BY <2>1, <2>5, PopHolds, Zenon
  <2>7. P(k + 1)
    BY <1>2, <2>1, <2>4, <2>6, Zenon
  <2> QED BY <2>2, <2>7, Zenon
<1> HIDE DEF T
<1>5. \A k \in 0 .. n : k \in T
  BY <1>1, <1>3, <1>4, Induction, Zenon
<1> QED BY <1>5, Zenon DEF T, f

\* The loops of add_entry and resize end, and leave as many of the newest
\* headers as fit into r.
LEMMA EvictedHolds ==
  ASSUME NEW t, NEW es, Holds(t, es), NEW r \in Nat
  PROVE  /\ Ends(t, r)
         /\ Holds(Evicted(t, r), Abs!Newest(es, r)) /\ Rest(Evicted(t, r)) = Rest(t)
         /\ Evicted(t, r).actual_size <= r
<1> DEFINE n == Len(es)
           S == {k \in 0 .. n : Popped(t)[k].actual_size <= r}
           N == {k \in 0 .. n : Abs!SizeOf(es, k) <= r}
<1>1. es \in Seq(Headers) /\ n \in Nat /\ t.n_entries = n
  BY HoldsNumbers, Zenon
<1>2. ASSUME NEW k \in 0 .. n
      PROVE  /\ n - k \in 0 .. n /\ n - (n - k) = k
             /\ Popped(t)[k].actual_size = Abs!SizeOf(es, n - k)
  <2>1. n - k \in 0 .. n /\ n - (n - k) = k /\ n - k \in 0 .. n - k
    BY <1>1
  <2>2. Holds(Popped(t)[k], SubSeq(es, 1, n - k))
    BY PoppedHolds, Zenon
  <2>3. /\ Len(SubSeq(es, 1, n - k)) = n - k
        /\ Abs!SizeOf(SubSeq(es, 1, n - k), n - k) = Abs!SizeOf(es, n - k)
    BY <1>1, <2>1, OffPrefix, Zenon
  <2>4. Popped(t)[k].actual_size = Abs!SizeOf(SubSeq(es, 1, n - k), Len(SubSeq(es, 1, n - k)))
    BY <2>2, Zenon DEF Holds
  <2> QED BY <2>1, <2>3, <2>4, Zenon
<1>3. n \in S
  <2>1. n \in 0 .. n /\ n - n = 0
    BY <1>1
  <2>2. Popped(t)[n].actual_size = 0
    BY <1>1, <1>2, <2>1, OffStep
  <2> QED BY <2>1, <2>2
<1>4. S \subseteq Nat /\ N \subseteq Nat
  BY <1>1
<1> HIDE DEF S
<1>5. PICK x \in S : \A y \in S : x <= y
  BY <1>3, <1>4, LeastNatural, Zenon
<1>6. x \in 0 .. n /\ Popped(t)[x].actual_size <= r
  BY <1>5 DEF S
<1>7. Min(S) = x
  BY <1>4, <1>5, MinIs, Zenon
<1>8. Ends(t, r) /\ Evicted(t, r) = Popped(t)[x]
  BY <1>1, <1>6, <1>7, Zenon DEF Ends, Evicted, S
<1>9. n - x \in N
  BY <1>2, <1>6
<1>10. ASSUME NEW k \in N PROVE k <= n - x
  <2>1. k \in 0 .. n /\ Abs!SizeOf(es, k) <= r
    OBVIOUS
  <2>2. n - k \in 0 .. n /\ n - (n - k) = k
    BY <1>1, <2>1
  <2>3. Popped(t)[n - k].actual_size = Abs!SizeOf(es, k)
    BY <1>2, <2>2
  <2>4. n - k \in S
    BY <2>1, <2>2, <2>3, Zenon DEF S
  <2>5. x <= n - k
    BY <1>5, <2>4, Zenon
  <2> QED BY <1>1, <1>6, <2>1, <2>5
<1> HIDE DEF N
<1>11. Max(N) = n - x
  BY <1>4, <1>9, <1>10, MaxIs, Zenon
<1>12. Abs!Newest(es, r) = SubSeq(es, 1, n - x)
  <2>1. Abs!Newest(es, r) = SubSeq(es, 1, Max(N))
    BY Zenon DEF Abs!Newest, N, Max, Abs!Max
  <2> QED BY <1>11, <2>1, Zenon
<1> QED BY <1>6, <1>8, <1>12, PoppedHolds, Zenon

-----------------------------------------------------------------------------
(* Adding an entry.                                                          *)

\* The character at distance j after next.
Ahead(t, j) == t.buffer[Wrapped(t.next + j, t.max_size)]

\* Wrapping around the buffer keeps cells apart, and inside the buffer.
LEMMA WrapApart ==
  ASSUME NEW m \in Nat \ {0}, NEW x \in 0 .. m - 1
  PROVE  \A i, j \in 0 .. m - 1 :
           /\ Wrapped(x + i, m) \in 0 .. m - 1
           /\ Wrapped(x + i, m) = Wrapped(x + j, m) => i = j
  BY DEF Wrapped

\* u is t but for the string s between two zeros, from distance pos after next
\* on.
IsCopy(u, t, pos, s) ==
  /\ u = [t EXCEPT !.buffer = u.buffer] /\ u \in Tables
  /\ u.max_size = t.max_size /\ u.next = t.next
  /\ Ahead(u, pos) = 0 /\ Ahead(u, pos + Len(s) + 1) = 0
  /\ \A i \in 1 .. Len(s) : Ahead(u, pos + i) = s[i]
  /\ \A j \in 0 .. t.max_size - 1 :
       j \notin pos .. pos + Len(s) + 1 => Ahead(u, j) = Ahead(t, j)

\* hpack_tables_dynamic_copy_from_ext writes the string between two zeros from
\* distance pos after next on, and nothing else.
LEMMA CopyFrom ==
  ASSUME NEW t \in Tables, t.max_size \in Nat \ {0}, t.next \in 0 .. t.max_size - 1,
         NEW pos \in Nat, NEW s \in Seq(Nat \ {0}), pos + Len(s) + 1 < t.max_size,
         NEW u, u = hpack_tables_dynamic_copy_from_ext(t, pos, s)
  PROVE  IsCopy(u, t, pos, s)
<1> DEFINE m == t.max_size
           x == t.next
           n == Len(s)
           at(i) == (x + pos + i) % m
           written == {at(i) : i \in 0 .. n + 1}
           Char(c) == CHOOSE i \in 0 .. n + 1 : at(i) = c
           new == [c \in DOMAIN t.buffer |->
                     IF c \notin written THEN t.buffer[c]
                     ELSE IF Char(c) \in 1 .. n THEN s[Char(c)] ELSE 0]
<1>1. n \in Nat /\ \A i \in 1 .. n : s[i] \in Nat
  <2>1. n \in Nat /\ \A i \in 1 .. n : s[i] \in Nat \ {0}
    BY SeqParts, Zenon
  <2> QED BY <2>1
<1>2. t.buffer \in [0 .. MaxTable - 1 -> Nat] /\ m \in 0 .. MaxTable
  <2>1. t.buffer \in [0 .. MaxTable - 1 -> Nat] /\ t.max_size \in 0 .. MaxTable
    <3> HIDE DEF n, new
    <3> QED BY DEF Tables
  <2> QED BY <2>1, Zenon
<1>3. DOMAIN t.buffer = 0 .. MaxTable - 1 /\ 0 .. m - 1 \subseteq 0 .. MaxTable - 1
  <2>1. DOMAIN t.buffer = 0 .. MaxTable - 1
    BY <1>2, Zenon
  <2>2. MaxTable \in Nat
    BY TableFits
  <2>3. m \in 0 .. MaxTable
    BY <1>2, Zenon
  <2> HIDE DEF m, n, x, new
  <2> QED BY <2>1, <2>2, <2>3
<1>4. u = [t EXCEPT !.buffer = new]
  BY Zenon DEF hpack_tables_dynamic_copy_from_ext
<1>5. ASSUME NEW i \in 0 .. n + 1
      PROVE  at(i) = Wrapped(x + (pos + i), m) /\ pos + i \in 0 .. m - 1
  <2>1. x + pos + i = x + (pos + i) /\ x + (pos + i) \in 0 .. 2 * m - 1 /\ pos + i \in 0 .. m - 1
    <3> HIDE DEF n, new
    <3>1. pos + n + 1 < m /\ m \in Nat \ {0} /\ x \in 0 .. m - 1
      BY Zenon DEF n
    <3> HIDE DEF m, x
    <3> QED BY <1>1, <3>1
  <2> QED BY <2>1, WrapMod, Zenon
<1> HIDE DEF m, x, n, new
<1>6. ASSUME NEW j \in 0 .. m - 1
      PROVE  /\ Wrapped(x + j, m) \in 0 .. m - 1 /\ Wrapped(x + j, m) \in DOMAIN t.buffer
         /\ \A i \in 0 .. m - 1 : Wrapped(x + i, m) = Wrapped(x + j, m) => i = j
  BY <1>3, WrapApart, Zenon DEF m, x
<1>7. ASSUME NEW i \in 0 .. n + 1
      PROVE  new[Wrapped(x + (pos + i), m)] = IF i \in 1 .. n THEN s[i] ELSE 0
  <2> DEFINE c == Wrapped(x + (pos + i), m)
  <2>1. c = at(i) /\ pos + i \in 0 .. m - 1 /\ c \in written /\ c \in DOMAIN t.buffer
    BY <1>5, <1>6, <1>7, Zenon
  <2>2. Char(c) \in 0 .. n + 1 /\ at(Char(c)) = at(i)
    BY <2>1, Zenon
  <2>3. pos + Char(c) = pos + i
    <3> HIDE DEF Char, c
    <3>1. pos + Char(c) \in 0 .. m - 1 /\ Wrapped(x + (pos + Char(c)), m) = Wrapped(x + (pos + i), m)
      BY <1>5, <2>2, Zenon
    <3> QED BY <1>6, <2>1, <3>1, Zenon
  <2> HIDE DEF Char
  <2>4. Char(c) = i
    <3>1. \A y \in 0 .. n + 1 : pos + y = pos + i => y = i
      BY <1>1
    <3> QED BY <2>2, <2>3, <3>1, Zenon
  <2> HIDE DEF c
  <2>5. new[c] = IF Char(c) \in 1 .. n THEN s[Char(c)] ELSE 0
    BY <2>1, Zenon DEF new, Char
  <2> QED BY <2>4, <2>5, Zenon DEF c
<1>8. ASSUME NEW j \in 0 .. m - 1, j \notin pos .. pos + n + 1
      PROVE  new[Wrapped(x + j, m)] = t.buffer[Wrapped(x + j, m)]
  <2>1. ASSUME NEW i \in 0 .. n + 1, at(i) = Wrapped(x + j, m) PROVE FALSE
    <3>1. pos + i = j
      BY <1>5, <1>6, <2>1, Zenon
    <3> QED BY <1>1, <1>8, <3>1
  <2>2. Wrapped(x + j, m) \notin written
    BY <2>1, Zenon
  <2> QED BY <1>6, <2>2, Zenon DEF new
<1>9. new \in [0 .. MaxTable - 1 -> Nat]
  <2>1. ASSUME NEW c \in 0 .. MaxTable - 1
        PROVE  (IF c \notin written THEN t.buffer[c]
                ELSE IF Char(c) \in 1 .. n THEN s[Char(c)] ELSE 0) \in Nat
    <3> HIDE DEF written, Char
    <3>1. t.buffer[c] \in Nat
      BY <1>2, <2>1, Zenon
    <3>2. 0 \in Nat
      OBVIOUS
    <3> QED BY <1>1, <3>1, <3>2, Zenon
  <2> QED BY <1>3, <2>1, Zenon DEF new
<1>10. u \in Tables /\ u.buffer = new /\ u.max_size = m /\ u.next = x
  <2> HIDE DEF written, Char
  <2> QED BY <1>4, <1>9, Zenon DEF Tables, m, x
<1>11. \A j : Ahead(u, j) = new[Wrapped(x + j, m)] /\ Ahead(t, j) = t.buffer[Wrapped(x + j, m)]
  BY <1>10, Zenon DEF Ahead, m, x
<1>12. Ahead(u, pos) = 0 /\ Ahead(u, pos + n + 1) = 0
  <2>1. /\ 0 \in 0 .. n + 1 /\ n + 1 \in 0 .. n + 1 /\ 0 \notin 1 .. n /\ n + 1 \notin 1 .. n
        /\ pos + 0 = pos /\ pos + (n + 1) = pos + n + 1
    BY <1>1
  <2>2. new[Wrapped(x + (pos + 0), m)] = 0 /\ new[Wrapped(x + (pos + (n + 1)), m)] = 0
    BY <1>7, <2>1, Zenon
  <2> QED BY <1>11, <2>1, <2>2, Zenon
<1>13. ASSUME NEW i \in 1 .. n PROVE Ahead(u, pos + i) = s[i]
  <2>1. i \in 0 .. n + 1
    BY <1>1, <1>13
  <2> QED BY <1>7, <1>11, <1>13, <2>1, Zenon
<1>14. ASSUME NEW j \in 0 .. m - 1, j \notin pos .. pos + n + 1 PROVE Ahead(u, j) = Ahead(t, j)
  BY <1>8, <1>11, <1>14, Zenon
<1>15. u = [t EXCEPT !.buffer = u.buffer]
  BY <1>4, <1>10, Zenon
<1> QED BY <1>10, <1>12, <1>13, <1>14, <1>15, Zenon DEF m, n, x, IsCopy

\* The characters of u, whose next is c cells after that of t.
IsShifted(u, t, m, c) ==
  /\ \A j \in 0 .. c : Back(u, c - j) = Ahead(t, j)
  /\ \A d \in 1 .. m - c - 1 : Back(u, d + c) = Ahead(t, m - d)

\* Once next has moved on by c cells, the characters after it are before it,
\* and those before it are c cells farther away.
LEMMA NextMoved ==
  ASSUME NEW t, NEW u, NEW m \in Nat \ {0}, NEW x \in 0 .. m - 1, NEW c \in 0 .. m - 1,
         t.max_size = m, t.next = x,
         u.max_size = m, u.buffer = t.buffer, u.next = Wrapped(x + c, m)
  PROVE  IsShifted(u, t, m, c)
<1>1. /\ \A j \in 0 .. c : Wrapped(Wrapped(x + c, m) - (c - j) + m, m) = Wrapped(x + j, m)
      /\ \A d \in 1 .. m - c - 1 :
           Wrapped(Wrapped(x + c, m) - (d + c) + m, m) = Wrapped(x + (m - d), m)
  BY DEF Wrapped
<1> QED BY <1>1, Zenon DEF Back, Ahead, IsShifted

\* The characters before next, seen from next on.
LEMMA BackAhead ==
  ASSUME NEW t, t.max_size \in Nat \ {0}, t.next \in 0 .. t.max_size - 1
  PROVE  /\ Back(t, 0) = Ahead(t, 0)
         /\ \A d \in 1 .. t.max_size - 1 : Back(t, d) = Ahead(t, t.max_size - d)
<1>1. t.next \in Nat
  OBVIOUS
<1>2. PICK m \in Nat \ {0}, x \in Nat : m = t.max_size /\ x = t.next
  BY <1>1, Zenon
<1>3. x \in 0 .. m - 1
  BY <1>2, Zenon
<1>4. /\ Wrapped(x - 0 + m, m) = Wrapped(x + 0, m)
      /\ \A d \in 1 .. m - 1 : Wrapped(x - d + m, m) = Wrapped(x + (m - d), m)
  BY <1>3 DEF Wrapped
<1> QED BY <1>2, <1>4, Zenon DEF Back, Ahead

\* What it takes for a header to be at distance p.
LEMMA EntryIs ==
  ASSUME NEW t, NEW p, NEW e, Back(t, p) = 0,
         \A i \in 1 .. Len(e[1]) : Back(t, p - i) = e[1][i],
         Back(t, p - Len(e[1]) - 1) = 0,
         \A i \in 1 .. Len(e[2]) : Back(t, p - Len(e[1]) - 1 - i) = e[2][i],
         Back(t, p - Cells(e)) = 0
  PROVE  EntryAt(t, p, e)
  BY Zenon DEF EntryAt

\* A header is where the characters of it are.
LEMMA EntryMoved ==
  ASSUME NEW t, NEW u, NEW c \in Nat, NEW p \in Nat, NEW e \in Headers, Cells(e) <= p,
         EntryAt(t, p, e), \A d \in 0 .. p : Back(u, d + c) = Back(t, d)
  PROVE  EntryAt(u, p + c, e)
<1>1. PICK a \in Nat, b \in Nat : a = Len(e[1]) /\ b = Len(e[2]) /\ Cells(e) = a + b + 2
  BY HeaderParts, Zenon DEF Cells
<1>2. a + b + 2 <= p
  BY <1>1, Zenon
<1>3. p \in 0 .. p /\ p - a - 1 \in 0 .. p /\ p - (a + b + 2) \in 0 .. p
  BY <1>2
<1>4. (p + c) - a - 1 = p - a - 1 + c /\ (p + c) - (a + b + 2) = p - (a + b + 2) + c
  OBVIOUS
<1>5. \A i \in 1 .. a : p - i \in 0 .. p /\ (p + c) - i = p - i + c
  BY <1>2
<1>6. \A i \in 1 .. b : p - a - 1 - i \in 0 .. p /\ (p + c) - a - 1 - i = p - a - 1 - i + c
  BY <1>2
<1>7. /\ Back(t, p) = 0 /\ \A i \in 1 .. a : Back(t, p - i) = e[1][i]
      /\ Back(t, p - a - 1) = 0 /\ \A i \in 1 .. b : Back(t, p - a - 1 - i) = e[2][i]
      /\ Back(t, p - (a + b + 2)) = 0
  BY <1>1, Zenon DEF EntryAt
<1>8. Back(u, p + c) = 0
  BY <1>3, <1>7, Zenon
<1>9. Back(u, (p + c) - a - 1) = 0 /\ Back(u, (p + c) - (a + b + 2)) = 0
  BY <1>3, <1>4, <1>7, Zenon
<1>10. \A i \in 1 .. a : Back(u, (p + c) - i) = e[1][i]
  BY <1>5, <1>7, Zenon
<1>11. \A i \in 1 .. b : Back(u, (p + c) - a - 1 - i) = e[2][i]
  BY <1>6, <1>7, Zenon
<1>12. \A i \in 1 .. Len(e[1]) : Back(u, (p + c) - i) = e[1][i]
  BY <1>1, <1>10, Zenon
<1>13. Back(u, (p + c) - Len(e[1]) - 1) = 0 /\ Back(u, (p + c) - Cells(e)) = 0
  BY <1>1, <1>9, Zenon
<1>14. \A i \in 1 .. Len(e[2]) : Back(u, (p + c) - Len(e[1]) - 1 - i) = e[2][i]
  BY <1>1, <1>11, Zenon
<1> QED BY <1>8, <1>12, <1>13, <1>14, EntryIs, Zenon

\* u is t but for the header e, written from next on.
HasHeader(u, t, e) ==
  /\ u = [t EXCEPT !.buffer = u.buffer] /\ u \in Tables
  /\ Ahead(u, 0) = 0 /\ Ahead(u, Len(e[1]) + 1) = 0 /\ Ahead(u, Cells(e)) = 0
  /\ \A i \in 1 .. Len(e[1]) : Ahead(u, i) = e[1][i]
  /\ \A i \in 1 .. Len(e[2]) : Ahead(u, Len(e[1]) + 1 + i) = e[2][i]
  /\ \A j \in Cells(e) + 1 .. t.max_size - 1 : Ahead(u, j) = Ahead(t, j)

\* What add_entry has written after the zero at next, once it has copied the
\* name and then, over the zero that ends it, the value.
LEMMA TwoCopies ==
  ASSUME NEW t \in Tables, t.max_size \in Nat \ {0}, t.next \in 0 .. t.max_size - 1,
         NEW e \in Headers, Cells(e) < t.max_size
  PROVE  HasHeader(hpack_tables_dynamic_copy_from_ext(
                     hpack_tables_dynamic_copy_from_ext(t, 0, e[1]), Len(e[1]) + 1, e[2]), t, e)
<1>1. /\ e[1] \in Seq(Nat \ {0}) /\ e[2] \in Seq(Nat \ {0})
      /\ Len(e[1]) \in Nat /\ Len(e[2]) \in Nat
  BY HeaderParts, Zenon
<1>2. PICK a \in Nat, b \in Nat, m \in Nat \ {0} :
        a = Len(e[1]) /\ b = Len(e[2]) /\ m = t.max_size
  BY <1>1, Zenon
<1>3. Cells(e) = a + b + 2 /\ a + b + 2 < m
  BY <1>2, Zenon DEF Cells
<1>4. /\ 0 \in Nat /\ 0 + a + 1 < m /\ a + 1 \in Nat /\ (a + 1) + b + 1 < m
      /\ 0 + a + 1 = a + 1 /\ (a + 1) + b + 1 = a + b + 2
  BY <1>3
<1> DEFINE t1 == hpack_tables_dynamic_copy_from_ext(t, 0, e[1])
           u == hpack_tables_dynamic_copy_from_ext(t1, a + 1, e[2])
<1>5. /\ t1 = [t EXCEPT !.buffer = t1.buffer] /\ t1 \in Tables
      /\ t1.max_size = m /\ t1.next = t.next /\ Ahead(t1, 0) = 0
      /\ \A i \in 1 .. a : Ahead(t1, 0 + i) = e[1][i]
      /\ \A j \in 0 .. m - 1 : j \notin 0 .. a + 1 => Ahead(t1, j) = Ahead(t, j)
  <2>1. 0 + Len(e[1]) + 1 < t.max_size /\ 0 + Len(e[1]) + 1 = a + 1
    BY <1>2, <1>4, Zenon
  <2>2. /\ t1 = [t EXCEPT !.buffer = t1.buffer] /\ t1 \in Tables
        /\ t1.max_size = t.max_size /\ t1.next = t.next /\ Ahead(t1, 0) = 0
        /\ \A i \in 1 .. Len(e[1]) : Ahead(t1, 0 + i) = e[1][i]
        /\ \A j \in 0 .. t.max_size - 1 :
             j \notin 0 .. 0 + Len(e[1]) + 1 => Ahead(t1, j) = Ahead(t, j)
    <3>1. t1 = hpack_tables_dynamic_copy_from_ext(t, 0, e[1])
      OBVIOUS
    <3> HIDE DEF t1
    <3>2. IsCopy(t1, t, 0, e[1])
      BY <1>1, <1>4, <2>1, <3>1, CopyFrom, Zenon
    <3> QED BY <3>2, Zenon DEF IsCopy
  <2> HIDE DEF t1
  <2> QED BY <1>2, <2>1, <2>2, Zenon
<1> HIDE DEF t1
<1>6. /\ u = [t1 EXCEPT !.buffer = u.buffer] /\ u \in Tables
      /\ Ahead(u, a + 1) = 0 /\ Ahead(u, a + b + 2) = 0
      /\ \A i \in 1 .. b : Ahead(u, a + 1 + i) = e[2][i]
      /\ \A j \in 0 .. m - 1 : j \notin a + 1 .. a + b + 2 => Ahead(u, j) = Ahead(t1, j)
  <2>1. (a + 1) + Len(e[2]) + 1 < t1.max_size /\ (a + 1) + Len(e[2]) + 1 = a + b + 2
    BY <1>2, <1>4, <1>5, Zenon
  <2>2. t1.max_size \in Nat \ {0} /\ t1.next \in 0 .. t1.max_size - 1
    BY <1>2, <1>5, Zenon
  <2>3. /\ u = [t1 EXCEPT !.buffer = u.buffer] /\ u \in Tables
        /\ Ahead(u, a + 1) = 0 /\ Ahead(u, (a + 1) + Len(e[2]) + 1) = 0
        /\ \A i \in 1 .. Len(e[2]) : Ahead(u, (a + 1) + i) = e[2][i]
        /\ \A j \in 0 .. t1.max_size - 1 :
             j \notin (a + 1) .. (a + 1) + Len(e[2]) + 1 => Ahead(u, j) = Ahead(t1, j)
    <3>1. u = hpack_tables_dynamic_copy_from_ext(t1, a + 1, e[2])
      OBVIOUS
    <3>2. t1 \in Tables
      BY <1>5, Zenon
    <3> HIDE DEF u
    <3>3. IsCopy(u, t1, a + 1, e[2])
      BY <1>1, <1>4, <2>1, <2>2, <3>1, <3>2, CopyFrom, Zenon
    <3> QED BY <3>3, Zenon DEF IsCopy
  <2> HIDE DEF u
  <2> QED BY <1>2, <1>5, <2>1, <2>3, Zenon
<1> HIDE DEF u
<1>7. u = [t EXCEPT !.buffer = u.buffer]
  <2>1. \A f, g : [[t EXCEPT !.buffer = f] EXCEPT !.buffer = g] = [t EXCEPT !.buffer = g]
    BY Zenon DEF Tables
  <2> QED BY <1>5, <1>6, <2>1, Zenon
<1>8. Ahead(u, 0) = 0
  <2>1. 0 \in 0 .. m - 1 /\ 0 \notin a + 1 .. a + b + 2
    OBVIOUS
  <2> QED BY <1>5, <1>6, <2>1, Zenon
<1>9. ASSUME NEW i \in 1 .. a PROVE Ahead(u, i) = e[1][i]
  <2>1. i \in 0 .. m - 1 /\ i \notin a + 1 .. a + b + 2 /\ 0 + i = i
    BY <1>3, <1>9
  <2>2. Ahead(t1, 0 + i) = e[1][i]
    BY <1>5, <1>9, Zenon
  <2> QED BY <1>6, <2>1, <2>2, Zenon
<1>10. ASSUME NEW j \in a + b + 2 + 1 .. m - 1 PROVE Ahead(u, j) = Ahead(t, j)
  <2>1. j \in 0 .. m - 1 /\ j \notin a + 1 .. a + b + 2 /\ j \notin 0 .. a + 1
    BY <1>10
  <2> QED BY <1>5, <1>6, <2>1, Zenon
<1>11. HasHeader(u, t, e)
  BY <1>2, <1>3, <1>6, <1>7, <1>8, <1>9, <1>10, Zenon DEF HasHeader
<1>12. u = hpack_tables_dynamic_copy_from_ext(
             hpack_tables_dynamic_copy_from_ext(t, 0, e[1]), Len(e[1]) + 1, e[2])
  BY <1>2, Zenon DEF u, t1
<1> QED BY <1>11, <1>12, Zenon

\* A new header that fits beside the others is written before them.
LEMMA WriteHolds ==
  ASSUME NEW t, NEW es, Holds(t, es), NEW e \in Headers,
         t.actual_size + Abs!Size(e) <= t.max_size
  PROVE  /\ Holds(Written(t, e[1], e[2]), <<e>> \o es)
         /\ Written(t, e[1], e[2]).max_size = t.max_size
         /\ Written(t, e[1], e[2]).settings_max_table_size = t.settings_max_table_size
<1> DEFINE ns == <<e>> \o es
           w == Written(t, e[1], e[2])
           v == hpack_tables_dynamic_copy_from_ext(
                  hpack_tables_dynamic_copy_from_ext(t, 0, e[1]), Len(e[1]) + 1, e[2])
<1>1. /\ es \in Seq(Headers) /\ Len(es) \in Nat /\ t.n_entries = Len(es)
      /\ t.max_size \in 0 .. MaxTable /\ MaxTable \in 0 .. UINT16_MAX
      /\ t.actual_size \in 0 .. t.max_size /\ t.actual_size = Abs!SizeOf(es, Len(es))
      /\ t.next \in Nat /\ Off(es, Len(es)) \in Nat
  BY HoldsNumbers, Zenon
<1>2. /\ t \in Tables /\ (t.next < t.max_size \/ t.next = 0)
      /\ t.first = Wrapped(t.next - Off(es, Len(es)) + t.max_size, t.max_size)
      /\ \A k \in 1 .. Len(es) : EntryAt(t, Off(es, k), es[k])
  BY Zenon DEF Holds
<1>3. /\ Cells(e) \in Nat /\ Abs!Size(e) \in Nat /\ Cells(e) + 1 <= Abs!Size(e)
      /\ Len(e[1]) \in Nat /\ Len(e[2]) \in Nat /\ Cells(e) = Len(e[1]) + Len(e[2]) + 2
      /\ Abs!Size(e) = Len(e[1]) + Len(e[2]) + Overhead
  BY HeaderSize, HeaderParts, Zenon DEF Cells, Abs!Size
<1>4. /\ <<e>> \o es \in Seq(Headers) /\ Len(ns) = Len(es) + 1
      /\ ns[1] = e /\ \A k \in 1 .. Len(es) : ns[k + 1] = es[k]
      /\ \A k \in 0 .. Len(es) :
           /\ Off(ns, k + 1) = Cells(e) + Off(es, k)
           /\ Abs!SizeOf(ns, k + 1) = Abs!Size(e) + Abs!SizeOf(es, k)
  BY <1>1, OffCons, Zenon
<1>5. Off(es, Len(es)) + Len(es) <= Abs!SizeOf(es, Len(es)) /\ Abs!SizeOf(es, Len(es)) \in Nat
  <2>1. Len(es) \in 0 .. Len(es)
    BY <1>1
  <2> QED BY <1>1, <2>1, OffTypes, Zenon
<1>6. t.max_size \in Nat
  BY <1>1
<1>7. PICK a \in Nat, b \in Nat, c \in Nat, m \in Nat, x \in Nat, n \in Nat, o \in Nat :
        /\ a = Len(e[1]) /\ b = Len(e[2]) /\ c = Cells(e) /\ m = t.max_size /\ x = t.next
        /\ n = Len(es) /\ o = Off(es, n)
  BY <1>1, <1>3, <1>6, Zenon
<1>8. c = a + b + 2 /\ o + c < m /\ m \in Nat \ {0} /\ x \in 0 .. m - 1 /\ c \in 0 .. m - 1
  <2>1. PICK z \in Nat, y \in Nat : z = Abs!Size(e) /\ y = t.actual_size
    BY <1>1, <1>3, <1>5, Zenon
  <2>2. /\ c = a + b + 2 /\ c + 1 <= z /\ o + n <= y /\ y + z <= m
        /\ x < m \/ x = 0
    BY <1>1, <1>2, <1>3, <1>5, <1>7, <2>1, Zenon
  <2> QED BY <2>2
<1>9. HasHeader(v, t, e)
  <2>1. c < m
    BY <1>8
  <2>2. Cells(e) < t.max_size /\ t.max_size \in Nat \ {0} /\ t.next \in 0 .. t.max_size - 1
    BY <1>7, <1>8, <2>1, Zenon
  <2> QED BY <1>2, <2>2, TwoCopies, Zenon
<1>10. w = [v EXCEPT !.n_entries = @ + 1,
                     !.actual_size = @ + Len(e[1]) + Len(e[2]) + Overhead,
                     !.next = (@ + Len(e[1]) + Len(e[2]) + 2) % t.max_size]
  BY Zenon DEF Written
<1> HIDE DEF v, w, ns
<1>11. v = [t EXCEPT !.buffer = v.buffer] /\ v \in Tables
  BY <1>9, Zenon DEF HasHeader
<1>12. /\ v.max_size = t.max_size /\ v.next = t.next /\ v.n_entries = t.n_entries
       /\ v.actual_size = t.actual_size /\ v.first = t.first
       /\ v.settings_max_table_size = t.settings_max_table_size
  BY <1>2, <1>11, Zenon DEF Tables
<1>13. /\ w.max_size = m /\ w.buffer = v.buffer /\ w.n_entries = n + 1 /\ w.first = t.first
       /\ w.settings_max_table_size = t.settings_max_table_size
       /\ w.actual_size = t.actual_size + a + b + Overhead
       /\ w.next = (x + a + b + 2) % m
  <2>1. /\ w.max_size = v.max_size /\ w.buffer = v.buffer /\ w.n_entries = v.n_entries + 1
        /\ w.first = v.first /\ w.settings_max_table_size = v.settings_max_table_size
        /\ w.actual_size = v.actual_size + Len(e[1]) + Len(e[2]) + Overhead
        /\ w.next = (v.next + Len(e[1]) + Len(e[2]) + 2) % t.max_size
    BY <1>10, <1>11 DEF Tables
  <2> QED BY <1>1, <1>7, <1>12, <2>1, Zenon
<1>14. w.next = Wrapped(x + c, m) /\ w.next \in 0 .. m - 1
  <2>1. x + a + b + 2 = x + c /\ x + c \in 0 .. 2 * m - 1
    BY <1>8
  <2>2. (x + c) % m = Wrapped(x + c, m) /\ Wrapped(x + c, m) \in 0 .. m - 1
    BY <1>8, <2>1, WrapMod, Zenon
  <2> QED BY <1>13, <2>1, <2>2, Zenon
<1>15. w.actual_size = Abs!SizeOf(ns, Len(ns)) /\ w.actual_size \in Nat /\ w.actual_size <= m
  <2>1. n \in 0 .. n
    OBVIOUS
  <2>2. Len(ns) = n + 1 /\ Abs!SizeOf(ns, n + 1) = Abs!Size(e) + Abs!SizeOf(es, n)
    BY <1>4, <1>7, <2>1, Zenon
  <2>3. PICK y \in Nat, h \in Nat : y = t.actual_size /\ h = Overhead
    BY <1>1, <1>5, TableAssumption, Zenon
  <2>4. /\ Abs!Size(e) = a + b + h /\ w.actual_size = y + a + b + h
        /\ Abs!SizeOf(es, n) = y /\ y + Abs!Size(e) <= m
    BY <1>1, <1>3, <1>7, <1>13, <2>3, Zenon
  <2>5. y + a + b + h = (a + b + h) + y /\ y + a + b + h \in Nat
    OBVIOUS
  <2>6. y + (a + b + h) <= m
    BY <2>4, Zenon
  <2>7. y + a + b + h <= m
    BY <2>6
  <2> QED BY <2>2, <2>4, <2>5, <2>7, Zenon
<1>16. w \in Tables
  <2>1. n + 1 \in Nat /\ w.next \in Nat
    BY <1>8, <1>14
  <2>2. w.n_entries \in Nat /\ w.actual_size \in Nat /\ w.next \in Nat
    BY <1>13, <1>15, <2>1, Zenon
  <2>3. \A f, g, h : w = [v EXCEPT !.n_entries = f, !.actual_size = g, !.next = h] =>
          w.n_entries = f /\ w.actual_size = g /\ w.next = h
    BY <1>11 DEF Tables
  <2>4. w = [v EXCEPT !.n_entries = w.n_entries, !.actual_size = w.actual_size, !.next = w.next]
    BY <1>10, <2>3, Zenon
  <2> QED BY <1>11, <2>2, <2>4, Zenon DEF Tables
<1>17. /\ \A j \in 0 .. c : Back(w, c - j) = Ahead(v, j)
       /\ \A d \in 1 .. m - c - 1 : Back(w, d + c) = Ahead(v, m - d)
  <2>1. v.max_size = m /\ v.next = x
    BY <1>7, <1>12, Zenon
  <2>2. w.max_size = m /\ w.buffer = v.buffer /\ w.next = Wrapped(x + c, m)
    BY <1>13, <1>14, Zenon
  <2>3. m \in Nat \ {0} /\ x \in 0 .. m - 1 /\ c \in 0 .. m - 1
    BY <1>8, Zenon
  <2>4. IsShifted(w, v, m, c)
    BY <2>1, <2>2, <2>3, NextMoved, Zenon
  <2> QED BY <2>4, Zenon DEF IsShifted
<1>18. /\ Ahead(v, 0) = 0 /\ Ahead(v, a + 1) = 0 /\ Ahead(v, c) = 0
       /\ \A i \in 1 .. a : Ahead(v, i) = e[1][i]
       /\ \A i \in 1 .. b : Ahead(v, a + 1 + i) = e[2][i]
       /\ \A j \in c + 1 .. m - 1 : Ahead(v, j) = Ahead(t, j)
  BY <1>7, <1>9, Zenon DEF HasHeader
<1>19. EntryAt(w, c, e)
  <2>1. Back(w, c) = 0 /\ Back(w, c - Cells(e)) = 0 /\ Back(w, c - Len(e[1]) - 1) = 0
    <3>1. /\ 0 \in 0 .. c /\ c \in 0 .. c /\ a + 1 \in 0 .. c
          /\ c - 0 = c /\ c - (a + 1) = c - a - 1
      BY <1>8
    <3>2. Back(w, c - 0) = 0 /\ Back(w, c - c) = 0 /\ Back(w, c - (a + 1)) = 0
      BY <1>17, <1>18, <3>1, Zenon
    <3> QED BY <1>7, <3>1, <3>2, Zenon
  <2>2. ASSUME NEW i \in 1 .. a PROVE Back(w, c - i) = e[1][i]
    <3>1. i \in 0 .. c
      BY <1>8, <2>2
    <3> QED BY <1>17, <1>18, <2>2, <3>1, Zenon
  <2>3. ASSUME NEW i \in 1 .. b PROVE Back(w, c - a - 1 - i) = e[2][i]
    <3>1. a + 1 + i \in 0 .. c /\ c - (a + 1 + i) = c - a - 1 - i
      BY <1>8, <2>3
    <3>2. Back(w, c - (a + 1 + i)) = e[2][i]
      BY <1>17, <1>18, <2>3, <3>1, Zenon
    <3> QED BY <3>1, <3>2, Zenon
  <2>4. \A i \in 1 .. Len(e[1]) : Back(w, c - i) = e[1][i]
    BY <1>7, <2>2, Zenon
  <2>5. \A i \in 1 .. Len(e[2]) : Back(w, c - Len(e[1]) - 1 - i) = e[2][i]
    BY <1>7, <2>3, Zenon
  <2> QED BY <2>1, <2>4, <2>5, EntryIs, Zenon
<1>20. ASSUME n > 0, NEW d \in 0 .. o PROVE Back(w, d + c) = Back(t, d)
  <2>1. t.max_size \in Nat \ {0} /\ t.next \in 0 .. t.max_size - 1
    BY <1>7, <1>8, Zenon
  <2>2. CASE d = 0
    <3>1. Back(w, 0 + c) = 0
      <4>1. 0 \in 0 .. c /\ c - 0 = 0 + c
        BY <1>8
      <4> QED BY <1>17, <1>18, <4>1, Zenon
    <3>2. Back(t, 0) = 0
      <4>1. 0 \in 0 .. n - 1 /\ 0 + 1 = 1 /\ 1 \in 1 .. n
        BY <1>20
      <4>2. es[1] \in Headers /\ Off(es, 1) = Off(es, 0) + Cells(es[1]) /\ Off(es, 0) = 0
        BY <1>1, <1>7, <4>1, OffStep
      <4>3. Cells(es[1]) \in Nat
        BY <4>2, HeaderSize, Zenon
      <4>4. Off(es, 1) - Cells(es[1]) = 0
        BY <4>2, <4>3
      <4>5. EntryAt(t, Off(es, 1), es[1])
        BY <1>2, <1>7, <4>1, Zenon
      <4>6. Back(t, Off(es, 1) - Cells(es[1])) = 0
        BY <4>5, Zenon DEF EntryAt
      <4> QED BY <4>4, <4>6, Zenon
    <3> QED BY <2>2, <3>1, <3>2, Zenon
  <2>3. CASE d # 0
    <3>1. d \in 1 .. m - c - 1 /\ d \in 1 .. m - 1 /\ m - d \in c + 1 .. m - 1
      BY <1>8, <1>20, <2>3
    <3>2. Back(w, d + c) = Ahead(t, m - d)
      BY <1>17, <1>18, <3>1, Zenon
    <3>3. \A i \in 1 .. m - 1 : Back(t, i) = Ahead(t, m - i)
      BY <1>7, <2>1, BackAhead, Zenon
    <3> QED BY <3>1, <3>2, <3>3, Zenon
  <2> QED BY <2>2, <2>3, Zenon
<1>21. ASSUME NEW k \in 1 .. n PROVE EntryAt(w, Off(ns, k + 1), ns[k + 1])
  <2>1. k \in 0 .. n /\ n > 0 /\ k - 1 \in 0 .. n - 1 /\ k - 1 \in 0 .. n /\ (k - 1) + 1 = k
    BY <1>21
  <2>2. Off(ns, k + 1) = Cells(e) + Off(es, k) /\ ns[k + 1] = es[k]
    BY <1>4, <1>7, <1>21, <2>1, Zenon
  <2>3. /\ es[(k - 1) + 1] \in Headers /\ Off(es, k - 1) \in Nat /\ Off(es, k) \in Nat
        /\ Off(es, (k - 1) + 1) = Off(es, k - 1) + Cells(es[(k - 1) + 1])
    BY <1>1, <1>7, <2>1, OffStep, OffTypes, Zenon
  <2>4. es[k] \in Headers /\ Off(es, k) = Off(es, k - 1) + Cells(es[k])
    BY <2>1, <2>3, Zenon
  <2>5. Cells(es[k]) \in Nat
    BY <2>4, HeaderSize, Zenon
  <2>6. PICK p \in Nat : p = Off(es, k)
    BY <2>3, Zenon
  <2>7. Cells(es[k]) <= p
    BY <2>3, <2>4, <2>5, <2>6
  <2>8. p <= o
    <3>1. n \in 0 .. n /\ k <= n
      BY <1>21
    <3> QED BY <1>1, <1>7, <2>1, <2>6, <3>1, OffMonotone, Zenon
  <2>9. \A d \in 0 .. p : d \in 0 .. o
    BY <2>8
  <2>10. \A d \in 0 .. p : Back(w, d + c) = Back(t, d)
    BY <1>20, <2>1, <2>9, Zenon
  <2>11. EntryAt(t, p, es[k])
    BY <1>2, <1>7, <1>21, <2>6, Zenon
  <2>12. EntryAt(w, p + c, es[k])
    BY <2>4, <2>7, <2>10, <2>11, EntryMoved, Zenon
  <2>13. p + c = c + p
    OBVIOUS
  <2> QED BY <1>7, <2>2, <2>6, <2>12, <2>13, Zenon
<1>22. ASSUME NEW k \in 1 .. Len(ns) PROVE EntryAt(w, Off(ns, k), ns[k])
  <2>1. Len(ns) = n + 1
    BY <1>4, <1>7, Zenon
  <2>2. CASE k = 1
    <3>1. 0 \in 0 .. n /\ 0 + 1 = 1
      OBVIOUS
    <3>2. Off(ns, 0 + 1) = Cells(e) + Off(es, 0) /\ Off(es, 0) = 0
      BY <1>1, <1>4, <1>7, <3>1, OffStep, Zenon
    <3>3. Off(ns, 1) = c
      <4>1. Off(ns, 1) = c + 0
        BY <1>7, <3>1, <3>2, Zenon
      <4> QED BY <4>1
    <3> QED BY <1>4, <1>19, <2>2, <3>3, Zenon
  <2>3. CASE k # 1
    <3>1. k - 1 \in 1 .. n /\ (k - 1) + 1 = k
      BY <2>1, <2>3
    <3>2. EntryAt(w, Off(ns, (k - 1) + 1), ns[(k - 1) + 1])
      BY <1>21, <3>1, Zenon
    <3> QED BY <3>1, <3>2, Zenon
  <2> QED BY <2>2, <2>3, Zenon
<1>23. w.first = Wrapped(w.next - Off(ns, Len(ns)) + w.max_size, w.max_size)
  <2>1. n \in 0 .. n
    OBVIOUS
  <2>2. Off(ns, Len(ns)) = c + o
    BY <1>4, <1>7, <2>1, Zenon
  <2>3. Wrapped(Wrapped(x + c, m) - (c + o) + m, m) = Wrapped(x - o + m, m)
    BY <1>8 DEF Wrapped
  <2>4. w.first = Wrapped(x - o + m, m)
    BY <1>2, <1>7, <1>13, Zenon
  <2> QED BY <1>13, <1>14, <2>2, <2>3, <2>4, Zenon
<1>24. w.next < w.max_size
  BY <1>8, <1>13, <1>14
<1>25. w.n_entries = Len(ns) /\ w.max_size = t.max_size
  BY <1>4, <1>7, <1>13, Zenon
<1>26. Holds(w, ns)
  <2>1. ns \in Seq(Headers) /\ w.actual_size <= w.max_size
    BY <1>4, <1>13, <1>15, Zenon DEF ns
  <2> QED BY <1>15, <1>16, <1>22, <1>23, <1>24, <1>25, <2>1, Zenon DEF Holds
<1> QED BY <1>13, <1>25, <1>26, Zenon DEF w, ns

\* The number of the newest headers that fit into r.
LEMMA NewestIs ==
  ASSUME NEW es \in Seq(Headers), NEW r \in Nat, NEW j \in 0 .. Len(es),
         Abs!SizeOf(es, j) <= r, \A k \in 0 .. Len(es) : Abs!SizeOf(es, k) <= r => k <= j
  PROVE  Abs!Newest(es, r) = SubSeq(es, 1, j)
<1> DEFINE N == {k \in 0 .. Len(es) : Abs!SizeOf(es, k) <= r}
<1>1. N \subseteq Nat
  OBVIOUS
<1>2. j \in N /\ \A k \in N : k <= j
  BY Zenon
<1>3. Abs!Newest(es, r) = SubSeq(es, 1, Max(N))
  BY Zenon DEF Abs!Newest, Max, Abs!Max
<1> HIDE DEF N
<1>4. Max(N) = j
  BY <1>1, <1>2, MaxIs, Zenon
<1> QED BY <1>3, <1>4, Zenon

\* There is such a number.
LEMMA NewestFit ==
  ASSUME NEW es \in Seq(Headers), NEW r \in Nat
  PROVE  \E j \in 0 .. Len(es) :
           /\ Abs!SizeOf(es, j) <= r
           /\ \A k \in 0 .. Len(es) : Abs!SizeOf(es, k) <= r => k <= j
<1>1. PICK n \in Nat : n = Len(es)
  BY SeqParts, Zenon
<1> DEFINE T == {i \in 0 .. n : Abs!SizeOf(es, n - i) <= r}
<1>2. T \subseteq Nat
  OBVIOUS
<1>3. n \in T
  <2>1. n \in 0 .. n /\ n - n = 0 /\ 0 <= r
    OBVIOUS
  <2>2. Abs!SizeOf(es, 0) = 0
    BY OffStep, Zenon
  <2> QED BY <2>1, <2>2, Zenon
<1> HIDE DEF T
<1>4. PICK i \in T : \A y \in T : i <= y
  BY <1>2, <1>3, LeastNatural, Zenon
<1>5. i \in 0 .. n /\ Abs!SizeOf(es, n - i) <= r
  BY <1>4, Zenon DEF T
<1>6. n - i \in 0 .. n
  BY <1>5
<1>7. ASSUME NEW k \in 0 .. n, Abs!SizeOf(es, k) <= r PROVE k <= n - i
  <2>1. n - k \in 0 .. n /\ n - (n - k) = k
    BY <1>7
  <2>2. n - k \in T
    BY <1>7, <2>1, Zenon DEF T
  <2>3. i <= n - k
    BY <1>4, <2>2, Zenon
  <2> QED BY <1>5, <1>7, <2>1, <2>3
<1> QED BY <1>1, <1>5, <1>6, <1>7, Zenon

\* A new header that fits into limit leaves what it does not take to the others.
LEMMA NewestCons ==
  ASSUME NEW es \in Seq(Headers), NEW e \in Headers, NEW limit \in Nat,
         Abs!Size(e) <= limit
  PROVE  /\ limit - Abs!Size(e) \in Nat
         /\ Abs!Newest(<<e>> \o es, limit) = <<e>> \o Abs!Newest(es, limit - Abs!Size(e))
<1> DEFINE ns == <<e>> \o es
<1>1. PICK n \in Nat, s \in Nat : n = Len(es) /\ s = Abs!Size(e)
  BY SeqParts, HeaderSize, Zenon
<1>2. limit - s \in Nat /\ s <= limit
  BY <1>1
<1>3. PICK j \in 0 .. n : /\ Abs!SizeOf(es, j) <= limit - s
                          /\ \A k \in 0 .. n : Abs!SizeOf(es, k) <= limit - s => k <= j
  BY <1>1, <1>2, NewestFit, Zenon
<1>4. Abs!Newest(es, limit - s) = SubSeq(es, 1, j)
  BY <1>1, <1>2, <1>3, NewestIs, Zenon
<1>5. /\ ns \in Seq(Headers) /\ Len(ns) = n + 1
      /\ \A k \in 0 .. n : Abs!SizeOf(ns, k + 1) = s + Abs!SizeOf(es, k)
  BY <1>1, OffCons, Zenon
<1>6. \A k \in 0 .. n : Abs!SizeOf(es, k) \in Nat
  BY <1>1, OffTypes, Zenon
<1> HIDE DEF ns
<1>7. j + 1 \in 0 .. Len(ns) /\ Abs!SizeOf(ns, j + 1) <= limit
  <2>1. j + 1 \in 0 .. n + 1
    OBVIOUS
  <2>2. Abs!SizeOf(ns, j + 1) = s + Abs!SizeOf(es, j) /\ Abs!SizeOf(es, j) \in Nat
    BY <1>5, <1>6, Zenon
  <2>3. s + Abs!SizeOf(es, j) <= limit
    BY <1>2, <1>3, <2>2
  <2> QED BY <1>5, <2>1, <2>2, <2>3, Zenon
<1>8. ASSUME NEW k \in 0 .. Len(ns), Abs!SizeOf(ns, k) <= limit PROVE k <= j + 1
  <2>1. k \in 0 .. n + 1
    BY <1>5, Zenon
  <2>2. CASE k = 0
    BY <2>2
  <2>3. CASE k # 0
    <3>1. k - 1 \in 0 .. n /\ (k - 1) + 1 = k
      BY <2>1, <2>3
    <3>2. Abs!SizeOf(ns, k) = s + Abs!SizeOf(es, k - 1) /\ Abs!SizeOf(es, k - 1) \in Nat
      BY <1>5, <1>6, <3>1, Zenon
    <3>3. Abs!SizeOf(es, k - 1) <= limit - s
      <4>1. s + Abs!SizeOf(es, k - 1) <= limit
        BY <1>8, <3>2, Zenon
      <4> QED BY <3>2, <4>1
    <3>4. k - 1 <= j
      BY <1>3, <3>1, <3>3, Zenon
    <3> QED BY <2>1, <3>4
  <2> QED BY <2>2, <2>3, Zenon
<1>9. Abs!Newest(ns, limit) = SubSeq(ns, 1, j + 1)
  BY <1>5, <1>7, <1>8, NewestIs, Zenon
<1>10. SubSeq(ns, 1, j + 1) = <<e>> \o SubSeq(es, 1, j)
  BY <1>1, <1>3 DEF ns
<1> QED BY <1>1, <1>2, <1>4, <1>9, <1>10, Zenon DEF ns

\* add_entry leaves the newest headers that fit, the new one among them.
LEMMA AddedHolds ==
  ASSUME NEW t, NEW es, Holds(t, es), NEW e \in Headers, Room(t, e[1], e[2]) >= 0
  PROVE  /\ Ends(t, Room(t, e[1], e[2])) /\ Abs!Size(e) <= t.max_size
         /\ Holds(Added(t, e[1], e[2]), Abs!Newest(<<e>> \o es, t.max_size))
         /\ Added(t, e[1], e[2]).max_size = t.max_size
         /\ Added(t, e[1], e[2]).settings_max_table_size = t.settings_max_table_size
<1> DEFINE r == Room(t, e[1], e[2])
           u == Evicted(t, r)
           qs == Abs!Newest(es, r)
<1>1. es \in Seq(Headers) /\ t.max_size \in 0 .. MaxTable /\ MaxTable \in 0 .. UINT16_MAX
  BY HoldsNumbers, Zenon
<1>2. t.max_size \in Nat /\ Abs!Size(e) \in Nat
  <2>1. Abs!Size(e) \in Nat
    BY HeaderSize, Zenon
  <2> QED BY <1>1, <2>1
<1>3. r = t.max_size - Abs!Size(e)
  BY Zenon DEF Room, Abs!Size
<1>4. Abs!Size(e) <= t.max_size
  BY <1>2, <1>3
<1>5. r \in Nat /\ Abs!Newest(<<e>> \o es, t.max_size) = <<e>> \o qs
  <2>1. /\ t.max_size - Abs!Size(e) \in Nat
        /\ Abs!Newest(<<e>> \o es, t.max_size) = <<e>> \o Abs!Newest(es, t.max_size - Abs!Size(e))
    <3> HIDE DEF r, u, qs
    <3> QED BY <1>1, <1>2, <1>4, NewestCons, Zenon
  <2> HIDE DEF r
  <2> QED BY <1>3, <2>1, Zenon
<1> HIDE DEF r
<1>6. Ends(t, r) /\ Holds(u, qs) /\ Rest(u) = Rest(t) /\ u.actual_size <= r
  BY <1>5, EvictedHolds, Zenon
<1>7. u.max_size = t.max_size /\ u.settings_max_table_size = t.settings_max_table_size
  BY <1>6 DEF Rest
<1> HIDE DEF u, qs
<1>8. u.actual_size + Abs!Size(e) <= u.max_size
  <2>1. u.actual_size \in 0 .. u.max_size
    BY <1>6, HoldsNumbers, Zenon
  <2> QED BY <1>2, <1>3, <1>6, <1>7, <2>1
<1>9. /\ Holds(Written(u, e[1], e[2]), <<e>> \o qs)
      /\ Written(u, e[1], e[2]).max_size = u.max_size
      /\ Written(u, e[1], e[2]).settings_max_table_size = u.settings_max_table_size
  BY <1>6, <1>8, WriteHolds, Zenon
<1>10. Added(t, e[1], e[2]) = Written(u, e[1], e[2])
  BY Zenon DEF Added, u, r
<1> QED BY <1>4, <1>5, <1>6, <1>7, <1>9, <1>10, Zenon DEF r

-----------------------------------------------------------------------------
(* Changing the size.                                                        *)

\* A change of the limit that a SETTINGS frame gives moves nothing.
LEMMA RecapHolds ==
  ASSUME NEW t, NEW es, Holds(t, es), NEW s \in 0 .. MaxTable
  PROVE  LET u == [t EXCEPT !.settings_max_table_size = s]
         IN  Holds(u, es) /\ u.max_size = t.max_size /\ u.settings_max_table_size = s
<1> DEFINE u == [t EXCEPT !.settings_max_table_size = s]
<1>1. t \in Tables
  BY Zenon DEF Holds
<1>2. /\ u \in Tables /\ u.buffer = t.buffer /\ u.next = t.next /\ u.max_size = t.max_size
      /\ u.first = t.first /\ u.n_entries = t.n_entries /\ u.actual_size = t.actual_size
      /\ u.settings_max_table_size = s
  BY <1>1, Zenon DEF Tables
<1> HIDE DEF u
<1>3. \A k \in 1 .. Len(es) : EntryAt(u, Off(es, k), es[k])
  <2>1. \A k \in 1 .. Len(es) : EntryAt(t, Off(es, k), es[k])
    BY Zenon DEF Holds
  <2> QED BY <1>2, <2>1, EntrySame, Zenon
<1>4. Holds(u, es)
  BY <1>2, <1>3, Zenon DEF Holds
<1> QED BY <1>2, <1>4, Zenon DEF u

\* Used is the distance from first to next.
LEMMA UsedIs ==
  ASSUME NEW t, NEW m \in Nat \ {0}, NEW x \in 0 .. m - 1, NEW o \in 1 .. m - 1,
         t.max_size = m, t.next = x, t.first = Wrapped(x - o + m, m)
  PROVE  Used(t) = o
<1>1. Used(t) = IF x <= Wrapped(x - o + m, m) THEN m - Wrapped(x - o + m, m) + x
                                              ELSE x - Wrapped(x - o + m, m)
  BY Zenon DEF Used
<1> QED BY <1>1 DEF Wrapped

\* resize moves the headers to the start of the buffer without a change of the
\* list, if they fit into the new size.
LEMMA ShrinkHolds ==
  ASSUME NEW t, NEW es, Holds(t, es), NEW n \in 0 .. MaxTable, t.actual_size <= n
  PROVE  LET u == [Moved(t) EXCEPT !.max_size = n]
         IN  /\ Holds(u, es) /\ u.max_size = n
             /\ u.settings_max_table_size = t.settings_max_table_size
<1> DEFINE u == [Moved(t) EXCEPT !.max_size = n]
<1>1. /\ es \in Seq(Headers) /\ Len(es) \in Nat /\ t.n_entries = Len(es)
      /\ t.actual_size \in 0 .. t.max_size /\ t.actual_size = Abs!SizeOf(es, Len(es))
      /\ MaxTable \in 0 .. UINT16_MAX /\ t.max_size \in 0 .. MaxTable
      /\ t.buffer \in [0 .. MaxTable - 1 -> Nat]
  BY HoldsNumbers, Zenon
<1>2. /\ t \in Tables
      /\ t.first = Wrapped(t.next - Off(es, Len(es)) + t.max_size, t.max_size)
      /\ \A k \in 1 .. Len(es) : EntryAt(t, Off(es, k), es[k])
  BY Zenon DEF Holds
<1>3. n \in Nat /\ MaxTable \in Nat
  BY <1>1, ShortMod
<1>4. CASE Len(es) = 0
  <2>1. u = [[t EXCEPT !.first = 0, !.next = 0] EXCEPT !.max_size = n]
    BY <1>1, <1>4, Zenon DEF Moved
  <2> HIDE DEF u
  <2>2. 0 \in Nat
    OBVIOUS
  <2>3. /\ u \in Tables /\ u.first = 0 /\ u.next = 0 /\ u.max_size = n
        /\ u.n_entries = t.n_entries /\ u.actual_size = t.actual_size
        /\ u.settings_max_table_size = t.settings_max_table_size
    BY <1>2, <2>1, <2>2, Zenon DEF Tables
  <2>4. Off(es, 0) = 0
    BY <1>1, OffStep, Zenon
  <2>5. 0 = Wrapped(0 - 0 + n, n)
    BY <1>3 DEF Wrapped
  <2>6. u.first = Wrapped(u.next - Off(es, Len(es)) + u.max_size, u.max_size)
    BY <1>4, <2>3, <2>4, <2>5, Zenon
  <2>7. ASSUME NEW k \in 1 .. Len(es) PROVE FALSE
    BY <1>4
  <2>8. Holds(u, es)
    BY <1>1, <2>3, <2>6, <2>7, Zenon DEF Holds
  <2> QED BY <2>3, <2>8, Zenon DEF u
<1>5. CASE Len(es) # 0
  <2>1. Len(es) > 0 /\ Len(es) \in 1 .. Len(es) /\ Len(es) \in 0 .. Len(es)
    BY <1>1, <1>5
  <2>2. /\ t.max_size \in Nat \ {0} /\ t.next \in 0 .. t.max_size - 1
        /\ Off(es, Len(es)) \in 1 .. t.max_size - 1
    BY <2>1, HoldsNumbers, PosOf, Zenon
  <2>3. t.next \in Nat /\ Off(es, Len(es)) \in Nat
    BY <2>2
  <2>4. PICK m \in Nat \ {0}, x \in Nat, o \in Nat :
          m = t.max_size /\ x = t.next /\ o = Off(es, Len(es))
    BY <2>2, <2>3, Zenon
  <2>5. x \in 0 .. m - 1 /\ o \in 1 .. m - 1 /\ o \in 0 .. m - 1
    <3>1. x \in 0 .. m - 1 /\ o \in 1 .. m - 1
      BY <2>2, <2>4, Zenon
    <3> QED BY <3>1
  <2>6. Used(t) = o
    BY <1>2, <2>4, <2>5, UsedIs, Zenon
  <2>7. o < n
    <3>1. o + Len(es) <= t.actual_size /\ t.actual_size \in Nat
      BY <1>1, <2>1, <2>4, OffTypes, Zenon
    <3> QED BY <1>1, <1>3, <2>1, <3>1
  <2> DEFINE new == [c \in DOMAIN t.buffer |->
                       IF c <= o THEN Cell(t, t.first, c) ELSE t.buffer[c]]
  <2>8. u = [[t EXCEPT !.buffer = new, !.first = 0, !.next = o] EXCEPT !.max_size = n]
    BY <1>1, <1>5, <2>6, Zenon DEF Moved
  <2>9. \A j \in 0 .. o : Cell(t, t.first, j) = Back(t, o - j)
    BY <1>2, <2>2, <2>4, <2>5, CellForth, Zenon
  <2> HIDE DEF u, new
  <2>10. DOMAIN t.buffer = 0 .. MaxTable - 1 /\ \A c \in 0 .. MaxTable - 1 : t.buffer[c] \in Nat
    BY <1>1, Zenon
  <2>11. ASSUME NEW d \in 0 .. o PROVE new[o - d] = Back(t, d) /\ Back(t, d) \in Nat
    <3>1. /\ o - d \in 0 .. o /\ o - d \in 0 .. MaxTable - 1 /\ o - d <= o /\ o - (o - d) = d
      BY <1>3, <2>7, <2>11
    <3>2. new[o - d] = Cell(t, t.first, o - d)
      BY <2>10, <3>1, Zenon DEF new
    <3>3. Wrapped(x - d + m, m) \in 0 .. MaxTable - 1
      <4>1. m <= MaxTable
        BY <1>1, <1>3, <2>4
      <4> QED BY <1>3, <2>5, <2>11, <4>1 DEF Wrapped
    <3>4. Back(t, d) \in Nat
      BY <2>4, <2>10, <3>3, Zenon DEF Back
    <3> QED BY <2>9, <3>1, <3>2, <3>4, Zenon
  <2>12. new \in [0 .. MaxTable - 1 -> Nat]
    <3>1. ASSUME NEW c \in 0 .. MaxTable - 1
          PROVE  (IF c <= o THEN Cell(t, t.first, c) ELSE t.buffer[c]) \in Nat
      <4>1. CASE c <= o
        <5>1. c \in 0 .. o /\ o - c \in 0 .. o /\ o - (o - c) = c
          BY <1>3, <3>1, <4>1
        <5> QED BY <2>9, <2>11, <4>1, <5>1, Zenon
      <4>2. CASE ~(c <= o)
        BY <2>10, <4>2, Zenon
      <4> QED BY <4>1, <4>2, Zenon
    <3> QED BY <2>10, <3>1, Zenon DEF new
  <2>13. 0 \in Nat
    OBVIOUS
  <2>14. /\ u \in Tables /\ u.buffer = new /\ u.first = 0 /\ u.next = o /\ u.max_size = n
         /\ u.n_entries = t.n_entries /\ u.actual_size = t.actual_size
         /\ u.settings_max_table_size = t.settings_max_table_size
    BY <1>2, <2>8, <2>12, <2>13, Zenon DEF Tables
  <2>15. ASSUME NEW d \in 0 .. o PROVE Back(u, d + 0) = Back(t, d)
    <3>1. Wrapped(o - (d + 0) + n, n) = o - d
      BY <1>3, <2>7, <2>15 DEF Wrapped
    <3>2. Back(u, d + 0) = new[Wrapped(o - (d + 0) + n, n)]
      BY <2>14, Zenon DEF Back
    <3> QED BY <2>11, <3>1, <3>2, Zenon
  <2>16. ASSUME NEW k \in 1 .. Len(es) PROVE EntryAt(u, Off(es, k), es[k])
    <3>1. /\ k \in 0 .. Len(es) /\ k - 1 \in 0 .. Len(es) - 1 /\ k - 1 \in 0 .. Len(es)
          /\ (k - 1) + 1 = k /\ k <= Len(es)
      BY <1>1, <2>16
    <3>2. /\ es[(k - 1) + 1] \in Headers /\ Off(es, k - 1) \in Nat /\ Off(es, k) \in Nat
          /\ Off(es, (k - 1) + 1) = Off(es, k - 1) + Cells(es[(k - 1) + 1])
      BY <1>1, <3>1, OffStep, OffTypes, Zenon
    <3>3. es[k] \in Headers /\ Off(es, k) = Off(es, k - 1) + Cells(es[k])
      BY <3>1, <3>2, Zenon
    <3>4. Cells(es[k]) \in Nat
      BY <3>3, HeaderSize, Zenon
    <3>5. PICK p \in Nat : p = Off(es, k)
      BY <3>2, Zenon
    <3>6. Cells(es[k]) <= p
      BY <3>2, <3>3, <3>4, <3>5
    <3>7. p <= o
      BY <1>1, <2>1, <2>4, <3>1, <3>5, OffMonotone, Zenon
    <3>8. \A d \in 0 .. p : d \in 0 .. o
      BY <3>7
    <3>9. \A d \in 0 .. p : Back(u, d + 0) = Back(t, d)
      BY <2>15, <3>8, Zenon
    <3>10. EntryAt(t, p, es[k])
      BY <1>2, <3>5, Zenon
    <3>11. EntryAt(u, p + 0, es[k])
      BY <2>13, <3>3, <3>6, <3>9, <3>10, EntryMoved, Zenon
    <3>12. p + 0 = p
      OBVIOUS
    <3> QED BY <3>5, <3>11, <3>12, Zenon
  <2>17. u.first = Wrapped(u.next - Off(es, Len(es)) + u.max_size, u.max_size)
    <3>1. 0 = Wrapped(o - o + n, n)
      BY <1>3 DEF Wrapped
    <3> QED BY <2>4, <2>14, <3>1, Zenon
  <2>18. Holds(u, es)
    <3>1. u.next < u.max_size /\ u.actual_size <= u.max_size
      BY <2>7, <2>14, Zenon
    <3> QED BY <1>1, <2>14, <2>16, <2>17, <3>1, Zenon DEF Holds
  <2> QED BY <2>14, <2>18, Zenon DEF u
<1> QED BY <1>4, <1>5, Zenon

-----------------------------------------------------------------------------
(* The invariant and the refinement.                                         *)

\* What the decoder reads is the list that the table holds.
LEMMA ReadsAll ==
  ASSUME NEW t, NEW es, Holds(t, es)
  PROVE  [k \in 1 .. t.n_entries |-> hpack_tables_dynamic_find_entry_name_and_value(t, k)] = es
<1>1. es \in Seq(Headers) /\ t.n_entries = Len(es)
  BY HoldsNumbers, Zenon
<1>2. es = [k \in 1 .. Len(es) |-> es[k]]
  BY <1>1
<1>3. \A k \in 1 .. Len(es) : hpack_tables_dynamic_find_entry_name_and_value(t, k) = es[k]
  BY ReadsEntry, Zenon
<1> QED BY <1>1, <1>2, <1>3, Zenon

\* The table holds nothing in the beginning.
LEMMA InitHolds ==
  ASSUME Init
  PROVE  IInv /\ Entries = << >>
<1> DEFINE t == hpack_tables_init_dynamic_table
           buffer == [c \in 0 .. MaxTable - 1 |-> 0]
<1>1. MaxTable \in Nat
  BY TableFits
<1>2. MaxTable \in 0 .. MaxTable /\ 0 \in Nat
  BY <1>1
<1>3. buffer \in [0 .. MaxTable - 1 -> Nat]
  BY <1>2, Zenon
<1> HIDE DEF buffer
<1>4. t = [buffer |-> buffer, max_size |-> MaxTable,
           settings_max_table_size |-> MaxTable, actual_size |-> 0, n_entries |-> 0,
           first |-> 0, next |-> 0]
  BY Zenon DEF hpack_tables_init_dynamic_table, buffer
<1> HIDE DEF t
<1>5. /\ t \in Tables /\ t.n_entries = 0 /\ t.actual_size = 0 /\ t.next = 0 /\ t.first = 0
      /\ t.max_size = MaxTable
  BY <1>2, <1>3, <1>4 DEF Tables
<1>6. /\ << >> \in Seq(Headers) /\ Len(<< >>) = 0
  OBVIOUS
<1>7. Off(<< >>, 0) = 0 /\ Abs!SizeOf(<< >>, 0) = 0
  BY <1>6, OffStep, Zenon
<1>8. 0 = Wrapped(0 - 0 + MaxTable, MaxTable) /\ 0 <= MaxTable
  BY <1>1 DEF Wrapped
<1>9. \A k \in 1 .. Len(<< >>) : EntryAt(t, Off(<< >>, k), << >>[k])
  BY <1>6
<1>10. Holds(t, << >>)
  BY <1>5, <1>6, <1>7, <1>8, <1>9, Zenon DEF Holds
<1>11. table = t /\ stuck = FALSE
  BY Zenon DEF Init, t
<1>12. Holds(table, << >>)
  BY <1>10, <1>11, Zenon
<1>13. Entries = << >>
  BY <1>12, ReadsAll, Zenon DEF Entries
<1> QED BY <1>11, <1>12, <1>13, Zenon DEF IInv

\* A resize ends, and leaves the newest headers that fit into n.
LEMMA ResizedHolds ==
  ASSUME NEW t, NEW es, Holds(t, es), NEW n \in 0 .. MaxTable, Resized(t, n)
  PROVE  /\ stuck' = FALSE /\ Holds(table', Abs!Newest(es, n))
         /\ table'.max_size = n /\ table'.settings_max_table_size = t.settings_max_table_size
<1> DEFINE u == Evicted(t, n)
<1>1. n \in Nat
  <2>1. MaxTable \in Nat
    BY TableFits
  <2> QED BY <2>1
<1>2. /\ Ends(t, n) /\ Holds(u, Abs!Newest(es, n)) /\ Rest(u) = Rest(t) /\ u.actual_size <= n
  BY <1>1, EvictedHolds, Zenon
<1>3. stuck' = FALSE /\ table' = [Moved(u) EXCEPT !.max_size = n]
  BY <1>2, Zenon DEF Resized, Shrunk
<1>4. u.settings_max_table_size = t.settings_max_table_size
  BY <1>2 DEF Rest
<1> HIDE DEF u
<1>5. LET v == [Moved(u) EXCEPT !.max_size = n]
      IN  /\ Holds(v, Abs!Newest(es, n)) /\ v.max_size = n
          /\ v.settings_max_table_size = u.settings_max_table_size
  BY <1>2, ShrinkHolds, Zenon
<1> QED BY <1>3, <1>4, <1>5, Zenon

\* Every step keeps the invariant, and is a step of the list of headers.
LEMMA StepHolds ==
  ASSUME IInv, [Next]_vars
  PROVE  /\ IInv'
         /\ [Abs!Next]_<<Entries, table.max_size, table.settings_max_table_size>>
<1> DEFINE t == table
           es == Entries
<1>1. Holds(t, es) /\ stuck = FALSE
  BY Zenon DEF IInv
<1>2. ASSUME NEW ns, Holds(table', ns) PROVE Entries' = ns
  BY <1>2, ReadsAll, Zenon DEF Entries
<1>3. ASSUME NEW ns, stuck' = FALSE, Holds(table', ns) PROVE IInv'
  BY <1>2, <1>3, Zenon DEF IInv
<1>4. t.max_size \in 0 .. MaxTable /\ t.settings_max_table_size \in 0 .. MaxTable
  <2>1. t \in Tables
    BY <1>1, Zenon DEF Holds
  <2> QED BY <2>1 DEF Tables
<1>5. MaxTable \in Nat
  BY TableFits
<1>6. CASE UNCHANGED vars
  <2>1. table' = table /\ stuck' = stuck
    BY <1>6, Zenon DEF vars
  <2>2. Holds(table', es) /\ stuck' = FALSE
    BY <1>1, <2>1, Zenon
  <2>3. Entries' = Entries
    BY <1>2, <2>2, Zenon
  <2>4. IInv'
    BY <1>3, <2>2, Zenon
  <2> QED BY <2>1, <2>3, <2>4, Zenon
<1>7. ASSUME NEW name \in Names, NEW value \in Values,
             hpack_tables_dynamic_table_add_entry(name, value)
      PROVE  IInv' /\ Abs!Next
  <2> DEFINE e == <<name, value>>
  <2>1. e \in Headers /\ e \in Names \X Values /\ e[1] = name /\ e[2] = value
    BY <1>7 DEF Headers
  <2> HIDE DEF e
  <2>2. /\ Room(t, e[1], e[2]) >= 0 /\ stuck' = ~Ends(t, Room(t, e[1], e[2]))
        /\ table' = IF stuck' THEN t ELSE Added(t, e[1], e[2])
    BY <1>7, <2>1, Zenon DEF hpack_tables_dynamic_table_add_entry
  <2>3. /\ Ends(t, Room(t, e[1], e[2])) /\ Abs!Size(e) <= t.max_size
        /\ Holds(Added(t, e[1], e[2]), Abs!Newest(<<e>> \o es, t.max_size))
        /\ Added(t, e[1], e[2]).max_size = t.max_size
        /\ Added(t, e[1], e[2]).settings_max_table_size = t.settings_max_table_size
    <3> HIDE DEF es
    <3> QED BY <1>1, <2>1, <2>2, AddedHolds, Zenon
  <2>4. stuck' = FALSE /\ table' = Added(t, e[1], e[2])
    BY <2>2, <2>3, Zenon
  <2>5. Holds(table', Abs!Newest(<<e>> \o es, t.max_size))
    BY <2>3, <2>4, Zenon
  <2>6. IInv' /\ Entries' = Abs!Newest(<<e>> \o es, t.max_size)
    BY <1>2, <1>3, <2>4, <2>5, Zenon
  <2>7. Abs!Add(e)
    BY <2>3, <2>4, <2>6, Zenon DEF Abs!Add
  <2> QED BY <2>1, <2>6, <2>7, Zenon DEF Abs!Next
<1>8. ASSUME NEW n \in Sizes, hpack_tables_dynamic_table_resize(n)
      PROVE  IInv' /\ Abs!Next
  <2>1. n <= t.settings_max_table_size /\ Resized(t, n)
    BY <1>8, Zenon DEF hpack_tables_dynamic_table_resize
  <2>2. n \in 0 .. MaxTable
    BY <1>4, <1>5, <2>1, TableAssumption
  <2>3. /\ stuck' = FALSE /\ Holds(table', Abs!Newest(es, n))
        /\ table'.max_size = n /\ table'.settings_max_table_size = t.settings_max_table_size
    BY <1>1, <2>1, <2>2, ResizedHolds, Zenon
  <2>4. IInv' /\ Entries' = Abs!Newest(es, n)
    BY <1>2, <1>3, <2>3, Zenon
  <2>5. Abs!Resize(n)
    BY <2>1, <2>3, <2>4, Zenon DEF Abs!Resize
  <2> QED BY <2>2, <2>4, <2>5, Zenon DEF Abs!Next
<1>9. ASSUME NEW n \in Sizes, hpack_dynamic_change_max_size(n)
      PROVE  IInv' /\ Abs!Next
  <2> DEFINE u == [t EXCEPT !.settings_max_table_size = n]
  <2>1. n <= MaxTable /\ Resized(u, n)
    BY <1>9, Zenon DEF hpack_dynamic_change_max_size
  <2>2. n \in 0 .. MaxTable
    BY <1>5, <2>1, TableAssumption
  <2>3. Holds(u, es) /\ u.settings_max_table_size = n
    BY <1>1, <2>2, RecapHolds, Zenon
  <2> HIDE DEF u
  <2>4. /\ stuck' = FALSE /\ Holds(table', Abs!Newest(es, n))
        /\ table'.max_size = n /\ table'.settings_max_table_size = n
    BY <2>1, <2>2, <2>3, ResizedHolds, Zenon
  <2>5. IInv' /\ Entries' = Abs!Newest(es, n)
    BY <1>2, <1>3, <2>4, Zenon
  <2>6. Abs!Recap(n)
    BY <2>4, <2>5, Zenon DEF Abs!Recap
  <2> QED BY <2>2, <2>5, <2>6, Zenon DEF Abs!Next
<1>10. Next => \/ \E name \in Names, value \in Values :
                    hpack_tables_dynamic_table_add_entry(name, value)
               \/ \E n \in Sizes : \/ hpack_tables_dynamic_table_resize(n)
                                   \/ hpack_dynamic_change_max_size(n)
  BY Zenon DEF Next
<1> QED BY <1>6, <1>7, <1>8, <1>9, <1>10, Zenon

\* The invariant holds in every state.
LEMMA Invariant == Spec => []IInv
<1>1. Init => IInv
  BY InitHolds, Zenon
<1>2. IInv /\ [Next]_vars => IInv'
  BY StepHolds, Zenon
<1> QED BY <1>1, <1>2, PTL DEF Spec

-----------------------------------------------------------------------------
(* Looking for a header.                                                     *)

\* hpack_tables_dynamic_compare_string says whether str is the beginning of
\* the string that begins at distance p: it does not look for the zero.
LEMMA CompareIs ==
  ASSUME NEW t, t.max_size \in Nat \ {0}, t.next \in 0 .. t.max_size - 1,
         NEW s \in Seq(Nat \ {0}), NEW p \in 0 .. t.max_size - 1, Len(s) + 1 <= p,
         StringAt(t, p, s), NEW str \in Seq(Nat \ {0})
  PROVE  hpack_tables_dynamic_compare_string(t, p, str) <=> Begins(str, s)
<1>1. Len(s) \in Nat /\ Len(str) \in Nat /\ \A i \in 1 .. Len(str) : str[i] \in Nat \ {0}
  BY SeqParts, Zenon
<1>2. \A i \in 0 .. p : Cell(t, t.next - p, i) = Back(t, p - i)
  BY CellBack, Zenon
<1>3. \A i \in 1 .. Len(s) : Cell(t, t.next - p, i) = s[i]
  <2>1. \A i \in 1 .. Len(s) : i \in 0 .. p
    BY <1>1
  <2> QED BY <1>2, <2>1, Zenon DEF StringAt
<1>4. Cell(t, t.next - p, Len(s) + 1) = 0
  <2>1. Len(s) + 1 \in 0 .. p /\ p - (Len(s) + 1) = p - Len(s) - 1
    BY <1>1
  <2> QED BY <1>2, <2>1, Zenon DEF StringAt
<1>5. Begins(str, s) <=> /\ Len(str) <= Len(s)
                           /\ \A i \in 1 .. Len(str) : str[i] = s[i]
  <2>1. ASSUME Len(str) <= Len(s)
        PROVE  SubSeq(s, 1, Len(str)) = str
                 <=> \A i \in 1 .. Len(str) : str[i] = s[i]
    <3>1. /\ str = [i \in 1 .. Len(str) |-> str[i]]
          /\ SubSeq(s, 1, Len(str)) = [i \in 1 .. Len(str) |-> s[i]]
      BY <1>1, <2>1
    <3> QED BY <3>1, Zenon
  <2> QED BY <2>1, Zenon DEF Begins
<1>6. ASSUME Len(str) <= Len(s)
      PROVE  hpack_tables_dynamic_compare_string(t, p, str)
               <=> \A i \in 1 .. Len(str) : str[i] = s[i]
  <2>1. \A i \in 1 .. Len(str) : i \in 1 .. Len(s)
    BY <1>1, <1>6
  <2> QED BY <1>3, <2>1, Zenon DEF hpack_tables_dynamic_compare_string
<1>7. ASSUME ~(Len(str) <= Len(s))
      PROVE  ~hpack_tables_dynamic_compare_string(t, p, str)
  <2>1. Len(s) + 1 \in 1 .. Len(str)
    BY <1>1, <1>7
  <2>2. str[Len(s) + 1] # 0
    BY <1>1, <2>1
  <2> QED BY <1>4, <2>1, <2>2, Zenon DEF hpack_tables_dynamic_compare_string
<1> QED BY <1>5, <1>6, <1>7, Zenon

\* The comparisons of find_index tell whether e, the header at distance pos, has
\* this name and a given value.
IsRecognised(t, pos, e, name) ==
  /\ hpack_tables_dynamic_compare_string(t, pos, name) <=> e[1] = name
  /\ \A value \in Unextended(Values) : Matches(t, pos, name, value) <=> e = <<name, value>>

\* Where the names and the values are not the beginning of others, the encoder
\* recognises the header of an index.
LEMMA Recognises ==
  ASSUME NEW t, NEW es, Holds(t, es), NEW k \in 1 .. Len(es), NEW name \in Unextended(Names)
  PROVE  IsRecognised(t, Off(es, k), es[k], name)
<1> DEFINE e == es[k]
           p == Off(es, k)
           q == p - Len(e[1]) - 1
<1>1. /\ t.max_size \in Nat \ {0} /\ t.next \in 0 .. t.max_size - 1
      /\ e \in Headers /\ p \in 1 .. t.max_size - 1
      /\ Len(e[1]) + 1 <= p /\ StringAt(t, p, e[1])
      /\ q \in 0 .. t.max_size - 1
      /\ Len(e[2]) + 1 <= q /\ StringAt(t, q, e[2])
  BY EntryStrings, Zenon
<1> HIDE DEF e, p, q
<1>3. p \in 0 .. t.max_size - 1
  BY <1>1
<1>4. /\ e[1] \in Names /\ e[2] \in Values /\ e = <<e[1], e[2]>>
      /\ e[1] \in Seq(Nat \ {0}) /\ e[2] \in Seq(Nat \ {0})
  BY <1>1, HeaderParts, Zenon
<1>5. ASSUME NEW S, NEW s \in Unextended(S), NEW x \in S, x \in Seq(Nat \ {0})
      PROVE  Begins(s, x) <=> x = s
  <2>1. Begins(s, x) => x = s
    BY <1>5, Zenon DEF Unextended
  <2>2. Begins(x, x)
    <3>1. Len(x) \in Nat
      BY <1>5, SeqParts, Zenon
    <3>2. Len(x) <= Len(x)
      BY <3>1
    <3>3. SubSeq(x, 1, Len(x)) = x
      BY <1>5
    <3> QED BY <3>2, <3>3, Zenon DEF Begins
  <2> QED BY <2>1, <2>2, Zenon
<1>6. name \in Names /\ name \in Seq(Nat \ {0})
  BY TableAssumption, Zenon DEF Unextended
<1>7. hpack_tables_dynamic_compare_string(t, p, name) <=> e[1] = name
  <2>1. hpack_tables_dynamic_compare_string(t, p, name) <=> Begins(name, e[1])
    BY <1>1, <1>3, <1>4, <1>6, CompareIs, Zenon
  <2>2. Begins(name, e[1]) <=> e[1] = name
    BY <1>4, <1>5, Zenon
  <2> QED BY <2>1, <2>2, Zenon
<1>8. ASSUME NEW value \in Unextended(Values)
      PROVE  Matches(t, p, name, value) <=> e = <<name, value>>
  <2>1. value \in Seq(Nat \ {0})
    BY TableAssumption, Zenon DEF Unextended
  <2>2. hpack_tables_dynamic_compare_string(t, q, value) <=> e[2] = value
    <3>1. hpack_tables_dynamic_compare_string(t, q, value) <=> Begins(value, e[2])
      <4>1. /\ t.max_size \in Nat \ {0} /\ t.next \in 0 .. t.max_size - 1
            /\ q \in 0 .. t.max_size - 1 /\ Len(e[2]) + 1 <= q /\ StringAt(t, q, e[2])
            /\ e[2] \in Seq(Nat \ {0})
        BY <1>1, <1>4, Zenon
      <4> QED BY <2>1, <4>1, CompareIs, Zenon
    <3>2. Begins(value, e[2]) <=> e[2] = value
      <4>1. e[2] \in Values /\ e[2] \in Seq(Nat \ {0})
        BY <1>4, Zenon
      <4> QED BY <1>5, <4>1, ZenonT(40)
    <3> QED BY <3>1, <3>2, Zenon
  <2>3. Matches(t, p, name, value)
          <=> /\ hpack_tables_dynamic_compare_string(t, p, name)
              /\ hpack_tables_dynamic_compare_string(t, p - Len(name) - 1, value)
    BY Zenon DEF Matches
  <2>4. e[1] = name => p - Len(name) - 1 = q
    BY Zenon DEF q
  <2>5. e = <<name, value>> <=> e[1] = name /\ e[2] = value
    BY <1>4
  <2> QED BY <1>7, <2>2, <2>3, <2>4, <2>5, Zenon
<1>9. IsRecognised(t, p, e, name)
  BY <1>7, <1>8, Zenon DEF IsRecognised
<1> QED BY <1>9, Zenon DEF e, p

\* There are more zeros up to a zero than before it.
LEMMA ZerosGrow ==
  ASSUME NEW t, NEW a \in Nat, NEW c \in Nat, a < c, Cell(t, t.next, -c) = 0
  PROVE  Zeros(t, a) < Zeros(t, c)
<1> DEFINE Z(i) == {j \in 1 .. i : Cell(t, t.next, -j) = 0}
<1>1. ASSUME NEW i \in Nat PROVE IsFiniteSet(Z(i)) /\ Cardinality(Z(i)) \in Nat
  <2>1. 1 \in Int /\ i \in Int
    OBVIOUS
  <2>2. IsFiniteSet(1 .. i) /\ Z(i) \in SUBSET (1 .. i)
    BY <2>1, FS_Interval, Zenon
  <2> HIDE DEF Z
  <2> QED BY <2>2, FS_Subset, FS_CardinalityType, Zenon
<1>2. c \in 1 .. c /\ c \notin 1 .. a /\ 1 .. a \subseteq 1 .. c
  OBVIOUS
<1>3. c \notin Z(a) /\ Z(a) \cup {c} \in SUBSET Z(c)
  BY <1>2, Zenon
<1>4. \A i : Zeros(t, i) = Cardinality(Z(i))
  BY Zenon DEF Zeros
<1> HIDE DEF Z
<1>5. Cardinality(Z(a) \cup {c}) = Cardinality(Z(a)) + 1
  <2>1. IsFiniteSet(Z(a)) /\ c \notin Z(a)
    BY <1>1, <1>3, Zenon
  <2> QED BY <2>1, FS_AddElement, Zenon
<1>6. Cardinality(Z(a) \cup {c}) <= Cardinality(Z(c))
  BY <1>1, <1>3, FS_Subset, Zenon
<1>7. Cardinality(Z(a)) < Cardinality(Z(c))
  <2>1. Cardinality(Z(a)) \in Nat /\ Cardinality(Z(c)) \in Nat
    BY <1>1, Zenon
  <2> QED BY <1>5, <1>6, <2>1
<1>8. Zeros(t, a) = Cardinality(Z(a)) /\ Zeros(t, c) = Cardinality(Z(c))
  BY <1>4, Zenon
<1> QED BY <1>7, <1>8

\* Only one zero can be at distance 1.
LEMMA ZerosOne ==
  ASSUME NEW t
  PROVE  Zeros(t, 1) \in 0 .. 1
<1> DEFINE Z == {j \in 1 .. 1 : Cell(t, t.next, -j) = 0}
<1>1. Z \in SUBSET {1}
  OBVIOUS
<1>2. IsFiniteSet({1}) /\ Cardinality({1}) = 1
  BY FS_Singleton, Zenon
<1>3. Zeros(t, 1) = Cardinality(Z)
  BY Zenon DEF Zeros
<1> HIDE DEF Z
<1>4. Cardinality(Z) \in Nat /\ Cardinality(Z) <= 1
  BY <1>1, <1>2, FS_Subset, FS_CardinalityType, Zenon
<1> QED BY <1>3, <1>4

\* As long as the counter does not overflow, a search comes by the beginning of
\* every header, counts two strings for each up to it, and compares there.
LEMMA ComparesAll ==
  ASSUME NEW t, NEW es, Holds(t, es), 2 * Len(es) <= UINT8_MAX, NEW k \in 1 .. Len(es)
  PROVE  Off(es, k) \in Compared(t) /\ strings_counter(t, Off(es, k)) = 2 * k
<1> DEFINE p == Off(es, k)
           n == Len(es)
<1>1. n \in Nat /\ t.n_entries = n /\ es \in Seq(Headers)
  BY HoldsNumbers, Zenon
<1>2. k \in 0 .. n /\ n > 0 /\ k \in Nat /\ k <= n
  BY <1>1
<1>3. t.max_size \in Nat \ {0} /\ t.next \in 0 .. t.max_size - 1
  BY <1>2, HoldsNumbers, Zenon
<1>4. p \in 1 .. t.max_size - 1
  BY PosOf, Zenon
<1>5. Zeros(t, p) = 2 * k /\ \A i \in 0 .. p - 1 : Zeros(t, i) \in Nat /\ Zeros(t, i) < 2 * k
  BY <1>2, ZerosAt, Zenon
<1>6. Cell(t, t.next, -p) = 0
  <2>1. p \in 0 .. t.max_size - 1
    BY <1>3, <1>4
  <2>2. Back(t, p) = 0
    BY Zenon DEF Holds, EntryAt
  <2> QED BY <1>3, <2>1, <2>2, CellBack, Zenon
<1> HIDE DEF p
<1>7. 2 * n \in Nat /\ 2 * n <= UINT8_MAX /\ UINT8_MAX \in Nat
  BY <1>1, CounterMod
<1> HIDE DEF n
<1>8. strings_counter(t, p) = 2 * k
  <2>1. 2 * k \in 0 .. UINT8_MAX
    BY <1>1, <1>2, <1>7
  <2> QED BY <1>5, <2>1, CounterMod, Zenon DEF strings_counter
<1>9. ASSUME NEW j \in 1 .. p - 1 PROVE strings_counter(t, j) \div 2 < t.n_entries
  <2>1. j \in 0 .. p - 1
    BY <1>4
  <2>2. Zeros(t, j) \in Nat /\ Zeros(t, j) < 2 * k
    BY <1>5, <2>1, Zenon
  <2>3. Zeros(t, j) \in 0 .. UINT8_MAX
    BY <1>1, <1>2, <1>7, <2>2
  <2>4. strings_counter(t, j) = Zeros(t, j)
    BY <2>3, CounterMod, Zenon DEF strings_counter
  <2>5. PICK z \in Nat : z = Zeros(t, j)
    BY <2>2, Zenon
  <2>6. z \div 2 < n
    BY <1>1, <1>2, <2>2, <2>5
  <2> QED BY <1>1, <2>4, <2>5, <2>6, Zenon
<1>10. 2 * k > 0 /\ (2 * k) % 2 = 0 /\ p \in 1 .. t.max_size
  BY <1>2, <1>3, <1>4
<1>11. p \in Compared(t)
  BY <1>6, <1>8, <1>9, <1>10, Zenon DEF Compared
<1> QED BY <1>8, <1>11, Zenon DEF p

\* The distances at which the headers es begin.
Beginnings(es) == {Off(es, k) : k \in 1 .. Len(es)}

\* A search compares nowhere else.
LEMMA ComparesOnly ==
  ASSUME NEW t, NEW es, Holds(t, es), 2 * Len(es) <= UINT8_MAX, NEW i \in Compared(t)
  PROVE  i \in Beginnings(es)
<1> DEFINE n == Len(es)
           q == Off(es, n)
<1>1. n \in Nat /\ t.n_entries = n /\ t.max_size \in Nat
  <2>1. n \in Nat /\ t.n_entries = n /\ t.max_size \in 0 .. MaxTable /\ MaxTable \in Nat
    BY HoldsNumbers, TableFits, Zenon
  <2> QED BY <2>1
<1>2. /\ i \in 1 .. t.max_size /\ Cell(t, t.next, -i) = 0
      /\ strings_counter(t, i) > 0 /\ strings_counter(t, i) % 2 = 0
      /\ \A j \in 1 .. i - 1 : strings_counter(t, j) \div 2 < t.n_entries
  BY Zenon DEF Compared
<1>3. i \in Nat /\ i > 0
  BY <1>1, <1>2
<1>4. UINT8_MAX \in Nat /\ 2 * n <= UINT8_MAX
  BY CounterMod
<1>5. ASSUME n = 0 PROVE FALSE
  <2>1. strings_counter(t, 1) \in 0 .. 1
    <3>1. UINT8_MAX >= 1
      BY SMT DEF UINT8_MAX
    <3>2. Zeros(t, 1) \in 0 .. UINT8_MAX
      BY <1>4, <3>1, ZerosOne
    <3>3. strings_counter(t, 1) = Zeros(t, 1)
      BY <3>2, CounterMod, Zenon DEF strings_counter
    <3> QED BY <3>3, ZerosOne, Zenon
  <2>2. CASE i = 1
    BY <1>2, <2>1, <2>2
  <2>3. CASE i > 1
    <3>1. 1 \in 1 .. i - 1
      BY <1>3, <2>3
    <3>2. strings_counter(t, 1) \div 2 < 0
      BY <1>1, <1>2, <1>5, <3>1, Zenon
    <3> QED BY <2>1, <3>2
  <2> QED BY <1>3, <2>2, <2>3
<1>6. n \in 1 .. Len(es) /\ n \in 0 .. Len(es)
  BY <1>1, <1>5
<1>7. strings_counter(t, q) = 2 * n /\ q \in 1 .. t.max_size
  <2>1. q \in Compared(t) /\ strings_counter(t, q) = 2 * n
    BY <1>6, ComparesAll, Zenon
  <2> QED BY <2>1, Zenon DEF Compared
<1>8. Zeros(t, q) = 2 * n /\ \A j \in 0 .. q - 1 : Zeros(t, j) \in Nat /\ Zeros(t, j) < 2 * n
  BY <1>6, ZerosAt, Zenon
<1>9. q \in Nat
  BY <1>1, <1>7
<1> HIDE DEF q
<1>10. i <= q
  <2> SUFFICES ASSUME q < i PROVE FALSE
    BY <1>3, <1>9
  <2>1. q \in 1 .. i - 1
    BY <1>3, <1>7, <1>9
  <2>2. strings_counter(t, q) \div 2 < n
    BY <1>1, <1>2, <2>1, Zenon
  <2>3. (2 * n) \div 2 < n
    BY <1>7, <2>2, Zenon
  <2> QED BY <1>1, <2>3
<1>11. Zeros(t, i) \in Nat /\ Zeros(t, i) <= 2 * n
  <2>1. CASE i = q
    BY <1>1, <1>8, <2>1
  <2>2. CASE i < q
    <3>1. i \in 0 .. q - 1
      BY <1>3, <1>9, <2>2
    <3>2. Zeros(t, i) \in Nat /\ Zeros(t, i) < 2 * n
      BY <1>8, <3>1, Zenon
    <3> QED BY <1>1, <3>2
  <2> QED BY <1>3, <1>9, <1>10, <2>1, <2>2
<1>12. strings_counter(t, i) = Zeros(t, i)
  <2>1. Zeros(t, i) \in 0 .. UINT8_MAX
    BY <1>1, <1>4, <1>11
  <2> QED BY <2>1, CounterMod, Zenon DEF strings_counter
<1>13. PICK k \in 1 .. n : Zeros(t, i) = 2 * k
  <2>1. PICK z \in Nat : z = Zeros(t, i)
    BY <1>11, Zenon
  <2>2. z <= 2 * n /\ z > 0 /\ z % 2 = 0
    BY <1>2, <1>11, <1>12, <2>1, Zenon
  <2>3. z \div 2 \in 1 .. n /\ z = 2 * (z \div 2)
    BY <1>1, <2>2
  <2> QED BY <2>1, <2>3, Zenon
<1>14. /\ k \in 0 .. Len(es) /\ k \in 1 .. Len(es) /\ k \in Nat
  BY <1>1, <1>13
<1> DEFINE p == Off(es, k)
<1>15. /\ Zeros(t, p) = 2 * k
       /\ \A j \in 0 .. p - 1 : Zeros(t, j) \in Nat /\ Zeros(t, j) < 2 * k
       /\ p \in 1 .. t.max_size - 1
  BY <1>14, ZerosAt, PosOf, Zenon
<1>16. p \in Nat
  BY <1>1, <1>15
<1> HIDE DEF p
<1>17. ~(i < p)
  <2> SUFFICES ASSUME i < p PROVE FALSE
    OBVIOUS
  <2>1. i \in 0 .. p - 1
    BY <1>3, <1>16
  <2>2. Zeros(t, i) < 2 * k
    BY <1>15, <2>1, Zenon
  <2> QED BY <1>13, <1>14, <2>2
<1>18. ~(p < i)
  <2> SUFFICES ASSUME p < i PROVE FALSE
    OBVIOUS
  <2>1. Zeros(t, p) < Zeros(t, i)
    BY <1>2, <1>3, <1>16, ZerosGrow, Zenon
  <2>2. 2 * k < 2 * k
    BY <1>13, <1>15, <2>1, Zenon
  <2> QED BY <1>14, <2>2
<1>19. i = p
  BY <1>3, <1>16, <1>17, <1>18
<1> QED BY <1>14, <1>19, Zenon DEF p, Beginnings

\* The header at which a search stops is the first of those whose beginning it
\* accepts.
LEMMA FoundIs ==
  ASSUME NEW t, NEW es, Holds(t, es), 2 * Len(es) <= UINT8_MAX,
         NEW D, D \subseteq Compared(t), NEW K, K \subseteq 1 .. Len(es),
         \A k \in 1 .. Len(es) : Off(es, k) \in D <=> k \in K
  PROVE  FoundIn(t, D) = First(K)
<1>1. es \in Seq(Headers) /\ Len(es) \in Nat
  BY HoldsNumbers, Zenon
<1>2. ASSUME NEW i \in D PROVE \E k \in K : i = Off(es, k)
  <2>1. i \in Compared(t)
    BY Zenon
  <2>2. i \in Beginnings(es)
    BY <2>1, ComparesOnly, Zenon
  <2>3. PICK k \in 1 .. Len(es) : i = Off(es, k)
    BY <2>2, Zenon DEF Beginnings
  <2> QED BY <2>3, Zenon
<1>3. CASE K = {}
  <2>1. D = {}
    BY <1>2, <1>3, Zenon
  <2> QED BY <1>3, <2>1, Zenon DEF FoundIn, First
<1>4. CASE K # {}
  <2>1. K \subseteq Nat
    BY <1>1
  <2>2. PICK x \in K : \A y \in K : x <= y
    BY <1>4, <2>1, LeastNatural, Zenon
  <2>3. First(K) = x
    BY <2>1, <2>2, MinIs, Zenon
  <2>4. x \in 1 .. Len(es) /\ x \in Nat /\ Off(es, x) \in D
    BY <2>1, <2>2, Zenon
  <2>5. D \subseteq Nat
    <3>1. ASSUME NEW i \in D PROVE i \in Nat
      <4>1. PICK k \in K : i = Off(es, k)
        BY <1>2, Zenon
      <4>2. k \in 0 .. Len(es)
        BY <1>1
      <4> QED BY <1>1, <4>1, <4>2, OffTypes, Zenon
    <3> QED BY <3>1, Zenon
  <2>6. ASSUME NEW i \in D PROVE Off(es, x) <= i
    <3>1. PICK k \in K : i = Off(es, k)
      BY <1>2, Zenon
    <3>2. k \in 0 .. Len(es) /\ x \in 0 .. Len(es)
      BY <1>1, <2>4
    <3>3. x <= k
      BY <2>2, Zenon
    <3> QED BY <1>1, <3>1, <3>2, <3>3, OffMonotone, Zenon
  <2>7. Min(D) = Off(es, x)
    BY <2>4, <2>5, <2>6, MinIs, Zenon
  <2>8. strings_counter(t, Off(es, x)) = 2 * x
    BY <2>4, ComparesAll, Zenon
  <2>9. FoundIn(t, D) = (2 * x) \div 2
    BY <2>4, <2>7, <2>8, Zenon DEF FoundIn
  <2>10. (2 * x) \div 2 = x
    BY <2>4
  <2> QED BY <2>3, <2>9, <2>10, Zenon
<1> QED BY <1>3, <1>4, Zenon

-----------------------------------------------------------------------------
(* The theorems.                                                             *)

\* The loops of hpack_tables_dynamic_table_add_entry and
\* hpack_tables_dynamic_table_resize, which call pop without a look at what it
\* returns, end: pop finds an entry to remove as long as the size is too large.
THEOREM EvictionAlwaysEnds == Spec => []EvictionEnds
<1>1. IInv => EvictionEnds
  BY Zenon DEF IInv, EvictionEnds
<1> QED BY <1>1, Invariant, PTL

\* The size that pop and add_entry keep up to date is the size of the headers
\* that can be read, and never exceeds the limit.
THEOREM SizesAlwaysAgree == Spec => []SizesAgree
<1>1. ASSUME IInv PROVE SizesAgree
  <2> DEFINE n == table.n_entries
             f == [k \in 1 .. n |-> Len(Entries[k][1]) + Len(Entries[k][2]) + Overhead]
  <2>1. Holds(table, Entries)
    BY <1>1, Zenon DEF IInv
  <2>2. /\ n \in Nat /\ n = Len(Entries) /\ table.actual_size = Abs!SizeOf(Entries, n)
        /\ table.actual_size <= table.max_size
    <3>1. Len(Entries) \in Nat /\ n = Len(Entries)
      BY <2>1, HoldsNumbers, Zenon
    <3> QED BY <2>1, <3>1, Zenon DEF Holds
  <2>3. f = AllSizes(Entries)
    BY <2>2, Zenon DEF AllSizes, Abs!Size
  <2>4. Len(f) = n
    BY <2>2
  <2> HIDE DEF f
  <2>5. table.actual_size = Total(f)
    BY <2>2, <2>3, <2>4, SizeOfIs, Zenon DEF Total
  <2> QED BY <2>2, <2>5, Zenon DEF SizesAgree, f
<1> QED BY <1>1, Invariant, PTL

\* hpack_tables_find_index and hpack_tables_find_index_name find a header, or a
\* name, exactly if the table holds it, and the newest one, for all strings
\* that are not the beginning of others, in a table with at most 127 headers.
THEOREM AlwaysFindsNewest == Spec => []FindsNewest
<1>1. ASSUME IInv, 2 * table.n_entries <= UINT8_MAX, NEW name \in Unextended(Names)
      PROVE  /\ hpack_tables_find_index_name(table, name)
                  = First({k \in 1 .. table.n_entries : Entries[k][1] = name})
             /\ \A value \in Unextended(Values) :
                  hpack_tables_find_index(table, name, value)
                    = First({k \in 1 .. table.n_entries : Entries[k] = <<name, value>>})
  <2> DEFINE n == Len(Entries)
             D == {i \in Compared(table) : hpack_tables_dynamic_compare_string(table, i, name)}
             K == {k \in 1 .. n : Entries[k][1] = name}
  <2>1. Holds(table, Entries) /\ table.n_entries = n
    <3>1. Holds(table, Entries)
      BY <1>1, Zenon DEF IInv
    <3> QED BY <3>1, HoldsNumbers, Zenon
  <2>2. 2 * Len(Entries) <= UINT8_MAX
    BY <1>1, <2>1, Zenon
  <2>3. ASSUME NEW k \in 1 .. Len(Entries)
        PROVE  /\ Off(Entries, k) \in Compared(table)
               /\ hpack_tables_dynamic_compare_string(table, Off(Entries, k), name)
                    <=> Entries[k][1] = name
               /\ \A value \in Unextended(Values) :
                    Matches(table, Off(Entries, k), name, value)
                      <=> Entries[k] = <<name, value>>
    <3>1. IsRecognised(table, Off(Entries, k), Entries[k], name)
      BY <1>1, <2>1, Recognises, Zenon
    <3>2. Off(Entries, k) \in Compared(table)
      BY <2>1, <2>2, ComparesAll, Zenon
    <3> QED BY <3>1, <3>2, Zenon DEF IsRecognised
  <2>4. hpack_tables_find_index_name(table, name) = First(K)
    <3>1. D \subseteq Compared(table) /\ K \subseteq 1 .. Len(Entries)
      BY Zenon
    <3>2. \A k \in 1 .. Len(Entries) : Off(Entries, k) \in D <=> k \in K
      BY <2>3, Zenon
    <3>3. hpack_tables_find_index_name(table, name) = FoundIn(table, D)
      BY Zenon DEF hpack_tables_find_index_name
    <3> HIDE DEF D, K, n
    <3> QED BY <2>1, <2>2, <3>1, <3>2, <3>3, FoundIs, Zenon
  <2>5. ASSUME NEW value \in Unextended(Values)
        PROVE  hpack_tables_find_index(table, name, value)
                 = First({k \in 1 .. n : Entries[k] = <<name, value>>})
    <3> DEFINE V == {i \in Compared(table) : Matches(table, i, name, value)}
               W == {k \in 1 .. n : Entries[k] = <<name, value>>}
    <3>1. V \subseteq Compared(table) /\ W \subseteq 1 .. Len(Entries)
      BY Zenon
    <3>2. \A k \in 1 .. Len(Entries) : Off(Entries, k) \in V <=> k \in W
      BY <2>3, <2>5, Zenon
    <3>3. hpack_tables_find_index(table, name, value) = FoundIn(table, V)
      BY Zenon DEF hpack_tables_find_index
    <3> HIDE DEF V, W, n
    <3>4. hpack_tables_find_index(table, name, value) = First(W)
      BY <2>1, <2>2, <3>1, <3>2, <3>3, FoundIs, Zenon
    <3> QED BY <3>4, Zenon DEF W
  <2> QED BY <2>1, <2>4, <2>5, Zenon
<1>2. IInv => FindsNewest
  BY <1>1, Zenon DEF FindsNewest
<1> QED BY <1>2, Invariant, PTL

\* With 32 octets for each header beside its characters, a list of headers with
\* names has at least 33 octets for each.
LEMMA SizeAtLeast ==
  ASSUME NEW es \in Seq(Headers), Overhead = 32,
         <<>> \notin Names
  PROVE  \A k \in 0 .. Len(es) : Abs!SizeOf(es, k) \in Nat /\ 33 * k <= Abs!SizeOf(es, k)
<1> DEFINE T == {k \in Nat : Abs!SizeOf(es, k) \in Nat /\ 33 * k <= Abs!SizeOf(es, k)}
<1>1. Len(es) \in Nat
  BY SeqParts
<1>2. 0 \in T
  BY OffStep
<1>3. ASSUME NEW k \in 0 .. Len(es) - 1, k \in T PROVE k + 1 \in T
  <2>1. /\ es[k + 1] \in Headers
        /\ Abs!SizeOf(es, k + 1) = Abs!SizeOf(es, k) + Abs!Size(es[k + 1])
    BY OffStep, Zenon
  <2>2. Abs!Size(es[k + 1]) \in Nat /\ Abs!Size(es[k + 1]) >= 33
    <3> DEFINE e == es[k + 1]
    <3>1. e[1] \in Names /\ e[1] \in Seq(Nat \ {0}) /\ Len(e[1]) \in Nat /\ Len(e[2]) \in Nat
      BY <2>1, HeaderParts, Zenon
    <3>2. Len(e[1]) # 0
      BY <3>1
    <3>3. Abs!Size(e) = Len(e[1]) + Len(e[2]) + Overhead
      BY Zenon DEF Abs!Size
    <3> HIDE DEF e
    <3>4. PICK a \in Nat, b \in Nat : a = Len(e[1]) /\ b = Len(e[2])
      BY <3>1, Zenon
    <3>5. a # 0 /\ Abs!Size(e) = a + b + 32
      BY <3>2, <3>3, <3>4, Zenon
    <3>6. Abs!Size(e) \in Nat /\ Abs!Size(e) >= 33
      BY <3>5
    <3> QED BY <3>6, Zenon DEF e
  <2>3. Abs!SizeOf(es, k) \in Nat /\ 33 * k <= Abs!SizeOf(es, k)
    BY <1>3, Zenon
  <2> QED BY <2>1, <2>2, <2>3
<1> HIDE DEF T
<1>4. \A k \in 0 .. Len(es) : k \in T
  BY <1>1, <1>2, <1>3, Induction
<1> QED BY <1>4, Zenon DEF T

\* HPACK_MAX_DYNAMIC_TABLE_SIZE if it is not configured (hpack/structs.h:16).
DefaultSize == 4096

\* The 8-bit counter of a search counts all strings of a table of the default
\* size, if every header has a name: what FindsNewest supposes holds in every
\* state, however short names and values are.
THEOREM CounterSuffices ==
  ASSUME Overhead = 32, MaxTable <= DefaultSize,
         <<>> \notin Names
  PROVE  Spec => [](2 * table.n_entries <= UINT8_MAX)
<1>1. ASSUME IInv PROVE 2 * table.n_entries <= UINT8_MAX
  <2>1. Holds(table, Entries)
    BY <1>1, Zenon DEF IInv
  <2>2. Entries \in Seq(Headers) /\ Len(Entries) \in Nat /\ table.n_entries = Len(Entries)
    BY <2>1, HoldsNumbers, Zenon
  <2>3. table.max_size \in 0 .. MaxTable /\ table.actual_size \in 0 .. table.max_size
    BY <2>1, HoldsNumbers, Zenon
  <2>4. MaxTable \in Nat
    BY TableFits, Zenon
  <2>5. 33 * Len(Entries) <= table.actual_size
    <3>1. table.actual_size = Abs!SizeOf(Entries, Len(Entries))
      BY <2>1, HoldsNumbers, Zenon
    <3>2. Len(Entries) \in 0 .. Len(Entries)
      BY <2>2
    <3> QED BY <2>2, <3>1, <3>2, SizeAtLeast, Zenon
  <2>6. PICK n \in Nat, size \in Nat, max \in Nat :
          /\ n = table.n_entries /\ size = table.actual_size /\ max = table.max_size
    BY <2>2, <2>3, <2>4
  <2>7. 33 * n <= size /\ size <= max /\ max <= MaxTable
    BY <2>2, <2>3, <2>4, <2>5, <2>6
  <2>8. 2 * n <= UINT8_MAX
    BY <2>4, <2>7 DEF DefaultSize, UINT8_MAX
  <2> QED BY <2>6, <2>8, Zenon
<1> QED BY <1>1, Invariant, PTL

\* The circular buffer of tables.c implements the list of headers of HPACK:
\* what the decoder reads for an index is the header that HPACK has there, after
\* any sequence of additions, evictions and changes of size, for every size of
\* the buffer and every set of strings without a zero in them.
THEOREM BufferIsEntries == Spec => IsEntries
<1>1. Init => Abs!Init
  <2> SUFFICES ASSUME Init PROVE Abs!Init
    OBVIOUS
  <2>1. Entries = << >>
    BY InitHolds, Zenon
  <2>2. table.max_size = MaxTable /\ table.settings_max_table_size = MaxTable
    BY DEF Init, hpack_tables_init_dynamic_table
  <2> QED BY <2>1, <2>2, Zenon DEF Abs!Init
<1>2. IInv /\ [Next]_vars
        => [Abs!Next]_<<Entries, table.max_size, table.settings_max_table_size>>
  BY StepHolds, Zenon
<1> QED BY <1>1, <1>2, Invariant, PTL DEF Spec, IsEntries, Abs!Spec
=============================================================================
