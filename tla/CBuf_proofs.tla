---------------------------- MODULE CBuf_proofs ----------------------------
(***************************************************************************)
(* Proofs about the circular buffer, for every size of the buffer and every *)
(* data.  Wrap(a) is the value of a % MaxLen for the sums that occur: they  *)
(* are all smaller than twice the size, so that one subtraction is enough.  *)
(***************************************************************************)
EXTENDS CBuf, SequenceTheorems, TLAPS

Wrap(a) == IF a < MaxLen THEN a ELSE a - MaxLen

\* The buffer has at least one cell.
LEMMA Size == MaxLen \in Nat /\ MaxLen > 0
  BY CBufAssumption

\* The indices of the buffer are reduced modulo maxlen (cbuf.c:30, 61, 94);
\* for the sums that occur this subtracts maxlen at most once.
LEMMA WrapMod ==
  ASSUME NEW a \in 0 .. 2 * MaxLen - 1
  PROVE  a % MaxLen = Wrap(a)
  BY Size DEF Wrap

----------------------------------------------------------------------------
(* The inductive invariant: the indices agree, also those of a running peek *)

PeekAgrees == op = "peek" => head = (rtail + rlen) % MaxLen

IInv == TypeOK /\ IndicesAgree /\ PeekAgrees

\* What a turn of cbuf_push copies fits in the free part of the array and in
\* the data, and is not empty (cbuf.c:21-24).
LEMMA PushLenBounds ==
  ASSUME TypeOK, IndicesAgree, PushMore
  PROVE  /\ PushLen \in 1 .. Len(src)
         /\ head + PushLen <= MaxLen
         /\ len + PushLen <= MaxLen
         /\ head < tail => head + PushLen <= tail
<1>1. head = Wrap(tail + len)
  BY WrapMod, Size DEF TypeOK, IndicesAgree, Index
<1>2. /\ Len(src) \in Nat \ {0}
      /\ head \in 0 .. MaxLen - 1 /\ tail \in 0 .. MaxLen - 1
      /\ len \in 0 .. MaxLen - 1
  BY Size DEF TypeOK, PushMore, Index
<1>3. ASSUME NEW h \in 0 .. MaxLen - 1, NEW t \in 0 .. MaxLen - 1,
             NEW l \in 0 .. MaxLen - 1, NEW n \in Nat \ {0}, NEW k,
             h = Wrap(t + l),
             k = IF h < t THEN MIN(n, t - h) ELSE MIN(n, MaxLen - h)
      PROVE  /\ k \in 1 .. n
             /\ h + k <= MaxLen
             /\ l + k <= MaxLen
             /\ h < t => h + k <= t
  BY <1>3, Size DEF MIN, Wrap
<1> QED
  BY <1>1, <1>2, <1>3 DEF PushLen

\* What a turn of cbuf_pop or cbuf_peek copies is in the used part of the
\* array, and is not empty (cbuf.c:49-52, 83-86).
LEMMA ReadLenBounds ==
  ASSUME TypeOK, NEW t \in Index, NEW n \in 1 .. MaxLen,
         head = (t + n) % MaxLen, want > 0
  PROVE  /\ ReadLen(t) \in 1 .. n
         /\ ReadLen(t) <= want
         /\ t + ReadLen(t) <= MaxLen
         /\ (t + ReadLen(t)) % MaxLen \in Index
         /\ head = (((t + ReadLen(t)) % MaxLen) + (n - ReadLen(t))) % MaxLen
<1>1. head = Wrap(t + n)
  BY WrapMod, Size DEF Index
<1>2. /\ ReadLen(t) \in 1 .. n
      /\ ReadLen(t) <= want
      /\ t + ReadLen(t) <= MaxLen
  BY <1>1, Size DEF TypeOK, ReadLen, MIN, Wrap, Index
<1>3. (t + ReadLen(t)) % MaxLen = Wrap(t + ReadLen(t))
  BY <1>2, WrapMod, Size DEF Index
<1>4. Wrap(t + ReadLen(t)) \in Index
  BY <1>2, Size DEF Wrap, Index
<1>5. (Wrap(t + ReadLen(t)) + (n - ReadLen(t))) % MaxLen
        = Wrap(Wrap(t + ReadLen(t)) + (n - ReadLen(t)))
  <2>1. Wrap(t + ReadLen(t)) + (n - ReadLen(t)) \in 0 .. 2 * MaxLen - 1
    BY <1>2, <1>4, Size DEF Index
  <2> QED
    BY <2>1, WrapMod
<1>6. head = Wrap(Wrap(t + ReadLen(t)) + (n - ReadLen(t)))
  BY <1>1, <1>2, Size DEF Wrap, Index
<1> QED
  BY <1>2, <1>3, <1>4, <1>5, <1>6

\* A piece of the array is a sequence of its bytes.
LEMMA PieceType ==
  ASSUME TypeOK, NEW t \in Index, NEW k \in Nat, t + k <= MaxLen
  PROVE  Piece(t, k) \in Seq(Bytes) /\ Len(Piece(t, k)) = k
<1>1. ASSUME NEW i \in 1 .. k PROVE ptr[t + i - 1] \in Bytes
  <2>1. t + i - 1 \in Index
    BY Size DEF Index
  <2> QED
    BY <2>1 DEF TypeOK
<1>2. Piece(t, k) \in [1 .. k -> Bytes]
  BY <1>1 DEF Piece
<1> QED
  BY <1>2

\* An initialised buffer has agreeing indices (cbuf_init).
LEMMA InitIInv == cbuf_init => IInv
<1> SUFFICES ASSUME cbuf_init PROVE IInv
  OBVIOUS
<1>1. TypeOK
  BY Size DEF cbuf_init, TypeOK, Index
<1>2. 0 % MaxLen = 0
  BY Size
<1> QED
  BY <1>1, <1>2 DEF IInv, IndicesAgree, PeekAgrees, cbuf_init

\* One round of the loop of cbuf_push keeps the indices in agreement.
LEMMA PushIInv == IInv /\ cbuf_push => IInv'
<1> SUFFICES ASSUME IInv, cbuf_push PROVE IInv'
  OBVIOUS
<1>0. TypeOK /\ IndicesAgree /\ PushMore
  BY DEF IInv, cbuf_push
<1> DEFINE k == PushLen
<1>1. /\ k \in 1 .. Len(src)
      /\ head + k <= MaxLen
      /\ len + k <= MaxLen
  BY <1>0, PushLenBounds
<1>2. head' = Wrap(head + k) /\ head' \in Index
  <2>1. head + k \in 0 .. 2 * MaxLen - 1
    BY <1>0, <1>1, Size DEF TypeOK, Index
  <2>2. head' = Wrap(head + k)
    BY <2>1, WrapMod DEF cbuf_push
  <2> QED
    BY <2>1, <2>2, <1>1, Size DEF Wrap, Index
<1>3. ptr' \in [Index -> Bytes]
  BY <1>0, <1>1, Size DEF cbuf_push, TypeOK, Index
<1>4. src' \in Seq(Bytes) /\ moved' \in Seq(Bytes)
  BY <1>0, <1>1 DEF cbuf_push, TypeOK
<1>5. len' \in 0 .. MaxLen
  BY <1>0, <1>1, Size DEF cbuf_push, TypeOK
<1>6. TypeOK'
  BY <1>0, <1>2, <1>3, <1>4, <1>5 DEF cbuf_push, TypeOK
<1>7. head' = (tail' + len') % MaxLen
  <2>1. head = Wrap(tail + len)
    BY <1>0, WrapMod, Size DEF TypeOK, IndicesAgree, Index
  <2>2. tail + (len + k) \in 0 .. 2 * MaxLen - 1
    BY <1>0, <1>1, Size DEF TypeOK, Index
  <2>3. Wrap(head + k) = Wrap(tail + (len + k))
    BY <1>0, <1>1, <2>1, Size DEF TypeOK, Wrap, Index
  <2> QED
    BY <1>2, <2>2, <2>3, WrapMod DEF cbuf_push
<1> QED
  BY <1>6, <1>7 DEF IInv, IndicesAgree, PeekAgrees, cbuf_push

\* One round of the loop of cbuf_pop keeps the indices in agreement.
LEMMA PopIInv == IInv /\ cbuf_pop => IInv'
<1> SUFFICES ASSUME IInv, cbuf_pop PROVE IInv'
  OBVIOUS
<1>0. TypeOK /\ IndicesAgree /\ PopMore
  BY DEF IInv, cbuf_pop
<1> DEFINE k == ReadLen(tail)
<1>1. /\ k \in 1 .. len
      /\ k <= want
      /\ tail + k <= MaxLen
      /\ tail' \in Index
      /\ head = (tail' + (len - k)) % MaxLen
  BY <1>0, ReadLenBounds DEF TypeOK, IndicesAgree, PopMore, cbuf_pop
<1>2. Piece(tail, k) \in Seq(Bytes)
  BY <1>0, <1>1, PieceType DEF TypeOK
<1>3. moved' \in Seq(Bytes)
  BY <1>0, <1>2 DEF TypeOK, cbuf_pop
<1>4. len' \in 0 .. MaxLen /\ want' \in Nat
  <2>1. len' = len - k /\ want' = want - k
    BY DEF cbuf_pop
  <2>2. len \in 0 .. MaxLen /\ want \in Nat
    BY <1>0 DEF TypeOK
  <2> HIDE DEF k
  <2> QED
    BY <1>1, <2>1, <2>2, Size
<1>5. TypeOK'
  BY <1>0, <1>1, <1>3, <1>4 DEF cbuf_pop, TypeOK
<1> QED
  BY <1>1, <1>5 DEF IInv, IndicesAgree, PeekAgrees, cbuf_pop

\* One round of the loop of cbuf_peek keeps its own indices in agreement.
LEMMA PeekIInv == IInv /\ cbuf_peek => IInv'
<1> SUFFICES ASSUME IInv, cbuf_peek PROVE IInv'
  OBVIOUS
<1>0. TypeOK /\ IndicesAgree /\ PeekMore /\ head = (rtail + rlen) % MaxLen
  BY DEF IInv, PeekAgrees, cbuf_peek
<1> DEFINE k == ReadLen(rtail)
<1>1. /\ k \in 1 .. rlen
      /\ k <= want
      /\ rtail + k <= MaxLen
      /\ rtail' \in Index
      /\ head = (rtail' + (rlen - k)) % MaxLen
  BY <1>0, ReadLenBounds DEF TypeOK, PeekMore, cbuf_peek
<1>2. Piece(rtail, k) \in Seq(Bytes)
  BY <1>0, <1>1, PieceType DEF TypeOK
<1>3. moved' \in Seq(Bytes)
  BY <1>0, <1>2 DEF TypeOK, cbuf_peek
<1>4. rlen' \in 0 .. MaxLen /\ want' \in Nat
  <2>1. rlen' = rlen - k /\ want' = want - k
    BY DEF cbuf_peek
  <2>2. rlen \in 0 .. MaxLen /\ want \in Nat
    BY <1>0 DEF TypeOK
  <2> HIDE DEF k
  <2> QED
    BY <1>1, <2>1, <2>2, Size
<1>5. TypeOK'
  BY <1>0, <1>1, <1>3, <1>4 DEF cbuf_peek, TypeOK, cbuf
<1> QED
  BY <1>0, <1>1, <1>5 DEF IInv, IndicesAgree, PeekAgrees, cbuf_peek, cbuf

\* Every step of the buffer keeps the indices in agreement.
LEMMA NextIInv == IInv /\ [Next]_vars => IInv'
<1> SUFFICES ASSUME IInv, [Next]_vars PROVE IInv'
  OBVIOUS
<1> USE DEF IInv
<1>1. ASSUME NEW data \in Inputs, Push(data) PROVE IInv'
  BY <1>1, CBufAssumption
  DEF Push, TypeOK, IndicesAgree, PeekAgrees, cbuf
<1>2. ASSUME NEW n \in Lengths, Pop(n) PROVE IInv'
  BY <1>2, CBufAssumption DEF Pop, TypeOK, IndicesAgree, PeekAgrees, cbuf
<1>3. ASSUME NEW n \in Lengths, Peek(n) PROVE IInv'
  BY <1>3, CBufAssumption DEF Peek, TypeOK, IndicesAgree, PeekAgrees, cbuf
<1>4. CASE cbuf_end
  BY <1>4 DEF cbuf_end, TypeOK, IndicesAgree, PeekAgrees, call
<1>5. CASE cbuf_push_return
  BY <1>5 DEF cbuf_push_return, TypeOK, IndicesAgree, PeekAgrees, cbuf
<1>6. CASE cbuf_pop_return
  BY <1>6 DEF cbuf_pop_return, TypeOK, IndicesAgree, PeekAgrees, cbuf
<1>7. CASE cbuf_peek_return
  BY <1>7, Size
  DEF cbuf_peek_return, TypeOK, IndicesAgree, PeekAgrees, cbuf, Index
<1>8. CASE UNCHANGED vars
  BY <1>8 DEF vars, TypeOK, IndicesAgree, PeekAgrees
<1> QED
  BY <1>1, <1>2, <1>3, <1>4, <1>5, <1>6, <1>7, <1>8, PushIInv, PopIInv, PeekIInv
  DEF Next, Calls, Steps

\* In every behaviour of the buffer, of any size, the indices are inside the
\* array and the write index, the read index and the count agree
\* (cbuf.c:17-107).
THEOREM Indices == Spec => [](TypeOK /\ IndicesAgree)
<1>1. IInv => TypeOK /\ IndicesAgree
  BY DEF IInv
<1> QED
  BY <1>1, InitIInv, NextIInv, PTL DEF Spec

----------------------------------------------------------------------------
(* Where the bytes are *)

\* The i-th byte of the buffer is in the cell Wrap(tail + i - 1).
LEMMA CellWrap ==
  ASSUME TypeOK, NEW i \in 1 .. MaxLen
  PROVE  Cell(i) = Wrap(tail + i - 1) /\ Cell(i) \in Index
<1>1. tail + i - 1 \in 0 .. 2 * MaxLen - 1
  BY Size DEF TypeOK, Index
<1>2. Cell(i) = Wrap(tail + i - 1)
  BY <1>1, WrapMod DEF Cell
<1> QED
  BY <1>2, Size DEF TypeOK, Index, Wrap

\* A turn of cbuf_push leaves the bytes of the buffer where they are, and
\* puts those of its data behind them (cbuf.c:21-33).
LEMMA PushTurn ==
  ASSUME IInv, cbuf_push
  PROVE  /\ \A i \in 1 .. len : ptr'[Cell(i)] = ptr[Cell(i)]
         /\ \A i \in 1 .. PushLen : ptr'[Cell(len + i)] = src[i]
<1>0. TypeOK /\ IndicesAgree /\ PushMore
  BY DEF IInv, cbuf_push
<1> DEFINE k == PushLen
<1>1. /\ k \in 1 .. Len(src)
      /\ head + k <= MaxLen
      /\ len + k <= MaxLen
      /\ head < tail => head + k <= tail
  BY <1>0, PushLenBounds
<1>2. head = Wrap(tail + len)
  BY <1>0, WrapMod, Size DEF TypeOK, IndicesAgree, Index
<1>3. /\ head \in Index /\ tail \in Index /\ len \in 0 .. MaxLen
      /\ src \in Seq(Bytes)
  BY <1>0 DEF TypeOK
<1>4. \A j \in Index :
        ptr'[j] = IF j \in head .. head + k - 1 THEN src[j - head + 1] ELSE ptr[j]
  BY DEF cbuf_push
<1> HIDE DEF k
<1>5. ASSUME NEW i \in 1 .. len PROVE ptr'[Cell(i)] = ptr[Cell(i)]
  <2>1. Cell(i) = Wrap(tail + i - 1) /\ Cell(i) \in Index
    BY <1>0, <1>3, CellWrap, Size
  <2>2. Cell(i) \notin head .. head + k - 1
    BY <1>1, <1>2, <1>3, <2>1, Size DEF Wrap, Index
  <2> QED
    BY <1>4, <2>1, <2>2
<1>6. ASSUME NEW i \in 1 .. k PROVE ptr'[Cell(len + i)] = src[i]
  <2>1. /\ Cell(len + i) = Wrap(tail + (len + i) - 1)
        /\ Cell(len + i) \in Index
    BY <1>0, <1>1, <1>3, CellWrap, Size
  <2>2. Cell(len + i) = head + i - 1
    BY <1>1, <1>2, <1>3, <2>1, Size DEF Wrap, Index
  <2> QED
    BY <1>1, <1>3, <1>4, <2>1, <2>2, Size DEF Index
<1> QED
  BY <1>5, <1>6 DEF k

\* No push writes over a byte that was not read yet (cbuf.c:21-25).
THEOREM PushKeepsUnread == Spec => UnreadKept
<1>1. IInv /\ [Next]_vars
        => [op = "push" => \A i \in Unread : ptr'[i] = ptr[i]]_vars
  <2> SUFFICES ASSUME IInv, [Next]_vars, op = "push", NEW i \in Unread
               PROVE  ptr'[i] = ptr[i]
    OBVIOUS
  <2>1. CASE cbuf_push
    BY <2>1, PushTurn DEF Unread
  <2>2. CASE cbuf_push_return
    BY <2>2 DEF cbuf_push_return, cbuf
  <2>3. CASE UNCHANGED vars
    BY <2>3 DEF vars
  <2> QED
    BY <2>1, <2>2, <2>3
    DEF Next, Calls, Steps, Push, Pop, Peek, cbuf_end, cbuf_pop,
        cbuf_pop_return, cbuf_peek, cbuf_peek_return
<1> QED
  BY <1>1, InitIInv, NextIInv, PTL DEF Spec, UnreadKept

----------------------------------------------------------------------------
(* The buffer implements the queue *)

\* The bytes that a running push will still accept.
Fits == IF state = "OPEN" THEN MIN(Len(src), MaxLen - len) ELSE 0

\* Concatenation of bytes is associative.
LEMMA Assoc ==
  \A a, b, c \in Seq(Bytes) : (a \o b) \o c = a \o (b \o c)
  BY ConcatAssociative

\* A prefix of bytes is a sequence of bytes.
LEMMA PrefixType ==
  ASSUME NEW s \in Seq(Bytes), NEW n \in 0 .. Len(s)
  PROVE  SubSeq(s, 1, n) \in Seq(Bytes) /\ Len(SubSeq(s, 1, n)) = n
  OBVIOUS

\* What the mapped queue is while a push runs, while a pop runs and else.
LEMMA MappedPush ==
  ASSUME op = "push"
  PROVE  /\ Content = [i \in 1 .. len + Fits |->
                         IF i <= len THEN ptr[Cell(i)] ELSE src[i - len]]
         /\ Moved = moved \o SubSeq(src, 1, Fits)
  BY DEF Content, Moved, Fits

\* The queue that the buffer stands for while cbuf_pop runs.
LEMMA MappedPop ==
  ASSUME op = "pop"
  PROVE  /\ Content = [i \in 1 .. len - MIN(want, len) |->
                         ptr[Cell(MIN(want, len) + i)]]
         /\ Moved = moved \o [i \in 1 .. MIN(want, len) |-> ptr[Cell(i)]]
  BY DEF Content, Moved

\* The queue that the buffer stands for while cbuf_peek runs.
LEMMA MappedPeek ==
  ASSUME op = "peek"
  PROVE  /\ Content = [i \in 1 .. len |-> ptr[Cell(i)]]
         /\ Moved = moved \o [i \in 1 .. MIN(want, rlen) |->
                                ptr[(rtail + i - 1) % MaxLen]]
  BY DEF Content, Moved

\* The queue that the buffer stands for between two calls.
LEMMA MappedNone ==
  ASSUME op = "none"
  PROVE  Content = [i \in 1 .. len |-> ptr[Cell(i)]] /\ Moved = moved
  BY DEF Content, Moved

\* The stored bytes are a sequence of bytes.
LEMMA StoredType ==
  ASSUME TypeOK
  PROVE  /\ [i \in 1 .. len |-> ptr[Cell(i)]] \in Seq(Bytes)
         /\ Len([i \in 1 .. len |-> ptr[Cell(i)]]) = len
<1>1. len \in 0 .. MaxLen /\ len \in Nat
  BY Size DEF TypeOK
<1>2. ASSUME NEW i \in 1 .. len PROVE ptr[Cell(i)] \in Bytes
  <2>1. i \in 1 .. MaxLen
    BY <1>1, Size
  <2> QED
    BY <2>1, CellWrap DEF TypeOK
<1>3. [i \in 1 .. len |-> ptr[Cell(i)]] \in [1 .. len -> Bytes]
  BY <1>2
<1> QED
  BY <1>1, <1>3

\* What cbuf_push can store of its argument is no more than there is room for.
LEMMA FitsBounds ==
  ASSUME TypeOK
  PROVE  Fits \in Nat /\ Fits <= Len(src) /\ len + Fits <= MaxLen
<1>1. Len(src) \in Nat /\ len \in 0 .. MaxLen
  BY DEF TypeOK
<1> QED
  BY <1>1, Size DEF Fits, MIN

\* The call of cbuf_push is the push of the queue (cbuf.c:17).
LEMMA PushRefines ==
  ASSUME IInv, NEW data \in Inputs, Push(data)
  PROVE  F!Push(data)
<1> DEFINE S == [i \in 1 .. len |-> ptr[Cell(i)]]
           n == IF state = "OPEN" THEN MIN(Len(data), MaxLen - len) ELSE 0
<1>1. TypeOK /\ data \in Seq(Bytes)
  BY CBufAssumption DEF IInv
<1>2. Content = S /\ Moved = moved
  BY MappedNone DEF Push
<1>3. S \in Seq(Bytes) /\ Len(S) = len
  BY <1>1, StoredType
<1>4. n \in Nat /\ n <= Len(data)
  <2>1. Len(data) \in Nat /\ len \in 0 .. MaxLen
    BY <1>1 DEF TypeOK
  <2> QED
    BY <2>1, Size DEF MIN
<1>5. op' = "push" /\ src' = data /\ moved' = <<>> /\ len' = len
      /\ state' = state /\ ptr' = ptr /\ tail' = tail /\ Fits' = n
  BY DEF Push, cbuf, Fits
<1>6. Content' = [i \in 1 .. len + n |->
                    IF i <= len THEN ptr[Cell(i)] ELSE data[i - len]]
      /\ Moved' = <<>> \o SubSeq(data, 1, n)
  BY <1>5 DEF Content, Moved, Cell, Fits
<1> HIDE DEF n, S
<1>7. SubSeq(data, 1, n) \in Seq(Bytes) /\ Len(SubSeq(data, 1, n)) = n
  BY <1>1, <1>4
<1>8. Moved' = SubSeq(data, 1, n)
  BY <1>6, <1>7
<1>9. Content' = S \o SubSeq(data, 1, n)
  <2>1. len \in Nat
    BY <1>1, Size DEF TypeOK
  <2> DEFINE T == S \o SubSeq(data, 1, n)
  <2>2. T \in Seq(Bytes) /\ Len(T) = len + n
    BY <1>3, <1>7, ConcatProperties
  <2>3. ASSUME NEW i \in 1 .. len + n
        PROVE  T[i] = IF i <= len THEN ptr[Cell(i)] ELSE data[i - len]
    <3>1. T[i] = IF i <= len THEN S[i] ELSE SubSeq(data, 1, n)[i - len]
      BY <1>3, <1>7, ConcatProperties
    <3>2. CASE i <= len
      BY <1>4, <2>1, <3>1, <3>2 DEF S
    <3>3. CASE ~(i <= len)
      <4>1. i - len \in 1 .. n
        BY <1>4, <2>1, <3>3
      <4>2. SubSeq(data, 1, n)[i - len] = data[i - len]
        BY <1>1, <1>4, <4>1
      <4> QED
        BY <3>1, <3>3, <4>2
    <3> QED
      BY <3>2, <3>3
  <2>4. DOMAIN T = 1 .. len + n
    BY <2>2
  <2>5. T = [i \in 1 .. len + n |-> T[i]]
    BY <2>2, <2>4
  <2> HIDE DEF T
  <2>6. [i \in 1 .. len + n |-> T[i]] = Content'
    BY <1>6, <2>3
  <2> QED
    BY <2>5, <2>6 DEF T
<1>10. n = IF state = "ENDED" THEN 0
           ELSE F!Least(Len(data), MaxLen - Len(Content))
  BY <1>1, <1>2, <1>3 DEF n, F!Least, MIN, TypeOK
<1> QED
  BY <1>2, <1>5, <1>8, <1>9, <1>10 DEF F!Push

\* A turn of the loop of cbuf_push leaves the mapped queue alone: the bytes
\* that it copies were counted when the call began (cbuf.c:20-39).
LEMMA PushTurnRefines ==
  ASSUME IInv, cbuf_push
  PROVE  Content' = Content /\ Moved' = Moved
<1> DEFINE k == PushLen
<1>0. TypeOK /\ IndicesAgree /\ PushMore
  BY DEF IInv, cbuf_push
<1>1. /\ k \in 1 .. Len(src)
      /\ len + k <= MaxLen
      /\ k \in Nat
  BY <1>0, PushLenBounds
<1>2. /\ src \in Seq(Bytes) /\ moved \in Seq(Bytes)
      /\ Len(src) \in Nat /\ len \in Nat
  BY <1>0, Size DEF TypeOK
<1>3. /\ op = "push" /\ op' = "push" /\ state = "OPEN" /\ state' = "OPEN"
      /\ len' = len + k /\ src' = SubSeq(src, k + 1, Len(src))
      /\ moved' = moved \o SubSeq(src, 1, k) /\ tail' = tail
  BY <1>0 DEF cbuf_push, PushMore
<1>4. /\ \A i \in 1 .. len : ptr'[Cell(i)] = ptr[Cell(i)]
      /\ \A i \in 1 .. k : ptr'[Cell(len + i)] = src[i]
  BY PushTurn
<1> HIDE DEF k
<1>5. Len(src') = Len(src) - k /\ \A j \in 1 .. Len(src) - k : src'[j] = src[j + k]
  BY <1>1, <1>2, <1>3
<1>6. Fits' = Fits - k /\ Fits \in Nat /\ k <= Fits /\ Fits <= Len(src)
  BY <1>1, <1>2, <1>3, <1>5, Size DEF Fits, MIN
<1> HIDE DEF Fits
<1>7. Content = [i \in 1 .. len + Fits |->
                   IF i <= len THEN ptr[Cell(i)] ELSE src[i - len]]
      /\ Moved = moved \o SubSeq(src, 1, Fits)
  BY <1>3, MappedPush
<1>8. Content' = [i \in 1 .. len' + Fits' |->
                    IF i <= len' THEN ptr'[Cell(i)] ELSE src'[i - len']]
      /\ Moved' = moved' \o SubSeq(src', 1, Fits')
  BY <1>3 DEF Content, Moved, Cell, Fits
<1>9. ASSUME NEW i \in 1 .. len + Fits
      PROVE  (IF i <= len' THEN ptr'[Cell(i)] ELSE src'[i - len'])
               = (IF i <= len THEN ptr[Cell(i)] ELSE src[i - len])
  <2>1. CASE i <= len
    BY <1>1, <1>2, <1>3, <1>4, <2>1
  <2>2. CASE len < i /\ i <= len + k
    <3>1. i - len \in 1 .. k /\ len + (i - len) = i
      BY <1>1, <1>2, <2>2
    <3> QED
      BY <1>2, <1>3, <1>4, <2>2, <3>1
  <2>3. CASE len + k < i
    <3>1. i - len' \in 1 .. Len(src) - k /\ (i - len') + k = i - len
      BY <1>1, <1>2, <1>3, <1>6, <2>3
    <3> QED
      BY <1>1, <1>2, <1>3, <1>5, <2>3, <3>1
  <2> QED
    BY <1>1, <1>2, <2>1, <2>2, <2>3
<1>10. len' + Fits' = len + Fits
  BY <1>1, <1>2, <1>3, <1>6
<1>11. Content' = Content
  BY <1>7, <1>8, <1>9, <1>10
<1>12. SubSeq(src, 1, Fits) = SubSeq(src, 1, k) \o SubSeq(src', 1, Fits')
  BY <1>1, <1>2, <1>3, <1>5, <1>6, SMTT(30)
<1>13. Moved' = Moved
  <2>0. src' \in Seq(Bytes) /\ Fits' \in 0 .. Len(src')
    BY <1>1, <1>2, <1>3, <1>5, <1>6
  <2>1. /\ SubSeq(src, 1, k) \in Seq(Bytes)
        /\ SubSeq(src', 1, Fits') \in Seq(Bytes)
    BY <1>1, <1>2, <2>0, PrefixType
  <2>2. (moved \o SubSeq(src, 1, k)) \o SubSeq(src', 1, Fits')
          = moved \o (SubSeq(src, 1, k) \o SubSeq(src', 1, Fits'))
    BY <1>2, <2>1, Assoc, Zenon
  <2>3. Moved' = (moved \o SubSeq(src, 1, k)) \o SubSeq(src', 1, Fits')
    BY <1>3, <1>8, Zenon
  <2> QED
    BY <1>7, <1>12, <2>2, <2>3, Zenon
<1> QED
  BY <1>11, <1>13

\* cbuf_push returns when nothing is left to copy (cbuf.c:20, 41).
LEMMA PushReturnRefines ==
  ASSUME IInv, cbuf_push_return
  PROVE  Content' = Content /\ Moved' = Moved
<1>1. TypeOK /\ ~PushMore /\ op = "push"
  BY DEF IInv, cbuf_push_return
<1>2. Len(src) \in Nat /\ len \in 0 .. MaxLen /\ moved \in Seq(Bytes)
      /\ src \in Seq(Bytes)
  BY <1>1 DEF TypeOK
<1>3. Fits = 0
  BY <1>1, <1>2, Size DEF PushMore, Fits, MIN
<1>4. Content = [i \in 1 .. len |-> ptr[Cell(i)]] /\ Moved = moved
  <2>1. Moved = moved \o SubSeq(src, 1, 0)
    BY <1>1, <1>3, MappedPush
  <2>2. SubSeq(src, 1, 0) = <<>>
    BY <1>2
  <2>3. Moved = moved
    BY <1>2, <2>1, <2>2
  <2> QED
    BY <1>1, <1>2, <1>3, <2>3, MappedPush
<1>5. Content' = [i \in 1 .. len |-> ptr[Cell(i)]] /\ Moved' = moved
  BY DEF cbuf_push_return, cbuf, Content, Moved, Cell
<1> QED
  BY <1>4, <1>5

----------------------------------------------------------------------------
(* Reading: the bytes from index t on, n of them *)

Read(t, n) == [i \in 1 .. n |-> ptr[(t + i - 1) % MaxLen]]

\* What is read is a sequence of bytes.
LEMMA ReadType ==
  ASSUME TypeOK, NEW t \in Index, NEW n \in 0 .. MaxLen
  PROVE  Read(t, n) \in Seq(Bytes) /\ Len(Read(t, n)) = n
<1>1. ASSUME NEW i \in 1 .. n PROVE (t + i - 1) % MaxLen \in Index
  BY Size DEF Index
<1>2. Read(t, n) \in [1 .. n -> Bytes]
  BY <1>1 DEF Read, TypeOK
<1> QED
  BY <1>2, Size

\* The bytes read from t on are those of the piece up to the end of the
\* array or of the data, and then those read from the next index on
\* (cbuf.c:49-67, 83-100).
LEMMA ReadTurn ==
  ASSUME TypeOK, NEW t \in Index, NEW n \in 0 .. MaxLen, NEW k \in 0 .. n,
         t + k <= MaxLen
  PROVE  /\ Read(t, n) \in Seq(Bytes) /\ Len(Read(t, n)) = n
         /\ Read(t, n)
              = Piece(t, k) \o Read((t + k) % MaxLen, n - k)
         /\ \A i \in 1 .. n - k : (((t + k) % MaxLen) + i - 1) % MaxLen
                                    = (t + (k + i) - 1) % MaxLen
<1> DEFINE u == (t + k) % MaxLen
<1>1. u = Wrap(t + k) /\ u \in Index
  <2>1. t + k \in 0 .. 2 * MaxLen - 1
    BY Size DEF Index
  <2> QED
    BY <2>1, WrapMod, Size DEF Wrap, Index
<1>2. ASSUME NEW i \in 1 .. n
      PROVE  (t + i - 1) % MaxLen = Wrap(t + i - 1)
             /\ (t + i - 1) % MaxLen \in Index
  <2>1. t + i - 1 \in 0 .. 2 * MaxLen - 1
    BY Size DEF Index
  <2> QED
    BY <2>1, WrapMod, Size DEF Wrap, Index
<1>3. ASSUME NEW i \in 1 .. n - k
      PROVE  (u + i - 1) % MaxLen = (t + (k + i) - 1) % MaxLen
  <2>1. u + i - 1 \in 0 .. 2 * MaxLen - 1
    BY <1>1, Size DEF Index
  <2>2. (u + i - 1) % MaxLen = Wrap(u + i - 1)
    BY <2>1, WrapMod
  <2>3. k + i \in 1 .. n
    BY Size
  <2>4. (t + (k + i) - 1) % MaxLen = Wrap(t + (k + i) - 1)
    BY <1>2, <2>3
  <2>5. Wrap(u + i - 1) = Wrap(t + (k + i) - 1)
    BY <1>1, <2>3, Size DEF Wrap, Index
  <2> QED
    BY <2>2, <2>4, <2>5
<1> HIDE DEF u
<1>5. Read(t, n) \in Seq(Bytes) /\ Len(Read(t, n)) = n
  BY ReadType
<1>6. Piece(t, k) \in Seq(Bytes) /\ Len(Piece(t, k)) = k
  BY PieceType, Size
<1>7. Read(u, n - k) \in Seq(Bytes) /\ Len(Read(u, n - k)) = n - k
  <2>1. n - k \in 0 .. MaxLen
    BY Size
  <2> QED
    BY <1>1, <2>1, ReadType
<1>8. ASSUME NEW i \in 1 .. n
      PROVE  Read(t, n)[i] = (Piece(t, k) \o Read(u, n - k))[i]
  <2>0. Read(t, n)[i] = ptr[(t + i - 1) % MaxLen]
    BY DEF Read
  <2>1. CASE i <= k
    <3>1. i \in 1 .. k /\ t + i - 1 \in 0 .. MaxLen - 1
      BY <2>1, Size DEF Index
    <3>2. (t + i - 1) % MaxLen = t + i - 1
      <4>1. Wrap(t + i - 1) = t + i - 1
        BY <3>1, Size DEF Wrap
      <4> QED
        BY <1>2, <4>1
    <3>3. Piece(t, k)[i] = ptr[t + i - 1]
      BY <3>1 DEF Piece
    <3>4. (Piece(t, k) \o Read(u, n - k))[i] = Piece(t, k)[i]
      BY <1>6, <1>7, <3>1
    <3> QED
      BY <2>0, <3>2, <3>3, <3>4
  <2>2. CASE ~(i <= k)
    <3>1. i - k \in 1 .. n - k /\ k + (i - k) = i
      BY <2>2, Size
    <3>2. Read(u, n - k)[i - k] = ptr[(u + (i - k) - 1) % MaxLen]
      BY <3>1 DEF Read
    <3>3. (Piece(t, k) \o Read(u, n - k))[i] = Read(u, n - k)[i - k]
      BY <1>6, <1>7, <2>2, <3>1
    <3> QED
      BY <1>3, <2>0, <3>1, <3>2, <3>3
  <2> QED
    BY <2>1, <2>2
<1>9. Len(Piece(t, k) \o Read(u, n - k)) = n
  BY <1>6, <1>7, Size
<1>10. Read(t, n) = Piece(t, k) \o Read(u, n - k)
  BY <1>5, <1>6, <1>7, <1>8, <1>9, SeqEqual, ConcatProperties
<1> QED
  BY <1>3, <1>5, <1>10 DEF u

\* While a pop runs the mapped queue is what it leaves, and what it returns
\* is what it copied and will copy.
LEMMA PopMapped ==
  ASSUME TypeOK, op = "pop"
  PROVE  Moved = moved \o Read(tail, MIN(want, len))
  BY MappedPop DEF Read, Cell

\* The call of cbuf_pop is the pop of the queue (cbuf.c:44).
LEMMA PopRefines ==
  ASSUME IInv, NEW n \in Lengths, Pop(n)
  PROVE  F!Pop(n)
<1> DEFINE S == [i \in 1 .. len |-> ptr[Cell(i)]]
           k == MIN(n, len)
<1>1. TypeOK /\ n \in Nat
  BY CBufAssumption DEF IInv
<1>2. Content = S /\ Moved = moved
  BY MappedNone DEF Pop
<1>3. S \in Seq(Bytes) /\ Len(S) = len
  BY <1>1, StoredType
<1>4. len \in Nat /\ k \in 0 .. len
  BY <1>1, Size DEF TypeOK, MIN
<1>5. /\ Content' = [i \in 1 .. len - k |-> ptr[Cell(k + i)]]
      /\ Moved' = <<>> \o [i \in 1 .. k |-> ptr[Cell(i)]]
  BY DEF Pop, cbuf, Content, Moved, Cell
<1>6. k = F!Least(n, Len(Content))
  BY <1>2, <1>3 DEF F!Least, MIN
<1> HIDE DEF k
<1>7. SubSeq(S, 1, k) = [i \in 1 .. k |-> ptr[Cell(i)]]
  BY <1>3, <1>4
<1>8. SubSeq(S, k + 1, len) = [i \in 1 .. len - k |-> ptr[Cell(k + i)]]
  BY <1>3, <1>4
<1>9. SubSeq(S, 1, k) \in Seq(Bytes)
  BY <1>3, <1>4
<1> HIDE DEF S
<1>10. Moved' = SubSeq(S, 1, k)
  BY <1>5, <1>7, <1>9, ConcatEmptySeq, Zenon
<1>11. Content' = SubSeq(S, k + 1, len)
  BY <1>5, <1>8
<1> QED
  BY <1>2, <1>3, <1>6, <1>10, <1>11 DEF F!Pop, Pop, cbuf

\* A turn of the loop of cbuf_pop leaves the mapped queue alone
\* (cbuf.c:48-71).
LEMMA PopTurnRefines ==
  ASSUME IInv, cbuf_pop
  PROVE  Content' = Content /\ Moved' = Moved
<1> DEFINE k == ReadLen(tail)
           n == MIN(want, len)
<1>0. TypeOK /\ IndicesAgree /\ PopMore
  BY DEF IInv, cbuf_pop
<1>1. /\ k \in 1 .. len /\ k <= want
      /\ tail + k <= MaxLen
  BY <1>0, ReadLenBounds DEF TypeOK, IndicesAgree, PopMore
<1>2. len \in 1 .. MaxLen /\ want \in Nat \ {0} /\ tail \in Index
      /\ moved \in Seq(Bytes)
  BY <1>0, Size DEF TypeOK, PopMore
<1>3. /\ op = "pop" /\ op' = "pop" /\ ptr' = ptr
      /\ tail' = (tail + k) % MaxLen /\ len' = len - k /\ want' = want - k
      /\ moved' = moved \o Piece(tail, k)
  BY DEF cbuf_pop
<1> HIDE DEF k
<1>4. n \in k .. len /\ MIN(want', len') = n - k
  BY <1>1, <1>2, <1>3 DEF MIN
<1>5. Content = [i \in 1 .. len - n |-> ptr[Cell(n + i)]]
      /\ Moved = moved \o Read(tail, n)
  BY <1>0, <1>3, MappedPop, PopMapped
<1>6. Content' = [i \in 1 .. len' - MIN(want', len') |->
                    ptr'[(tail' + (MIN(want', len') + i) - 1) % MaxLen]]
      /\ Moved' = moved' \o [i \in 1 .. MIN(want', len') |->
                               ptr'[(tail' + i - 1) % MaxLen]]
  BY <1>3 DEF Content, Moved, Cell, MIN
<1> HIDE DEF n
<1>7. len' - MIN(want', len') = len - n
  BY <1>1, <1>2, <1>3, <1>4
<1>8. ASSUME NEW i \in 1 .. len - n
      PROVE  (tail' + (MIN(want', len') + i) - 1) % MaxLen = Cell(n + i)
  <2>1. k \in 0 .. len /\ len \in 0 .. MaxLen
    BY <1>1, <1>2
  <2>2. \A j \in 1 .. len - k : (((tail + k) % MaxLen) + j - 1) % MaxLen
                                  = (tail + (k + j) - 1) % MaxLen
    BY <1>0, <1>1, <1>2, <2>1, ReadTurn
  <2>3. (n - k) + i \in 1 .. len - k /\ k + ((n - k) + i) = n + i
    BY <1>1, <1>2, <1>4
  <2> QED
    BY <1>3, <1>4, <2>2, <2>3 DEF Cell
<1>9. Content' = Content
  BY <1>3, <1>5, <1>6, <1>7, <1>8
<1>10. Moved' = (moved \o Piece(tail, k)) \o Read((tail + k) % MaxLen, n - k)
  BY <1>3, <1>4, <1>6 DEF Read
<1>11. /\ Read(tail, n) = Piece(tail, k) \o Read((tail + k) % MaxLen, n - k)
       /\ Piece(tail, k) \in Seq(Bytes)
       /\ Read((tail + k) % MaxLen, n - k) \in Seq(Bytes)
  <2>1. n \in 0 .. MaxLen /\ k \in 0 .. n /\ k \in Nat
    BY <1>1, <1>2, <1>4, Size
  <2>2. (tail + k) % MaxLen \in Index /\ n - k \in 0 .. MaxLen
    BY <1>2, <2>1, Size DEF Index
  <2>3. Read((tail + k) % MaxLen, n - k) \in Seq(Bytes)
    BY <1>0, <2>2, ReadType
  <2> QED
    BY <1>0, <1>1, <1>2, <2>1, <2>3, ReadTurn, PieceType
<1>12. Moved' = Moved
  <2>1. (moved \o Piece(tail, k)) \o Read((tail + k) % MaxLen, n - k)
          = moved \o (Piece(tail, k) \o Read((tail + k) % MaxLen, n - k))
    BY <1>2, <1>11, Assoc
  <2> QED
    BY <1>5, <1>10, <1>11, <2>1
<1> QED
  BY <1>9, <1>12

\* cbuf_pop returns when nothing is left to copy (cbuf.c:48, 73).
LEMMA PopReturnRefines ==
  ASSUME IInv, cbuf_pop_return
  PROVE  Content' = Content /\ Moved' = Moved
<1>1. TypeOK /\ ~PopMore /\ op = "pop"
  BY DEF IInv, cbuf_pop_return
<1>2. want \in Nat /\ len \in Nat /\ moved \in Seq(Bytes)
  BY <1>1, Size DEF TypeOK
<1>3. MIN(want, len) = 0
  BY <1>1, <1>2 DEF PopMore, MIN
<1>4. Content = [i \in 1 .. len |-> ptr[Cell(i)]]
  <2>1. Content = [i \in 1 .. len - 0 |-> ptr[Cell(0 + i)]]
    BY <1>1, <1>3, MappedPop
  <2>2. len - 0 = len /\ \A i \in 1 .. len : 0 + i = i
    BY <1>2
  <2> QED
    BY <2>1, <2>2
<1>5. Moved = moved
  <2>1. Moved = moved \o [i \in 1 .. 0 |-> ptr[Cell(i)]]
    BY <1>1, <1>3, MappedPop
  <2>2. [i \in 1 .. 0 |-> ptr[Cell(i)]] = <<>>
    OBVIOUS
  <2> QED
    BY <1>2, <2>1, <2>2
<1>6. Content' = [i \in 1 .. len |-> ptr[Cell(i)]] /\ Moved' = moved
  BY DEF cbuf_pop_return, cbuf, Content, Moved, Cell
<1> QED
  BY <1>4, <1>5, <1>6

\* The call of cbuf_peek is the peek of the queue (cbuf.c:76-80).
LEMMA PeekRefines ==
  ASSUME IInv, NEW n \in Lengths, Peek(n)
  PROVE  F!Peek(n)
<1> DEFINE S == [i \in 1 .. len |-> ptr[Cell(i)]]
           k == MIN(n, len)
<1>1. TypeOK /\ n \in Nat
  BY CBufAssumption DEF IInv
<1>2. Content = S
  BY MappedNone DEF Peek
<1>3. S \in Seq(Bytes) /\ Len(S) = len
  BY <1>1, StoredType
<1>4. len \in Nat /\ k \in 0 .. len
  BY <1>1, Size DEF TypeOK, MIN
<1>5. Content' = S /\ Moved' = <<>> \o [i \in 1 .. k |-> ptr[Cell(i)]]
  BY DEF Peek, cbuf, Content, Moved, Cell
<1>6. k = F!Least(n, Len(Content))
  BY <1>2, <1>3 DEF F!Least, MIN
<1> HIDE DEF k
<1>7. SubSeq(S, 1, k) = [i \in 1 .. k |-> ptr[Cell(i)]]
  BY <1>3, <1>4
<1>8. SubSeq(S, 1, k) \in Seq(Bytes)
  BY <1>3, <1>4
<1> HIDE DEF S
<1>9. Moved' = SubSeq(S, 1, k)
  BY <1>5, <1>7, <1>8, ConcatEmptySeq, Zenon
<1> QED
  BY <1>2, <1>5, <1>6, <1>9 DEF F!Peek, Peek, cbuf

\* A turn of the loop of cbuf_peek leaves the mapped queue alone
\* (cbuf.c:82-104).
LEMMA PeekTurnRefines ==
  ASSUME IInv, cbuf_peek
  PROVE  Content' = Content /\ Moved' = Moved
<1> DEFINE k == ReadLen(rtail)
           n == MIN(want, rlen)
<1>0. TypeOK /\ PeekMore /\ head = (rtail + rlen) % MaxLen
  BY DEF IInv, PeekAgrees, cbuf_peek
<1>1. /\ k \in 1 .. rlen /\ k <= want
      /\ rtail + k <= MaxLen
  BY <1>0, ReadLenBounds DEF TypeOK, PeekMore
<1>2. rlen \in 1 .. MaxLen /\ want \in Nat \ {0} /\ rtail \in Index
      /\ moved \in Seq(Bytes)
  BY <1>0, Size DEF TypeOK, PeekMore
<1>3. /\ op = "peek" /\ op' = "peek" /\ ptr' = ptr /\ len' = len /\ tail' = tail
      /\ rtail' = (rtail + k) % MaxLen /\ rlen' = rlen - k /\ want' = want - k
      /\ moved' = moved \o Piece(rtail, k)
  BY DEF cbuf_peek, cbuf
<1> HIDE DEF k
<1>4. n \in k .. rlen /\ MIN(want', rlen') = n - k
  BY <1>1, <1>2, <1>3 DEF MIN
<1>5. Moved = moved \o Read(rtail, n)
  BY <1>3, MappedPeek DEF Read
<1>6. Moved' = moved' \o [i \in 1 .. MIN(want', rlen') |->
                            ptr'[(rtail' + i - 1) % MaxLen]]
  BY <1>3 DEF Moved, MIN
<1>7. Content' = Content
  BY <1>3 DEF Content, Cell
<1> HIDE DEF n
<1>8. Moved' = (moved \o Piece(rtail, k)) \o Read((rtail + k) % MaxLen, n - k)
  BY <1>3, <1>4, <1>6 DEF Read
<1>9. /\ Read(rtail, n) = Piece(rtail, k) \o Read((rtail + k) % MaxLen, n - k)
      /\ Piece(rtail, k) \in Seq(Bytes)
      /\ Read((rtail + k) % MaxLen, n - k) \in Seq(Bytes)
  <2>1. n \in 0 .. MaxLen /\ k \in 0 .. n /\ k \in Nat
    BY <1>1, <1>2, <1>4, Size
  <2>2. (rtail + k) % MaxLen \in Index /\ n - k \in 0 .. MaxLen
    BY <1>2, <2>1, Size DEF Index
  <2>3. Read((rtail + k) % MaxLen, n - k) \in Seq(Bytes)
    BY <1>0, <2>2, ReadType
  <2> QED
    BY <1>0, <1>1, <1>2, <2>1, <2>3, ReadTurn, PieceType
<1>10. Moved' = Moved
  <2>1. (moved \o Piece(rtail, k)) \o Read((rtail + k) % MaxLen, n - k)
          = moved \o (Piece(rtail, k) \o Read((rtail + k) % MaxLen, n - k))
    BY <1>2, <1>9, Assoc
  <2> QED
    BY <1>5, <1>8, <1>9, <2>1
<1> QED
  BY <1>7, <1>10

\* cbuf_peek returns when nothing is left to copy (cbuf.c:82, 106).
LEMMA PeekReturnRefines ==
  ASSUME IInv, cbuf_peek_return
  PROVE  Content' = Content /\ Moved' = Moved
<1>1. TypeOK /\ ~PeekMore /\ op = "peek"
  BY DEF IInv, cbuf_peek_return
<1>2. want \in Nat /\ rlen \in Nat /\ moved \in Seq(Bytes)
  BY <1>1, Size DEF TypeOK
<1>3. MIN(want, rlen) = 0
  BY <1>1, <1>2 DEF PeekMore, MIN
<1>4. Content' = Content /\ Moved' = moved
  BY DEF cbuf_peek_return, cbuf, Content, Moved, Cell
<1>5. Moved = moved \o [i \in 1 .. 0 |-> ptr[(rtail + i - 1) % MaxLen]]
  BY <1>1, <1>3, MappedPeek
<1>6. [i \in 1 .. 0 |-> ptr[(rtail + i - 1) % MaxLen]] = <<>>
  OBVIOUS
<1> QED
  BY <1>2, <1>4, <1>5, <1>6

----------------------------------------------------------------------------
\* The circular buffer of cbuf.c implements the bounded queue that cbuf.h
\* describes, for every size of the buffer and every sequence of calls: the
\* calls act on the queue in one step, and the turns of the loops that split
\* a copy at the end of the array are not visible (cbuf.c:7-127).
THEOREM CBufIsFifo == Spec => IsFifo
<1>1. cbuf_init => F!Init
  <2> SUFFICES ASSUME cbuf_init PROVE F!Init
    OBVIOUS
  <2>1. Content = [i \in 1 .. 0 |-> ptr[Cell(i)]] /\ Moved = <<>>
    BY MappedNone DEF cbuf_init
  <2>2. [i \in 1 .. 0 |-> ptr[Cell(i)]] = <<>>
    OBVIOUS
  <2> QED
    BY <2>1, <2>2 DEF F!Init, cbuf_init
<1>2. IInv /\ [Next]_vars => [F!Next]_F!vars
  <2> SUFFICES ASSUME IInv, [Next]_vars PROVE [F!Next]_F!vars
    OBVIOUS
  <2>1. ASSUME NEW data \in Inputs, Push(data) PROVE F!Next
    BY <2>1, PushRefines DEF F!Next
  <2>2. ASSUME NEW n \in Lengths, Pop(n) PROVE F!Next
    BY <2>2, PopRefines DEF F!Next
  <2>3. ASSUME NEW n \in Lengths, Peek(n) PROVE F!Next
    BY <2>3, PeekRefines DEF F!Next
  <2>4. CASE cbuf_end
    <3>1. Content' = Content /\ Moved' = Moved
      BY <2>4 DEF cbuf_end, call, Content, Moved, Cell
    <3> QED
      BY <2>4, <3>1 DEF F!Next, F!End, cbuf_end
  <2>5. CASE Steps
    <3>1. Content' = Content /\ Moved' = Moved
      BY <2>5, PushTurnRefines, PushReturnRefines, PopTurnRefines,
         PopReturnRefines, PeekTurnRefines, PeekReturnRefines DEF Steps
    <3>2. state' = state
      BY <2>5 DEF Steps, cbuf_push, cbuf_push_return, cbuf_pop,
         cbuf_pop_return, cbuf_peek, cbuf_peek_return, cbuf
    <3> QED
      BY <3>1, <3>2 DEF F!vars
  <2>6. CASE UNCHANGED vars
    BY <2>6 DEF vars, F!vars, Content, Moved, Cell
  <2> QED
    BY <2>1, <2>2, <2>3, <2>4, <2>5, <2>6 DEF Next, Calls
<1> QED
  BY <1>1, <1>2, InitIInv, NextIInv, PTL DEF Spec, IsFifo, F!Spec
=============================================================================
