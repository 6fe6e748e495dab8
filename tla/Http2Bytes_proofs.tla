------------------------- MODULE Http2Bytes_proofs -------------------------
(***************************************************************************)
(* Proofs about the bytes that a connection writes, whatever its peer      *)
(* does: they are those of the queued operations.  They rest on induction  *)
(* over the naturals, with the predicate as a set, and on what follows for *)
(* sums of sequences.                                                      *)
(***************************************************************************)
EXTENDS Http2Answers_proofs, WellFoundedInduction

----------------------------------------------------------------------------
(* Induction.                                                               *)

\* The order of the naturals as a relation.
Less == {p \in Nat \X Nat : p[1] < p[2]}

\* A set of naturals that is not empty has a least element.
LEMMA LeastNatural ==
  ASSUME NEW T, T \subseteq Nat, T # {}
  PROVE  \E x \in T : \A y \in T : x <= y
<1>1. IsWellFoundedOn(Less, Nat)
  BY NatLessThanWellFounded, Zenon DEF OpToRel, Less
<1>2. PICK x \in T : \A y \in T : ~(<<y, x>> \in Less)
  BY <1>1, WFMin, Zenon
<1>3. \A y \in T : ~(y < x)
  <2> SUFFICES ASSUME NEW y \in T PROVE ~(y < x)
    OBVIOUS
  <2>1. x \in Nat /\ y \in Nat /\ ~(<<y, x>> \in Less)
    BY <1>2
  <2> QED BY <2>1, Zenon DEF Less
<1> QED BY <1>3

\* Induction up to n: a set that holds 0 and the successor of each of its
\* elements holds all numbers up to n.
LEMMA Induction ==
  ASSUME NEW T, NEW n \in Nat, 0 \in T, \A i \in 0 .. n - 1 : i \in T => i + 1 \in T
  PROVE  \A i \in 0 .. n : i \in T
<1> DEFINE B == {i \in 0 .. n : i \notin T}
<1> SUFFICES ASSUME B # {} PROVE FALSE
  BY Zenon
<1>1. PICK x \in B : \A y \in B : x <= y
  <2>1. B \subseteq Nat
    OBVIOUS
  <2> HIDE DEF B
  <2> QED BY <2>1, LeastNatural, Zenon
<1>2. x \in 0 .. n /\ x \notin T /\ x # 0
  BY <1>1
<1>3. x - 1 \in 0 .. n - 1 /\ x - 1 \in 0 .. n /\ ~(x <= x - 1) /\ (x - 1) + 1 = x
  BY <1>2
<1>4. x - 1 \in T
  BY <1>1, <1>3
<1> QED BY <1>2, <1>3, <1>4

----------------------------------------------------------------------------
(* Sums.                                                                    *)

\* f is the function that the recursion of PartialSums defines, up to n.
SumsUpTo(f, s, n) == f = [i \in 0 .. n |-> IF i = 0 THEN 0 ELSE f[i - 1] + s[i]]

\* The recursion defines a function.
LEMMA SumsExist ==
  ASSUME NEW s, NEW n \in Nat
  PROVE  \E f : SumsUpTo(f, s, n)
<1> DEFINE T == {i \in Nat : \E f : SumsUpTo(f, s, i)}
<1>1. 0 \in T
  <2>1. SumsUpTo([i \in 0 .. 0 |-> 0], s, 0)
    BY DEF SumsUpTo
  <2> QED BY <2>1
<1>2. ASSUME NEW m \in 0 .. n - 1, m \in T PROVE m + 1 \in T
  <2>1. PICK f : SumsUpTo(f, s, m)
    BY <1>2
  <2> DEFINE g == [i \in 0 .. m + 1 |-> IF i = m + 1 THEN f[m] + s[m + 1] ELSE f[i]]
  <2>2. ASSUME NEW i \in 0 .. m + 1 PROVE g[i] = IF i = 0 THEN 0 ELSE g[i - 1] + s[i]
    <3>1. CASE i = m + 1
      BY <3>1
    <3>2. CASE i # m + 1
      <4>1. i \in 0 .. m /\ (i # 0 => i - 1 \in 0 .. m)
        BY <2>2, <3>2
      <4>2. f[i] = IF i = 0 THEN 0 ELSE f[i - 1] + s[i]
        BY <2>1, <4>1 DEF SumsUpTo
      <4> QED BY <4>1, <4>2
    <3> QED BY <3>1, <3>2
  <2>3. SumsUpTo(g, s, m + 1)
    <3> HIDE DEF g
    <3>1. g = [i \in 0 .. m + 1 |-> g[i]]
      BY DEF g
    <3> QED BY <2>2, <3>1, Zenon DEF SumsUpTo
  <2>4. m + 1 \in Nat
    OBVIOUS
  <2> HIDE DEF g
  <2> QED BY <2>3, <2>4
<1> HIDE DEF T
<1>3. n \in T
  BY <1>1, <1>2, Induction
<1> QED BY <1>3 DEF T

\* PartialSums is what its recursion says.
LEMMA SumsDefined ==
  ASSUME NEW s, Len(s) \in Nat
  PROVE  SumsUpTo(PartialSums(s), s, Len(s))
<1>1. \E f : SumsUpTo(f, s, Len(s))
  BY SumsExist
<1>2. PartialSums(s) = CHOOSE f : SumsUpTo(f, s, Len(s))
  BY DEF PartialSums, SumsUpTo
<1> QED BY <1>1, <1>2

\* The same, element by element.
LEMMA SumsStep ==
  ASSUME NEW s, Len(s) \in Nat
  PROVE  /\ PartialSums(s)[0] = 0
         /\ \A i \in 0 .. Len(s) - 1 : PartialSums(s)[i + 1] = PartialSums(s)[i] + s[i + 1]
<1> DEFINE f == PartialSums(s)
<1>1. SumsUpTo(f, s, Len(s))
  BY SumsDefined
<1> HIDE DEF f
<1>2. \A i \in 0 .. Len(s) : f[i] = IF i = 0 THEN 0 ELSE f[i - 1] + s[i]
  BY <1>1 DEF SumsUpTo
<1>3. f[0] = 0
  BY <1>2
<1>4. ASSUME NEW i \in 0 .. Len(s) - 1 PROVE f[i + 1] = f[i] + s[i + 1]
  <2>1. i + 1 \in 0 .. Len(s) /\ i + 1 # 0 /\ (i + 1) - 1 = i
    OBVIOUS
  <2> QED BY <1>2, <2>1
<1> QED BY <1>3, <1>4 DEF f

\* Sums of integers are integers.
LEMMA SumsType ==
  ASSUME NEW s \in Seq(Int)
  PROVE  \A i \in 0 .. Len(s) : PartialSums(s)[i] \in Int
<1> DEFINE T == {i \in 0 .. Len(s) : PartialSums(s)[i] \in Int}
<1>1. Len(s) \in Nat /\ \A i \in 0 .. Len(s) - 1 : s[i + 1] \in Int
  OBVIOUS
<1>2. 0 \in T
  BY <1>1, SumsStep
<1>3. ASSUME NEW i \in 0 .. Len(s) - 1, i \in T PROVE i + 1 \in T
  <2>1. PartialSums(s)[i + 1] = PartialSums(s)[i] + s[i + 1] /\ PartialSums(s)[i] \in Int
    BY <1>1, <1>3, SumsStep
  <2> QED BY <1>1, <2>1
<1> HIDE DEF T
<1>4. \A i \in 0 .. Len(s) : i \in T
  BY <1>1, <1>2, <1>3, Induction, Zenon
<1> QED BY <1>4 DEF T

\* The sum of integers is an integer.
LEMMA TotalType ==
  ASSUME NEW s \in Seq(Int)
  PROVE  Total(s) \in Int
  BY SumsType DEF Total

\* The sum of no numbers is 0.
LEMMA TotalEmpty == Total(<<>>) = 0
<1>1. Len(<<>>) = 0
  BY EmptyFacts
<1> QED BY <1>1, SumsStep DEF Total

\* A number at the end adds to the sum.
LEMMA TotalAppend ==
  ASSUME NEW s \in Seq(Int), NEW x \in Int
  PROVE  Total(Append(s, x)) = Total(s) + x
<1> DEFINE u == Append(s, x)
           T == {i \in 0 .. Len(s) : PartialSums(u)[i] = PartialSums(s)[i]}
<1>1. /\ Len(s) \in Nat /\ Len(u) = Len(s) + 1 /\ u[Len(s) + 1] = x
      /\ \A i \in 0 .. Len(s) - 1 : u[i + 1] = s[i + 1]
  OBVIOUS
<1> HIDE DEF u
<1>2. 0 \in T
  BY <1>1, SumsStep
<1>3. ASSUME NEW i \in 0 .. Len(s) - 1, i \in T PROVE i + 1 \in T
  <2>1. PartialSums(s)[i + 1] = PartialSums(s)[i] + s[i + 1]
    BY <1>1, SumsStep
  <2>2. PartialSums(u)[i + 1] = PartialSums(u)[i] + u[i + 1]
    <3>1. i \in 0 .. Len(u) - 1 /\ Len(u) \in Nat
      BY <1>1
    <3> QED BY <3>1, SumsStep
  <2> QED BY <1>1, <1>3, <2>1, <2>2
<1> HIDE DEF T
<1>4. Len(s) \in T
  <2>1. \A i \in 0 .. Len(s) : i \in T
    BY <1>1, <1>2, <1>3, Induction, Zenon
  <2> QED BY <1>1, <2>1
<1>5. PartialSums(u)[Len(s) + 1] = PartialSums(u)[Len(s)] + x
  <2>1. Len(s) \in 0 .. Len(u) - 1 /\ Len(u) \in Nat
    BY <1>1
  <2> QED BY <1>1, <2>1, SumsStep, Zenon
<1> QED BY <1>1, <1>4, <1>5, SMTT(30) DEF Total, T, u

\* So does one at the front.
LEMMA TotalCons ==
  ASSUME NEW s \in Seq(Int), NEW x \in Int
  PROVE  Total(<<x>> \o s) = x + Total(s)
<1> DEFINE u == <<x>> \o s
           T == {i \in 0 .. Len(s) : PartialSums(u)[i + 1] = x + PartialSums(s)[i]}
<1>1. /\ Len(s) \in Nat /\ Len(u) = Len(s) + 1 /\ u[1] = x
      /\ \A i \in 0 .. Len(s) - 1 : u[i + 2] = s[i + 1] /\ s[i + 1] \in Int
  OBVIOUS
<1> HIDE DEF u
<1>2. \A i \in 0 .. Len(s) : PartialSums(u)[i + 1] = PartialSums(u)[i] + u[i + 1]
  <2>1. Len(u) \in Nat /\ \A i \in 0 .. Len(s) : i \in 0 .. Len(u) - 1
    BY <1>1
  <2> QED BY <2>1, SumsStep
<1>3. 0 \in T
  <2>1. PartialSums(u)[0] = 0 /\ PartialSums(s)[0] = 0
    BY <1>1, SumsStep
  <2>2. PartialSums(u)[0 + 1] = 0 + x
    BY <1>1, <1>2, <2>1
  <2> QED BY <1>1, <2>1, <2>2
<1>4. ASSUME NEW i \in 0 .. Len(s) - 1, i \in T PROVE i + 1 \in T
  <2>1. PartialSums(s)[i + 1] = PartialSums(s)[i] + s[i + 1]
    BY <1>1, SumsStep
  <2>2. PartialSums(u)[(i + 1) + 1] = PartialSums(u)[i + 1] + s[i + 1]
    <3>1. i + 1 \in 0 .. Len(s) /\ (i + 1) + 1 = i + 2
      BY <1>1
    <3> QED BY <1>1, <1>2, <3>1
  <2>3. PartialSums(s)[i] \in Int
    BY <1>1, SumsType
  <2>4. PartialSums(u)[i + 1] = x + PartialSums(s)[i] /\ i + 1 \in 0 .. Len(s)
    BY <1>4
  <2> QED BY <1>1, <2>1, <2>2, <2>3, <2>4, SMTT(30)
<1> HIDE DEF T
<1>5. Len(s) \in T
  <2>1. \A i \in 0 .. Len(s) : i \in T
    BY <1>1, <1>3, <1>4, Induction, Zenon
  <2> QED BY <1>1, <2>1
<1> QED BY <1>1, <1>5 DEF Total, T, u

----------------------------------------------------------------------------
(* Bytes and operations *)

\* The bytes of the operations of a queue.
Bytes(q) == [i \in 1 .. Len(q) |-> q[i].bytes]

\* The sizes of the queued operations are numbers.
LEMMA BytesType ==
  ASSUME NEW q \in Seq(Op)
  PROVE  Bytes(q) \in Seq(Int) /\ Len(Bytes(q)) = Len(q) /\ Total(Bytes(q)) \in Int
<1>1. Len(q) \in Nat /\ \A i \in 1 .. Len(q) : q[i] \in Op
  BY LenFacts
<1>2. \A i \in 1 .. Len(q) : q[i].bytes \in Int
  BY <1>1 DEF Op
<1>3. Bytes(q) \in Seq(Int) /\ Len(Bytes(q)) = Len(q)
  BY <1>1, <1>2 DEF Bytes
<1> QED
  BY <1>3, TotalType

\* An operation at the end of the queue adds its bytes.
LEMMA BytesAppend ==
  ASSUME NEW q \in Seq(Op), NEW op \in Op
  PROVE  Total(Bytes(Append(q, op))) = Total(Bytes(q)) + op.bytes
<1>1. op.bytes \in Int
  BY DEF Op
<1>2. /\ Len(Append(q, op)) = Len(q) + 1 /\ Len(q) \in Nat
      /\ \A i \in 1 .. Len(q) : Append(q, op)[i] = q[i]
      /\ Append(q, op)[Len(q) + 1] = op
  BY AppendFacts, LenFacts
<1>3. Bytes(Append(q, op)) = Append(Bytes(q), op.bytes)
  BY <1>1, <1>2, BytesType, SMTT(30) DEF Bytes
<1> QED
  BY <1>1, <1>3, BytesType, TotalAppend, SMTT(30)

\* The operation at its head takes them away.
LEMMA BytesHead ==
  ASSUME NEW q \in Seq(Op), q # <<>>
  PROVE  Total(Bytes(q)) = Head(q).bytes + Total(Bytes(Tail(q)))
<1>1. /\ Head(q) \in Op /\ Tail(q) \in Seq(Op) /\ Len(q) \in Nat
      /\ Len(Tail(q)) = Len(q) - 1 /\ Head(q) = q[1]
      /\ \A i \in 1 .. Len(Tail(q)) : Tail(q)[i] = q[i + 1]
  BY TailFacts
<1>2. Head(q).bytes \in Int
  BY <1>1 DEF Op
<1>3. Bytes(q) = <<Head(q).bytes>> \o Bytes(Tail(q))
  <2> DEFINE u == Bytes(Tail(q))
             x == Head(q).bytes
  <2>1. u \in Seq(Int) /\ Len(u) = Len(q) - 1 /\ \A i \in 1 .. Len(q) - 1 : u[i] = q[i + 1].bytes
    BY <1>1, BytesType, Zenon DEF Bytes
  <2>2. x \in Int /\ x = q[1].bytes
    BY <1>1, <1>2
  <2>3. Bytes(q) \in Seq(Int) /\ Len(Bytes(q)) = Len(q)
        /\ \A i \in 1 .. Len(q) : Bytes(q)[i] = q[i].bytes
    BY <1>1, BytesType, Zenon DEF Bytes
  <2> HIDE DEF u, x
  <2>4. <<x>> \o u \in Seq(Int) /\ Len(<<x>> \o u) = Len(q)
        /\ \A i \in 1 .. Len(q) : (<<x>> \o u)[i] = q[i].bytes
    <3>1. <<x>> \in Seq(Int) /\ Len(<<x>>) = 1 /\ <<x>>[1] = x
      BY <2>2
    <3>2. /\ <<x>> \o u \in Seq(Int) /\ Len(<<x>> \o u) = 1 + Len(u)
          /\ \A i \in 1 .. 1 + Len(u) : (<<x>> \o u)[i] = IF i <= 1 THEN <<x>>[i] ELSE u[i - 1]
      BY <2>1, <3>1, ConcatFacts, SMTT(30)
    <3>3. ASSUME NEW i \in 1 .. Len(q) PROVE (<<x>> \o u)[i] = q[i].bytes
      <4>1. 1 + Len(u) = Len(q)
        BY <1>1, <2>1
      <4>2. CASE i = 1
        BY <1>1, <2>2, <3>1, <3>2, <4>1, <4>2
      <4>3. CASE i # 1
        <5>1. i - 1 \in 1 .. Len(q) - 1 /\ (i - 1) + 1 = i /\ ~(i <= 1)
          BY <1>1, <4>3
        <5>2. (<<x>> \o u)[i] = u[i - 1]
          BY <3>2, <4>1, <5>1, Zenon
        <5> QED
          BY <2>1, <5>1, <5>2, Zenon
      <4> QED
        BY <4>2, <4>3, Zenon
    <3>4. Len(<<x>> \o u) = Len(q)
      <4>1. \A a, c : \A b \in Nat : a = 1 + c /\ c = b - 1 => a = b
        OBVIOUS
      <4> QED
        BY <1>1, <2>1, <3>2, <4>1, Zenon
    <3> QED
      BY <3>2, <3>3, <3>4, Zenon
  <2>5. Bytes(q) = <<x>> \o u
    <3> DEFINE b == Bytes(q)
               c == <<x>> \o u
    <3>1. b \in Seq(Int) /\ c \in Seq(Int) /\ Len(b) = Len(c)
          /\ \A i \in 1 .. Len(b) : b[i] = c[i]
      BY <2>3, <2>4, Zenon
    <3> HIDE DEF b, c
    <3>2. b = c
      BY <3>1, SameElements, Zenon
    <3> QED
      BY <3>2 DEF b, c
  <2> QED
    BY <2>5, Zenon DEF u, x
<1> QED
  BY <1>1, <1>2, <1>3, BytesType, TotalCons, Zenon

\* What is added to the queue is added to the write buffer.
Even(q) ==
  \/ queue' = q /\ wlen' = wlen
  \/ \E op \in Op : queue' = Append(q, op) /\ wlen' = wlen + op.bytes

\* A frame that event_write queues puts as many bytes in the write buffer as its
\* operation counts.
LEMMA SentEven ==
  ASSUME NEW q, NEW fr \in SentFrames, NEW cb \in Callbacks, Sent(q, fr, cb)
  PROVE  Even(q)
<1>1. PICK n \in Nat \ {0} :
        /\ queue' = Append(q, [cb |-> cb, bytes |-> n, kind |-> fr.kind, sid |-> fr.sid,
                               es |-> fr.es])
        /\ wlen' = wlen + n
  BY Zenon DEF Sent
<1> DEFINE op == [cb |-> cb, bytes |-> n, kind |-> fr.kind, sid |-> fr.sid, es |-> fr.es]
<1>2. op \in Op /\ op.bytes = n
  BY DEF Op, SentFrames
<1> HIDE DEF op
<1>3. queue' = Append(q, op) /\ wlen' = wlen + op.bytes
  BY <1>1, <1>2 DEF op
<1> QED
  BY <1>2, <1>3, Zenon DEF Even

\* event_write keeps the bytes of the buffer and of the operations even.
LEMMA WriteEven ==
  ASSUME IInv, NEW q, NEW rel, NEW fr \in SentFrames, NEW cb \in Callbacks,
         event_write(q, rel, fr, cb)
  PROVE  failed' # "none" \/ Even(q)
  BY WriteEffect, SentEven, Zenon DEF Unsent, Even

\* So does http2_continue_send.
LEMMA SendEven ==
  ASSUME IInv, NEW q, NEW rel, NEW sw \in Int, http2_continue_send(q, rel, sw)
  PROVE  failed' # "none" \/ Even(q)
<1>1. "on_stream_send_complete" \in Callbacks
  BY DEF Callbacks
<1>2. \/ failed' # "none"
      \/ Unsent(q)
      \/ \E len \in 1 .. buflen :
           /\ Frame("DATA", stream_id, buflen = len, len) \in SentFrames
           /\ Sent(q, Frame("DATA", stream_id, buflen = len, len),
                   "on_stream_send_complete")
  BY SendEffect, Zenon
<1> QED
  BY <1>1, <1>2, SentEven, Zenon DEF Unsent, Even

\* Every handler keeps the queue and the buffer even.
LEMMA ClassEven ==
  ASSUME IInv, Class
  PROVE  failed' # "none" \/ Even(queue)
<1>0. StreamIds \subseteq StreamIds \cup {0}
  OBVIOUS
<1>1. CASE Says
  BY <1>1, SaysEffect, Zenon DEF Even
<1>2. ASSUME NEW sid \in StreamIds, Resets(sid)
      PROVE  failed' # "none" \/ Even(queue)
  <2>1. CASE event_write(queue, 0, Frame("RST_STREAM", sid, FALSE, 0),
                         "close_on_write_error")
    <3>1. Frame("RST_STREAM", sid, FALSE, 0) \in SentFrames
          /\ "close_on_write_error" \in Callbacks
      <4>1. "RST_STREAM" \in SentKinds /\ sid \in StreamIds \cup {0} /\ FALSE \in BOOLEAN
            /\ 0 \in Nat /\ "close_on_write_error" \in Callbacks
        BY DEF SentKinds, Callbacks
      <4> QED
        BY <4>1, FrameType, Zenon
    <3> QED
      BY <2>1, <3>1, WriteEven, Zenon
  <2>2. CASE UNCHANGED <<wlen, queue, in_use, failed, lost>>
    BY <2>2, Zenon DEF Even
  <2> QED
    BY <1>2, <2>1, <2>2, Zenon DEF Resets
<1>3. CASE Enlarges(Head(inbuf))
  <2>1. inbuf # <<>> /\ http2_continue_send(queue, 0, stream_window + Head(inbuf).arg)
    BY <1>3, Zenon DEF Enlarges, Takes
  <2>2. stream_window + Head(inbuf).arg \in Int
    BY <2>1, Identifiers, StreamWindow, SMTT(30)
  <2> QED
    BY <2>1, <2>2, SendEven, Zenon
<1>4. ASSUME NEW f, NEW fl, NEW st, NEW id \in StreamIds \cup {0}, Asks(f, fl, st, id)
      PROVE  failed' # "none" \/ Even(queue)
  <2>1. CASE UNCHANGED writeVars
    BY <2>1, Zenon DEF writeVars, Even
  <2>2. ASSUME NEW n \in Bodies,
               event_write(queue, 0, Frame("HEADERS", id, n = 0, 0),
                           "on_stream_send_complete")
        PROVE  failed' # "none" \/ Even(queue)
    <3>1. (n = 0) \in BOOLEAN /\ "HEADERS" \in SentKinds /\ 0 \in Nat
          /\ "on_stream_send_complete" \in Callbacks
      BY DEF SentKinds, Callbacks
    <3>2. Frame("HEADERS", id, n = 0, 0) \in SentFrames
      BY <3>1, FrameType, Zenon
    <3> QED
      BY <2>2, <3>1, <3>2, WriteEven, Zenon
  <2> QED
    BY <1>4, <2>1, <2>2, Zenon DEF Asks
<1>5. CASE Opening(Head(inbuf)) \/ Further(Head(inbuf)) \/ Trailers(Head(inbuf))
  <2>1. inbuf # <<>> /\ stream_id \in StreamIds \cup {0}
    BY <1>5, Identifiers, Zenon DEF Opening, Further, Trailers, Asks, Takes
  <2>2. Head(inbuf).sid \in StreamIds \cup {0}
    BY <2>1, Identifiers, Zenon
  <2> QED
    BY <1>4, <1>5, <2>1, <2>2, Zenon DEF Opening, Further, Trailers
<1> QED
  BY <1>1, <1>2, <1>3, <1>5, Zenon DEF Class, Ends, OpensAndEnds, Calm, Greets, Starts, Readies

\* The strengthening of BytesAccounted: outside the notification of writes
\* nothing is written that was not notified.
BInv == BytesAccounted /\ (phase # "notify" => written = 0)

\* Queue and buffer stay even when both grow by the same bytes.
LEMMA EvenBytes ==
  ASSUME NEW q \in Seq(Op), Even(q), wlen \in Int
  PROVE  Total(Bytes(queue')) + wlen = Total(Bytes(q)) + wlen'
         /\ wlen' \in Int /\ Total(Bytes(queue')) \in Int /\ Total(Bytes(q)) \in Int
<1>1. Total(Bytes(q)) \in Int
  BY BytesType
<1>2. CASE queue' = q /\ wlen' = wlen
  BY <1>1, <1>2
<1>3. ASSUME NEW op \in Op, queue' = Append(q, op), wlen' = wlen + op.bytes
      PROVE  Total(Bytes(queue')) + wlen = Total(Bytes(q)) + wlen'
             /\ wlen' \in Int /\ Total(Bytes(queue')) \in Int
  <2>1. Total(Bytes(queue')) = Total(Bytes(q)) + op.bytes
    BY <1>3, BytesAppend, Zenon
  <2>2. op.bytes \in Int
    BY DEF Op
  <2> QED
    BY <1>1, <1>3, <2>1, <2>2, SMTT(30)
<1> QED
  BY <1>1, <1>2, <1>3, Zenon DEF Even

\* The facts of the invariant used below.
LEMMA WriteFacts ==
  ASSUME IInv
  PROVE  queue \in Seq(Op) /\ wlen \in Int /\ written \in Int
<1>1. queue \in Seq(Op) /\ wlen \in 0 .. WriteSize /\ written \in 0 .. WriteSize
  BY Zenon DEF IInv, Written, WriteTypes, CallTypes
<1> QED
  BY <1>1, Sizes

\* Handlers, and steps that write nothing.
LEMMA EvenBInv ==
  ASSUME IInv, BInv, Between, failed' # "none" \/ Even(queue)
  PROVE  BInv'
<1>1. written = 0 /\ written' = 0 /\ phase' # "notify"
  BY DEF BInv, Between
<1>2. ASSUME failed' = "none" PROVE QueuedBytes' = wlen' + written'
  <2>1. Even(queue)
    BY <1>2
  <2>2. Total(Bytes(queue)) = wlen + written
    BY Zenon DEF BInv, BytesAccounted, QueuedBytes, Bytes, Between
  <2>3. /\ Total(Bytes(queue')) + wlen = Total(Bytes(queue)) + wlen'
        /\ wlen' \in Int /\ Total(Bytes(queue')) \in Int /\ Total(Bytes(queue)) \in Int
    BY <2>1, WriteFacts, EvenBytes, Zenon
  <2>4. Total(Bytes(queue')) = wlen' + written'
    BY <1>1, <2>2, <2>3, WriteFacts, SMTT(30)
  <2> QED
    BY <2>4, Zenon DEF QueuedBytes, Bytes
<1> QED
  BY <1>1, <1>2 DEF BInv, BytesAccounted

\* The callback of an operation runs when its bytes have been written.
LEMMA NotifyBInv ==
  ASSUME IInv, BInv, event_sock_handle_write
  PROVE  BInv'
<1> DEFINE q == Tail(queue)
<1>1. /\ phase = "notify" /\ failed = "none" /\ phase' = phase /\ queue # <<>>
      /\ written' = written - Head(queue).bytes
  BY Zenon DEF event_sock_handle_write, At
<1>2. q \in Seq(Op) /\ Head(queue) \in Op
  BY <1>1, WriteFacts, TailFacts, SMTT(30)
<1>3. failed' # "none" \/ Even(q)
  <2>1. CASE NoWrite(q, 1)
    BY <2>1, Zenon DEF NoWrite, Even
  <2>2. CASE http2_continue_send(q, 1, stream_window)
    BY <2>2, SendEven, StreamWindow, Zenon
  <2> QED
    BY <2>1, <2>2, Zenon DEF event_sock_handle_write, on_settings_sent,
                             on_stream_send_complete
<1>4. ASSUME failed' = "none" PROVE QueuedBytes' = wlen' + written'
  <2>1. Total(Bytes(queue)) = wlen + written
    BY <1>1, Zenon DEF BInv, BytesAccounted, QueuedBytes, Bytes
  <2>2. Total(Bytes(queue)) = Head(queue).bytes + Total(Bytes(q))
    BY <1>1, WriteFacts, BytesHead, Zenon
  <2>3. /\ Total(Bytes(queue')) + wlen = Total(Bytes(q)) + wlen'
        /\ wlen' \in Int /\ Total(Bytes(queue')) \in Int /\ Total(Bytes(q)) \in Int
    BY <1>2, <1>3, <1>4, WriteFacts, EvenBytes, Zenon
  <2>4. Head(queue).bytes \in Int
    BY <1>2 DEF Op
  <2> HIDE DEF q
  <2>5. Total(Bytes(queue')) = wlen' + written'
    <3>1. /\ Total(Bytes(queue)) \in Int /\ wlen \in Int /\ written \in Int
      BY WriteFacts, BytesType, Zenon
    <3>2. PICK t \in Int : t = Total(Bytes(queue))
      BY <3>1, Zenon
    <3>3. PICK u \in Int : u = Total(Bytes(q))
      BY <2>3, Zenon
    <3>4. PICK h \in Int : h = Head(queue).bytes
      BY <2>4, Zenon
    <3>5. PICK t2 \in Int : t2 = Total(Bytes(queue'))
      BY <2>3, Zenon
    <3>6. PICK w \in Int, r \in Int : w = wlen /\ r = written
      BY <3>1, Zenon
    <3>7. PICK w2 \in Int : w2 = wlen'
      BY <2>3, Zenon
    <3>8. t = w + r /\ t = h + u /\ t2 + w = u + w2
      BY <2>1, <2>2, <2>3, <3>2, <3>3, <3>4, <3>5, <3>6, <3>7, Zenon
    <3>9. t2 = w2 + (r - h)
      BY <3>8
    <3> QED
      BY <1>1, <3>4, <3>5, <3>6, <3>7, <3>9, Zenon
  <2> QED
    BY <2>5, Zenon DEF QueuedBytes, Bytes
<1> QED
  BY <1>1, <1>4 DEF BInv, BytesAccounted

\* An operation written in part keeps the bytes it still waits for.
LEMMA NotifyEndBInv ==
  ASSUME IInv, BInv, event_sock_handle_write_end
  PROVE  BInv'
<1>1. /\ phase = "notify" /\ failed = "none" /\ phase' = "pending" /\ failed' = failed
      /\ written' = 0 /\ wlen' = wlen
  BY Zenon DEF event_sock_handle_write_end, At
<1>2. Total(Bytes(queue)) = wlen + written
  BY <1>1, Zenon DEF BInv, BytesAccounted, QueuedBytes, Bytes
<1>3. Total(Bytes(queue')) = wlen'
  <2>1. CASE written = 0 /\ UNCHANGED queue
    BY <1>1, <1>2, <2>1, WriteFacts, SMTT(30)
  <2>2. CASE queue = <<>> /\ UNCHANGED queue
    <3>1. Bytes(queue) = <<>>
      BY <2>2 DEF Bytes
    <3>2. Total(Bytes(queue)) = 0
      BY <3>1, TotalEmpty, Zenon
    <3>3. written \in Nat /\ wlen \in Nat
      <4>1. wlen \in 0 .. WriteSize /\ written \in 0 .. WriteSize
        BY Zenon DEF IInv, Written, WriteTypes, CallTypes
      <4> QED
        BY <4>1, Sizes
    <3> QED
      BY <1>1, <1>2, <2>2, <3>2, <3>3, SMTT(30)
  <2>3. CASE /\ written > 0 /\ queue # <<>> /\ Head(queue).bytes > written
             /\ queue' = <<[Head(queue) EXCEPT !.bytes = @ - written]>> \o Tail(queue)
    <3> DEFINE op == [Head(queue) EXCEPT !.bytes = @ - written]
               q  == Tail(queue)
    <3>1. q \in Seq(Op) /\ Head(queue) \in Op
      BY <2>3, WriteFacts, TailFacts
    <3>2. Head(queue).bytes \in Int /\ op.bytes = Head(queue).bytes - written
      BY <3>1 DEF Op
    <3>3. op \in Op
      <4>1. Head(queue).bytes - written \in Nat \ {0}
        BY <2>3, <3>2, WriteFacts
      <4>2. \A n \in Nat \ {0} : [Head(queue) EXCEPT !.bytes = n] \in Op
        BY <3>1, SMTT(30) DEF Op
      <4> QED
        BY <4>1, <4>2, Zenon
    <3> HIDE DEF op, q
    <3>4. queue' = <<op>> \o q
      BY <2>3 DEF op, q
    <3>5. /\ <<op>> \o q \in Seq(Op) /\ <<op>> \o q # <<>>
          /\ Head(<<op>> \o q) = op /\ Tail(<<op>> \o q) = q
      BY <3>1, <3>3
    <3>6. Total(Bytes(queue')) = op.bytes + Total(Bytes(q))
      BY <3>4, <3>5, BytesHead, Zenon
    <3>7. Total(Bytes(queue)) = Head(queue).bytes + Total(Bytes(q))
      BY <2>3, WriteFacts, BytesHead, Zenon DEF q
    <3>8. Total(Bytes(q)) \in Int
      BY <3>1, BytesType
    <3> QED
      BY <1>1, <1>2, <3>2, <3>6, <3>7, <3>8, WriteFacts, SMTT(30)
  <2> QED
    BY <2>1, <2>2, <2>3, Zenon DEF event_sock_handle_write_end
<1>4. Total(Bytes(queue')) = wlen' + written'
  BY <1>1, <1>3, WriteFacts
<1> QED
  BY <1>1, <1>4, Zenon DEF BInv, BytesAccounted, QueuedBytes, Bytes

\* The other steps of the loop.
LEMMA MoveBInv ==
  ASSUME IInv, BInv,
         \/ event_loop_close \/ event_loop_timers \/ event_sock_read_none
         \/ event_sock_write_none \/ event_loop_pending
         \/ \E f \in Frames : event_sock_read(f)
  PROVE  BInv'
<1>1. read_cb # "notify"
  BY DEF IInv, SockTypes, ReadCallbacks
<1>2. /\ UNCHANGED writeVars /\ written' = written /\ phase' # "notify"
      /\ phase # "notify"
  BY <1>1, SMTT(30)
  DEF event_loop_close, event_loop_timers, event_sock_read_none, event_sock_write_none,
      event_loop_pending, event_sock_read, At, callVars
<1> QED
  BY <1>2, Zenon DEF BInv, BytesAccounted, QueuedBytes, writeVars

\* What the socket takes leaves the buffer and waits to be notified.
LEMMA WriteBInv ==
  ASSUME IInv, BInv, NEW n \in 1 .. wlen, event_sock_write(n)
  PROVE  BInv'
<1>1. /\ phase = "write" /\ phase' = "notify" /\ wlen' = wlen - n /\ written' = n
      /\ failed' = failed /\ queue' = queue
  BY Zenon DEF event_sock_write, At
<1>2. QueuedBytes' = QueuedBytes
  BY <1>1, Zenon DEF QueuedBytes
<1>3. written = 0
  BY <1>1 DEF BInv
<1>4. wlen + written = wlen' + written'
  BY <1>1, <1>3, WriteFacts, SMTT(30)
<1> QED
  BY <1>1, <1>2, <1>4 DEF BInv, BytesAccounted

\* A socket that is closed, or given to a new client, has nothing to write.
LEMMA EmptyBInv ==
  ASSUME IInv, BInv, http2_new_client \/ event_sock_read_end \/ event_sock_write_error
  PROVE  BInv'
<1>1. /\ queue' = <<>> /\ wlen' = 0 /\ phase' # "notify" /\ phase # "notify"
      /\ written' = 0 \/ written' = written
  BY DEF http2_new_client, Fresh, event_sock_read_end, event_sock_write_error,
         event_sock_close, At, callVars
<1>2. written' = 0
  BY <1>1 DEF BInv
<1>3. [i \in 1 .. Len(queue') |-> queue'[i].bytes] = <<>>
  BY <1>1
<1>4. QueuedBytes' = 0
  BY <1>3, TotalEmpty, Zenon DEF QueuedBytes
<1>5. QueuedBytes' = wlen' + written'
  BY <1>1, <1>2, <1>4
<1> QED
  BY <1>2, <1>5, Zenon DEF BInv, BytesAccounted

----------------------------------------------------------------------------
(* Theorem: bytes and operations agree *)

\* Every step keeps the bytes accounted for.
LEMMA BytesNext == IInv /\ Receiving /\ BInv /\ [Next]_vars => BInv'
<1> SUFFICES ASSUME IInv, Receiving, BInv, [Next]_vars PROVE BInv'
  OBVIOUS
<1>1. CASE Receive \/ on_settings_timeout \/ http2_close_gracefully
  <2>1. Class
    BY <1>1, Classified
  <2>2. Between
    BY <2>1 DEF Class
  <2> QED
    BY <2>1, <2>2, ClassEven, EvenBInv, SMTT(30)
<1>2. CASE UNCHANGED vars
  BY <1>2, Zenon DEF vars, BInv, BytesAccounted, QueuedBytes, writeVars, callVars
<1> QED
  BY <1>1, <1>2, MoveBInv, WriteBInv, EmptyBInv, NotifyBInv, NotifyEndBInv, Zenon
  DEF Next, Loop

\* For all sizes and any peer, the write buffer and the bytes written and not
\* yet notified are those of the queued operations, through partial writes,
\* callbacks that write again, frames cut for want of room and lost
\* connections: event_sock_handle_write never runs a callback early or late.
THEOREM BytesAccountedThm == Spec => []BytesAccounted
<1>1. Init => BInv
  <2> SUFFICES ASSUME Init PROVE BInv
    OBVIOUS
  <2>1. queue = <<>> /\ wlen = 0 /\ written = 0
    BY DEF Init
  <2>2. [i \in 1 .. Len(queue) |-> queue[i].bytes] = <<>>
    BY <2>1
  <2>3. QueuedBytes = 0
    BY <2>2, TotalEmpty, Zenon DEF QueuedBytes
  <2> QED
    BY <2>1, <2>3 DEF BInv, BytesAccounted
<1>2. IInv /\ Receiving /\ BInv /\ [Next]_vars => BInv'
  BY BytesNext
<1>3. BInv => BytesAccounted
  BY DEF BInv
<1> QED
  BY <1>1, <1>2, <1>3, ReceivingInvariant, PTL DEF Spec
=============================================================================
