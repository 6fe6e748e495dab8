-------------------------------- MODULE CBuf --------------------------------
(***************************************************************************)
(* The circular buffer of cbuf.c: an array, a write index (head), a read   *)
(* index (tail) and a count.  A call of cbuf_push, cbuf_pop or cbuf_peek   *)
(* copies contiguous pieces of the array in a loop; every turn of the loop *)
(* is a step here, and so is the return.                                   *)
(***************************************************************************)
EXTENDS Integers, Sequences

CONSTANTS
  MaxLen,   \* cbuf->maxlen
  Bytes,    \* the values of a byte
  Inputs,   \* the data that callers push
  Lengths   \* the lengths that callers pop or peek

ASSUME CBufAssumption ==
  /\ MaxLen \in Nat \ {0}
  /\ Inputs \subseteq Seq(Bytes)
  /\ Lengths \subseteq Nat

VARIABLES
  ptr, head, tail, len, state,  \* the fields of cbuf_t
  op,       \* the function that is running, or "none"
  src,      \* cbuf_push: the data that is left to copy (src and len)
  want,     \* cbuf_pop, cbuf_peek: the length that is left to copy (len)
  rtail,    \* cbuf_peek: its local read index (tail)
  rlen,     \* cbuf_peek: its local count (cbuflen)
  moved     \* the bytes copied by the call; the code counts them in bytes

cbuf == <<ptr, head, tail, len, state>>
call == <<op, src, want, rtail, rlen, moved>>
vars == <<ptr, head, tail, len, state, op, src, want, rtail, rlen, moved>>

Index == 0 .. MaxLen - 1

MIN(a, b) == IF a < b THEN a ELSE b

cbuf_init ==
  /\ ptr \in [Index -> Bytes]
  /\ head = 0 /\ tail = 0 /\ len = 0
  /\ state = "OPEN"
  /\ op = "none" /\ src = <<>> /\ want = 0 /\ rtail = 0 /\ rlen = 0
  /\ moved = <<>>

----------------------------------------------------------------------------
(* cbuf_push *)

Push(data) ==
  /\ op = "none"
  /\ op' = "push" /\ src' = data /\ moved' = <<>>
  /\ UNCHANGED <<cbuf, want, rtail, rlen>>

PushMore == Len(src) > 0 /\ len < MaxLen /\ state = "OPEN"

\* Variant: the free part is taken to end at tail when the buffer is empty.
PushLen_empty ==
  IF head <= tail THEN MIN(Len(src), tail - head)
                  ELSE MIN(Len(src), MaxLen - head)

\* Variant: the free part is taken to end at the end of the array.
PushLen_over == MIN(Len(src), MaxLen - head)

PushLen ==
  IF head < tail THEN MIN(Len(src), tail - head)
                 ELSE MIN(Len(src), MaxLen - head)

cbuf_push ==
  /\ op = "push" /\ PushMore
  /\ ptr' = [i \in Index |->
               IF i \in head .. head + PushLen - 1 THEN src[i - head + 1]
                                                   ELSE ptr[i]]
  /\ head' = (head + PushLen) % MaxLen
  /\ len' = len + PushLen
  /\ moved' = moved \o SubSeq(src, 1, PushLen)
  /\ src' = SubSeq(src, PushLen + 1, Len(src))
  /\ UNCHANGED <<tail, state, op, want, rtail, rlen>>

cbuf_push_return ==
  /\ op = "push" /\ ~PushMore
  /\ op' = "none" /\ src' = <<>>
  /\ UNCHANGED <<cbuf, want, rtail, rlen, moved>>

----------------------------------------------------------------------------
(* cbuf_pop and cbuf_peek *)

ReadLen(t) ==
  IF t < head THEN MIN(want, head - t) ELSE MIN(want, MaxLen - t)

Piece(from, n) == [i \in 1 .. n |-> ptr[from + i - 1]]

Pop(n) ==
  /\ op = "none"
  /\ op' = "pop" /\ want' = n /\ moved' = <<>>
  /\ UNCHANGED <<cbuf, src, rtail, rlen>>

PopMore == want > 0 /\ len > 0

\* Variant: the read index advances by the length asked for.
cbuf_pop_asked ==
  /\ op = "pop" /\ PopMore
  /\ moved' = moved \o Piece(tail, ReadLen(tail))
  /\ tail' = (tail + want) % MaxLen
  /\ len' = len - ReadLen(tail)
  /\ want' = want - ReadLen(tail)
  /\ UNCHANGED <<ptr, head, state, op, src, rtail, rlen>>

cbuf_pop ==
  /\ op = "pop" /\ PopMore
  /\ moved' = moved \o Piece(tail, ReadLen(tail))
  /\ tail' = (tail + ReadLen(tail)) % MaxLen
  /\ len' = len - ReadLen(tail)
  /\ want' = want - ReadLen(tail)
  /\ UNCHANGED <<ptr, head, state, op, src, rtail, rlen>>

cbuf_pop_return ==
  /\ op = "pop" /\ ~PopMore
  /\ op' = "none" /\ want' = 0
  /\ UNCHANGED <<cbuf, src, rtail, rlen, moved>>

Peek(n) ==
  /\ op = "none"
  /\ op' = "peek" /\ want' = n /\ moved' = <<>>
  /\ rtail' = tail /\ rlen' = len
  /\ UNCHANGED <<cbuf, src>>

PeekMore == want > 0 /\ rlen > 0

\* Variant: the second piece is read at the buffer's own index again.
cbuf_peek_tail ==
  /\ op = "peek" /\ PeekMore
  /\ moved' = moved \o Piece(tail, ReadLen(tail))
  /\ rtail' = (rtail + ReadLen(tail)) % MaxLen
  /\ rlen' = rlen - ReadLen(tail)
  /\ want' = want - ReadLen(tail)
  /\ UNCHANGED <<cbuf, op, src>>

cbuf_peek ==
  /\ op = "peek" /\ PeekMore
  /\ moved' = moved \o Piece(rtail, ReadLen(rtail))
  /\ rtail' = (rtail + ReadLen(rtail)) % MaxLen
  /\ rlen' = rlen - ReadLen(rtail)
  /\ want' = want - ReadLen(rtail)
  /\ UNCHANGED <<cbuf, op, src>>

cbuf_peek_return ==
  /\ op = "peek" /\ ~PeekMore
  /\ op' = "none" /\ want' = 0 /\ rtail' = 0 /\ rlen' = 0
  /\ UNCHANGED <<cbuf, src, moved>>

----------------------------------------------------------------------------
cbuf_end ==
  /\ op = "none"
  /\ state' = "ENDED"
  /\ UNCHANGED <<ptr, head, tail, len, call>>

Calls ==
  \/ \E data \in Inputs : Push(data)
  \/ \E n \in Lengths : Pop(n)
  \/ \E n \in Lengths : Peek(n)
  \/ cbuf_end

Steps ==
  \/ cbuf_push \/ cbuf_push_return
  \/ cbuf_pop \/ cbuf_pop_return
  \/ cbuf_peek \/ cbuf_peek_return

Next == Calls \/ Steps

Spec == cbuf_init /\ [][Next]_vars

\* A function that is running goes on to its return.
FairSpec == Spec /\ WF_vars(Steps)

----------------------------------------------------------------------------
(* Properties *)

\* The fields have their types, and the indices stay inside the array
\* (cbuf.c:28, 61, 94: every index is reduced modulo maxlen).
TypeOK ==
  /\ ptr \in [Index -> Bytes]
  /\ head \in Index /\ tail \in Index /\ len \in 0 .. MaxLen
  /\ state \in {"OPEN", "ENDED"}
  /\ op \in {"none", "push", "pop", "peek"}
  /\ src \in Seq(Bytes) /\ want \in Nat
  /\ rtail \in Index /\ rlen \in 0 .. MaxLen
  /\ moved \in Seq(Bytes)

\* The three counters that the code updates separately agree at every turn
\* of every loop: the write index is the read index plus the count, around
\* the array.  head = tail is both the empty and the full buffer; only len
\* tells them apart (cbuf.c:20, 48).
IndicesAgree == head = (tail + len) % MaxLen

\* The cells that hold unread bytes.
Cell(i) == (tail + i - 1) % MaxLen
Unread == {Cell(i) : i \in 1 .. len}

\* A push never writes over bytes that were not read yet (cbuf.c:21-25).
UnreadKept == [][op = "push" => \A i \in Unread : ptr'[i] = ptr[i]]_vars

\* Every call returns: no turn of a loop copies nothing (cbuf.c:20, 48, 82).
CallsReturn == op # "none" ~> op = "none"

\* The bytes of the buffer in order, and the part of a running call that is
\* still to come.
Content ==
  CASE op = "push" ->
         LET n == IF state = "OPEN" THEN MIN(Len(src), MaxLen - len) ELSE 0 IN
         [i \in 1 .. len + n |->
            IF i <= len THEN ptr[Cell(i)] ELSE src[i - len]]
    [] op = "pop" ->
         LET n == MIN(want, len) IN
         [i \in 1 .. len - n |-> ptr[Cell(n + i)]]
    [] OTHER -> [i \in 1 .. len |-> ptr[Cell(i)]]

Moved ==
  CASE op = "push" ->
         LET n == IF state = "OPEN" THEN MIN(Len(src), MaxLen - len) ELSE 0 IN
         moved \o SubSeq(src, 1, n)
    [] op = "pop" ->
         moved \o [i \in 1 .. MIN(want, len) |-> ptr[Cell(i)]]
    [] op = "peek" ->
         moved \o [i \in 1 .. MIN(want, rlen) |->
                     ptr[(rtail + i - 1) % MaxLen]]
    [] OTHER -> moved

F == INSTANCE Fifo WITH content <- Content, ended <- (state = "ENDED"),
                        moved <- Moved

\* The circular buffer implements the queue of cbuf.h: each call, however
\* its copy is split at the end of the array, acts on the queue in one step.
IsFifo == F!Spec
=============================================================================
