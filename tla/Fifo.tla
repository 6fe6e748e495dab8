-------------------------------- MODULE Fifo --------------------------------
(***************************************************************************)
(* What cbuf.h promises of a circular buffer: a queue of bytes of fixed    *)
(* size.  A push appends the longest prefix of its data that fits, a pop   *)
(* takes bytes from the front, a peek copies them without taking them, and *)
(* an ended queue can only be read.  Every call is one step.               *)
(***************************************************************************)
EXTENDS Integers, Sequences

CONSTANTS
  MaxLen,   \* the size of the buffer
  Bytes,    \* the values of a byte
  Inputs,   \* the data that callers push
  Lengths   \* the lengths that callers ask for

VARIABLES
  content,  \* the bytes of the queue, the oldest first
  ended,    \* the writer has ended the queue
  moved     \* the bytes that the last call accepted or returned

vars == <<content, ended, moved>>

Least(a, b) == IF a < b THEN a ELSE b

Init == content = <<>> /\ ended = FALSE /\ moved = <<>>

Push(data) ==
  LET n == IF ended THEN 0 ELSE Least(Len(data), MaxLen - Len(content)) IN
  /\ moved' = SubSeq(data, 1, n)
  /\ content' = content \o SubSeq(data, 1, n)
  /\ UNCHANGED ended

Pop(n) ==
  LET k == Least(n, Len(content)) IN
  /\ moved' = SubSeq(content, 1, k)
  /\ content' = SubSeq(content, k + 1, Len(content))
  /\ UNCHANGED ended

Peek(n) ==
  /\ moved' = SubSeq(content, 1, Least(n, Len(content)))
  /\ UNCHANGED <<content, ended>>

End == ended' = TRUE /\ UNCHANGED <<content, moved>>

Next ==
  \/ \E data \in Inputs : Push(data)
  \/ \E n \in Lengths : Pop(n) \/ Peek(n)
  \/ End

Spec == Init /\ [][Next]_vars
=============================================================================
