---------------------------- MODULE HpackEntries ----------------------------
(***************************************************************************)
(* What a dynamic table of HPACK promises, without its representation: a   *)
(* list of headers, the newest first, of which the oldest are dropped when *)
(* their sizes exceed a limit.                                             *)
(***************************************************************************)
EXTENDS Integers, Sequences, FiniteSetsExt, Sums

CONSTANTS
  Names, Values,   \* strings of headers: sequences of characters
  Overhead,        \* what an entry counts for beyond its characters
  MaxTable         \* the largest limit

VARIABLES entries, limit, cap

Size(e) == Len(e[1]) + Len(e[2]) + Overhead

\* The size of the k newest of the headers es.
SizeOf(es, k) == PartialSums([i \in 1 .. Len(es) |-> Size(es[i])])[k]

\* As many of the newest headers as fit into n.
Newest(es, n) ==
  SubSeq(es, 1, Max({k \in 0 .. Len(es) : SizeOf(es, k) <= n}))

Init == entries = <<>> /\ limit = MaxTable /\ cap = MaxTable

Add(e) ==
  /\ Size(e) <= limit
  /\ entries' = Newest(<<e>> \o entries, limit)
  /\ UNCHANGED <<limit, cap>>

Resize(n) ==
  /\ n <= cap
  /\ limit' = n /\ entries' = Newest(entries, n)
  /\ UNCHANGED cap

Recap(n) ==
  /\ cap' = n /\ limit' = n /\ entries' = Newest(entries, n)

Next ==
  \/ \E e \in Names \X Values : Add(e)
  \/ \E n \in 0 .. MaxTable : Resize(n) \/ Recap(n)

Spec == Init /\ [][Next]_<<entries, limit, cap>>
=============================================================================
