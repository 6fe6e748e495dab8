------------------------- MODULE ServerPools_proofs -------------------------
(***************************************************************************)
(* Proofs about what a server keeps in arrays of a fixed size, for every   *)
(* such size.  In event.c, for every number of sockets and clients: no     *)
(* event and no write operation is lost, and there are events enough.  In  *)
(* two.c, for every sequence of calls of two_register_resource: a request  *)
(* finds what was registered last.                                         *)
(***************************************************************************)
EXTENDS EventLoop_proofs, Resources, FiniteSetTheorems

\* The callbacks of the operations that http2.c queues.
Callbacks == {"on_settings_sent", "close_on_goaway_sent", "close_on_write_error"}

\* The types of what events and operations are counted with.
PoolTypes ==
  /\ free_events \in Int /\ free_writes \in Nat /\ done \in Nat /\ starts \in Nat
  /\ events \in [Slots -> SUBSET Types] /\ greeted \in [Slots -> BOOLEAN]
  /\ queue \in [Slots -> Seq(Callbacks)]
  /\ \A s \in Slots : Len(queue[s]) <= MaxQueue

\* Nothing is lost.
Counted ==
  /\ free_events + Cardinality(Taken) = MaxEvents
  /\ free_writes + Cardinality(Queued) = MaxWrites

\* Socket s with events ev, queue q and context d, which has sent its SETTINGS
\* if g: they are sent once, and the timer is set after that; only the server waits for
\* connections, and everything else is a client's.
Fits(s, ev, q, g, d) ==
  /\ \A i \in 1 .. Len(q) : q[i] = "on_settings_sent" => g = TRUE /\ "timer" \notin ev
  /\ \A i, j \in 1 .. Len(q) : q[i] = "on_settings_sent" /\ q[j] = "on_settings_sent" => i = j
  /\ "timer" \in ev => g = TRUE
  /\ "connection" \in ev => s = server
  /\ ev \ {"connection"} # {} \/ q # <<>> => d # None

\* Every socket fits.
Fit == \A s \in Slots : Fits(s, events[s], queue[s], greeted[s], data[s])

\* Sockets that are not in use have nothing.
Unused == \A s \in Range(sockets) : events[s] = {} /\ queue[s] = <<>> /\ greeted[s] = FALSE

\* The inductive invariant, together with IInv.
PInv ==
  /\ PoolTypes /\ Fit /\ Unused
  /\ starts = 0 => at = "idle" /\ free_events = 0
  /\ starts # 0 => Counted
  /\ at = "notify" => done <= Len(queue[Visited])

-----------------------------------------------------------------------------
(* Counting.                                                                *)

\* Sets of types of events are finite.
LEMMA TypesFinite == \A X \in SUBSET Types : IsFiniteSet(X) /\ Cardinality(X) \in Nat
<1>1. IsFiniteSet({"connection"})
  BY FS_Singleton
<1>2. IsFiniteSet({"connection"} \cup {"read"})
  BY <1>1, FS_AddElement
<1>3. IsFiniteSet(({"connection"} \cup {"read"}) \cup {"write"})
  BY <1>2, FS_AddElement
<1>4. IsFiniteSet((({"connection"} \cup {"read"}) \cup {"write"}) \cup {"timer"})
  BY <1>3, FS_AddElement
<1>5. Types = (({"connection"} \cup {"read"}) \cup {"write"}) \cup {"timer"}
  BY DEF Types
<1>6. IsFiniteSet(Types)
  BY <1>4, <1>5
<1>7. \A X \in SUBSET Types : IsFiniteSet(X)
  BY <1>6, FS_Subset
<1> QED BY <1>7, FS_CardinalityType

\* S is R and the pairs of s with the elements of A, of which R has none.
Splits(S, R, s, A) == S = R \cup ({s} \X A) /\ \A p \in R : p[1] # s

\* The pairs of s with the elements of A are as many as these.
LEMMA Column ==
  ASSUME NEW S, NEW R, NEW s, NEW A, Splits(S, R, s, A), IsFiniteSet(R), IsFiniteSet(A)
  PROVE  Cardinality(S) = Cardinality(R) + Cardinality(A)
<1>1. IsFiniteSet({s}) /\ Cardinality({s}) = 1
  BY FS_Singleton, Zenon
<1>2. Cardinality(R) \in Nat /\ Cardinality(A) \in Nat
  BY FS_CardinalityType
<1>3. IsFiniteSet({s} \X A) /\ Cardinality({s} \X A) = 1 * Cardinality(A)
  BY <1>1, FS_Product
<1>4. R \cap ({s} \X A) = {}
  BY DEF Splits
<1>5. Cardinality(R \cup ({s} \X A)) = Cardinality(R) + Cardinality({s} \X A) - Cardinality({})
  BY <1>3, <1>4, FS_Union
<1>6. Cardinality({}) = 0
  BY FS_EmptySet
<1> QED BY <1>2, <1>3, <1>5, <1>6 DEF Splits

\* The events that are taken are finitely many.
LEMMA TakenFinite == IsFiniteSet(Taken) /\ Cardinality(Taken) \in Nat
<1>1. IsFiniteSet(Slots)
  BY LoopAssumption, FS_Interval DEF Slots
<1>2. IsFiniteSet(Slots \X Types)
  BY <1>1, TypesFinite, FS_Product, Zenon
<1>3. Taken \in SUBSET (Slots \X Types)
  BY DEF Taken
<1>4. IsFiniteSet(Taken)
  BY <1>2, <1>3, FS_Subset
<1> QED BY <1>4, FS_CardinalityType

\* Socket s gets the events X, or the queue q.
EventsChange(s, X) == X \in SUBSET Types /\ events' = [events EXCEPT ![s] = X]
QueueChange(s, q)  == q \in Seq(Callbacks) /\ Len(q) <= MaxQueue /\ queue' = [queue EXCEPT ![s] = q]

\* A socket has other events than before.
LEMMA TakenChanged ==
  ASSUME PoolTypes, NEW s \in Slots, NEW X, EventsChange(s, X)
  PROVE  /\ Cardinality(Taken) \in Nat /\ Cardinality(Taken') \in Nat
         /\ Cardinality(events[s]) \in Nat /\ Cardinality(X) \in Nat
         /\ Cardinality(Taken') + Cardinality(events[s]) = Cardinality(Taken) + Cardinality(X)
<1> DEFINE R == {p \in Taken : p[1] # s}
<1>1. IsFiniteSet(Taken)
  BY TakenFinite
<1>2. IsFiniteSet(R)
  <2>1. R \in SUBSET Taken
    OBVIOUS
  <2> QED BY <1>1, <2>1, FS_Subset
<1>3. events[s] \in SUBSET Types /\ X \in SUBSET Types /\ events \in [Slots -> SUBSET Types]
  BY DEF PoolTypes, EventsChange
<1>4. Taken = R \cup ({s} \X events[s])
  BY <1>3 DEF Taken
<1>5. Taken' = R \cup ({s} \X X)
  BY <1>3 DEF Taken, EventsChange
<1>6. Splits(Taken, R, s, events[s]) /\ Splits(Taken', R, s, X)
  BY <1>4, <1>5 DEF Splits
<1> HIDE DEF R
<1>7. /\ IsFiniteSet(events[s]) /\ IsFiniteSet(X)
      /\ Cardinality(events[s]) \in Nat /\ Cardinality(X) \in Nat
  BY <1>3, TypesFinite
<1>8. Cardinality(Taken) = Cardinality(R) + Cardinality(events[s])
  BY <1>2, <1>6, <1>7, Column
<1>9. Cardinality(Taken') = Cardinality(R) + Cardinality(X)
  BY <1>2, <1>6, <1>7, Column
<1>10. Cardinality(R) \in Nat
  BY <1>2, FS_CardinalityType
<1> QED BY <1>7, <1>8, <1>9, <1>10

\* A socket has another queue than before.
LEMMA QueuedChanged ==
  ASSUME PoolTypes, NEW s \in Slots, NEW q, QueueChange(s, q)
  PROVE  /\ Cardinality(Queued) \in Nat /\ Cardinality(Queued') \in Nat
         /\ Cardinality(Queued') + Len(queue[s]) = Cardinality(Queued) + Len(q)
<1> DEFINE R == {p \in Queued : p[1] # s}
<1>1. IsFiniteSet(Queued)
  <2>1. IsFiniteSet(Slots) /\ IsFiniteSet(1 .. MaxQueue)
    BY LoopAssumption, FS_Interval DEF Slots
  <2>2. IsFiniteSet(Slots \X (1 .. MaxQueue))
    BY <2>1, FS_Product, Zenon
  <2>3. Queued \in SUBSET (Slots \X (1 .. MaxQueue))
    BY DEF Queued
  <2> QED BY <2>2, <2>3, FS_Subset
<1>2. IsFiniteSet(R)
  <2>1. R \in SUBSET Queued
    OBVIOUS
  <2> QED BY <1>1, <2>1, FS_Subset
<1>3. /\ queue \in [Slots -> Seq(Callbacks)] /\ Len(queue[s]) \in Nat /\ Len(q) \in Nat
      /\ Len(queue[s]) <= MaxQueue /\ Len(q) <= MaxQueue /\ MaxQueue \in Nat
  BY LoopAssumption DEF PoolTypes, QueueChange
<1>4. Queued = R \cup ({s} \X (1 .. Len(queue[s])))
  BY <1>3 DEF Queued
<1>5. Queued' = R \cup ({s} \X (1 .. Len(q)))
  BY <1>3 DEF Queued, QueueChange
<1>6. Splits(Queued, R, s, 1 .. Len(queue[s])) /\ Splits(Queued', R, s, 1 .. Len(q))
  BY <1>4, <1>5 DEF Splits
<1> HIDE DEF R
<1>7. /\ IsFiniteSet(1 .. Len(queue[s])) /\ Cardinality(1 .. Len(queue[s])) = Len(queue[s])
      /\ IsFiniteSet(1 .. Len(q)) /\ Cardinality(1 .. Len(q)) = Len(q)
  <2>1. ASSUME NEW n \in Nat PROVE IsFiniteSet(1 .. n) /\ Cardinality(1 .. n) = n
    BY FS_Interval
  <2>2. Len(queue[s]) \in Nat /\ Len(q) \in Nat
    BY <1>3
  <2> QED BY <2>1, <2>2, Zenon
<1>8. Cardinality(Queued) = Cardinality(R) + Cardinality(1 .. Len(queue[s]))
  BY <1>2, <1>6, <1>7, Column
<1>9. Cardinality(Queued') = Cardinality(R) + Cardinality(1 .. Len(q))
  BY <1>2, <1>6, <1>7, Column
<1>10. Cardinality(R) \in Nat
  BY <1>2, FS_CardinalityType
<1> QED BY <1>3, <1>7, <1>8, <1>9, <1>10

-----------------------------------------------------------------------------
(* What a step does to one socket.                                          *)

\* A socket with fewer events, with or without its queue.
LEMMA FitsLess ==
  ASSUME NEW s, NEW ev, NEW q \in Seq(Callbacks), NEW g, NEW d, Fits(s, ev, q, g, d), NEW X, X \subseteq ev
  PROVE  Fits(s, X, q, g, d) /\ Fits(s, X, <<>>, g, d)
  BY DEF Fits

\* An operation other than the SETTINGS is queued for a client.
LEMMA FitsAppend ==
  ASSUME NEW s, NEW ev, NEW q \in Seq(Callbacks), NEW g, NEW d, Fits(s, ev, q, g, d),
         NEW cb \in Callbacks, cb # "on_settings_sent", d # None
  PROVE  Fits(s, ev, Append(q, cb), g, d)
<1>1. Append(q, cb) \in Seq(Callbacks) /\ Len(Append(q, cb)) = Len(q) + 1 /\ Len(q) \in Nat
  OBVIOUS
<1>2. ASSUME NEW i \in 1 .. Len(Append(q, cb)), Append(q, cb)[i] = "on_settings_sent"
      PROVE  i \in 1 .. Len(q) /\ q[i] = "on_settings_sent"
  BY <1>1, <1>2
<1>3. \A i \in 1 .. Len(Append(q, cb)) :
        Append(q, cb)[i] = "on_settings_sent" => g = TRUE /\ "timer" \notin ev
  BY <1>2 DEF Fits
<1>4. \A i, j \in 1 .. Len(Append(q, cb)) :
        Append(q, cb)[i] = "on_settings_sent" /\ Append(q, cb)[j] = "on_settings_sent" => i = j
  BY <1>2 DEF Fits
<1> QED BY <1>3, <1>4 DEF Fits

\* The SETTINGS are queued, for the first time.
LEMMA FitsGreeting ==
  ASSUME NEW s, NEW ev, NEW q \in Seq(Callbacks), NEW d, Fits(s, ev, q, FALSE, d), d # None
  PROVE  Fits(s, ev, Append(q, "on_settings_sent"), TRUE, d)
<1>1. /\ Len(Append(q, "on_settings_sent")) = Len(q) + 1 /\ Len(q) \in Nat
      /\ \A i \in 1 .. Len(q) : Append(q, "on_settings_sent")[i] = q[i]
  OBVIOUS
<1>2. \A i \in 1 .. Len(q) : q[i] # "on_settings_sent"
  BY DEF Fits
<1>3. \A i \in 1 .. Len(q) + 1 : Append(q, "on_settings_sent")[i] = "on_settings_sent" => i = Len(q) + 1
  BY <1>1, <1>2
<1>4. "timer" \notin ev
  BY DEF Fits
<1> QED BY <1>1, <1>3, <1>4 DEF Fits

\* A socket that has sent its SETTINGS, or tried to.
LEMMA FitsGreeted ==
  ASSUME NEW s, NEW ev, NEW q, NEW g, NEW d, Fits(s, ev, q, g, d)
  PROVE  Fits(s, ev, q, TRUE, d)
  BY DEF Fits

\* The first operation is complete; if it was the SETTINGS, the timer may be set.
LEMMA FitsTail ==
  ASSUME NEW s, NEW ev, NEW q \in Seq(Callbacks), q # <<>>, NEW g, NEW d, Fits(s, ev, q, g, d)
  PROVE  /\ Fits(s, ev, Tail(q), g, d)
         /\ Head(q) = "on_settings_sent"
              => "timer" \notin ev /\ Fits(s, ev \cup {"timer"}, Tail(q), g, d)
<1>1. /\ Len(Tail(q)) = Len(q) - 1 /\ Len(q) \in Nat /\ Len(q) > 0 /\ Head(q) = q[1]
      /\ \A i \in 1 .. Len(q) - 1 : Tail(q)[i] = q[i + 1]
  OBVIOUS
<1>2. ASSUME NEW i \in 1 .. Len(Tail(q)) PROVE i + 1 \in 1 .. Len(q) /\ Tail(q)[i] = q[i + 1] /\ i \in Nat
  BY <1>1
<1>3. \A i \in 1 .. Len(Tail(q)) : Tail(q)[i] = "on_settings_sent" => g = TRUE /\ "timer" \notin ev
  BY <1>2 DEF Fits
<1>4. ASSUME NEW i \in 1 .. Len(Tail(q)), NEW j \in 1 .. Len(Tail(q)),
             Tail(q)[i] = "on_settings_sent", Tail(q)[j] = "on_settings_sent"
      PROVE  i = j
  <2>1. i + 1 = j + 1
    BY <1>2, <1>4 DEF Fits
  <2> QED BY <2>1
<1>5. d # None
  BY DEF Fits
<1>6. Fits(s, ev, Tail(q), g, d)
  BY <1>3, <1>4, <1>5 DEF Fits
<1>7. ASSUME Head(q) = "on_settings_sent"
      PROVE  "timer" \notin ev /\ Fits(s, ev \cup {"timer"}, Tail(q), g, d)
  <2>1. 1 \in 1 .. Len(q) /\ q[1] = "on_settings_sent"
    BY <1>1, <1>7
  <2>2. "timer" \notin ev /\ g = TRUE
    BY <2>1 DEF Fits
  <2>3. \A i \in 1 .. Len(Tail(q)) : Tail(q)[i] # "on_settings_sent"
    <3> SUFFICES ASSUME NEW i \in 1 .. Len(Tail(q)), Tail(q)[i] = "on_settings_sent" PROVE FALSE
      OBVIOUS
    <3>1. i + 1 = 1
      BY <1>2, <2>1 DEF Fits
    <3> QED BY <3>1
  <2> QED BY <2>2, <2>3, <1>5, <1>6 DEF Fits
<1> QED BY <1>6, <1>7

\* The account of the events.
EventsPaid(s, X) ==
  free_events' \in Int /\ free_events' + Cardinality(X) = free_events + Cardinality(events[s])

\* The account of the write operations.
WritesPaid(s, q) ==
  free_writes' \in Nat /\ free_writes' + Len(q) = free_writes + Len(queue[s])

\* event_write, and its callers that do not write: the queue grows at most by
\* one, and what leaves it or enters it is in the pool or comes from it.
LEMMA Written ==
  ASSUME PoolTypes, NEW s \in Slots, NEW q \in Seq(Callbacks), NEW rel \in {0, 1},
         Len(q) + rel = Len(queue[s]), NEW cb \in Callbacks,
         event_write(s, q, rel, cb) \/ NoWrite(s, q, rel)
  PROVE  \E r \in {q, Append(q, cb)} : QueueChange(s, r) /\ WritesPaid(s, r) /\ Len(r) >= Len(q)
<1>1. /\ free_writes \in Nat /\ Len(q) \in Nat /\ Len(queue[s]) \in Nat
      /\ Len(queue[s]) <= MaxQueue /\ MaxQueue \in Nat
  BY LoopAssumption DEF PoolTypes
<1>2. Append(q, cb) \in Seq(Callbacks) /\ Len(Append(q, cb)) = Len(q) + 1
  OBVIOUS
<1>3. CASE queue' = [queue EXCEPT ![s] = q] /\ free_writes' = free_writes + rel
  <2>1. /\ Len(q) <= MaxQueue /\ Len(q) >= Len(q) /\ free_writes' \in Nat
        /\ free_writes' + Len(q) = free_writes + Len(queue[s])
    BY <1>1, <1>3
  <2> QED BY <1>3, <2>1, Zenon DEF QueueChange, WritesPaid
<1>4. CASE /\ free_writes > 0 /\ Len(q) < MaxQueue
           /\ queue' = [queue EXCEPT ![s] = Append(q, cb)] /\ free_writes' = free_writes - 1 + rel
  <2>1. /\ Len(Append(q, cb)) <= MaxQueue /\ Len(Append(q, cb)) >= Len(q) /\ free_writes' \in Nat
        /\ free_writes' + Len(Append(q, cb)) = free_writes + Len(queue[s])
    BY <1>1, <1>2, <1>4, SMTT(30)
  <2> QED BY <1>2, <1>4, <2>1, Zenon DEF QueueChange, WritesPaid
<1>5. CASE free_writes = 0 /\ queue' = [queue EXCEPT ![s] = q] /\ free_writes' = rel
  BY <1>1, <1>3, <1>5
<1> QED BY <1>3, <1>4, <1>5, Zenon DEF event_write, NoWrite

\* Events go back to the loop.
LEMMA Returned ==
  ASSUME PoolTypes, NEW s \in Slots, NEW types, Return(s, types)
  PROVE  EventsChange(s, events[s] \ types) /\ EventsPaid(s, events[s] \ types)
<1>1. events[s] \in SUBSET Types /\ free_events \in Int
  BY DEF PoolTypes
<1>2. IsFiniteSet(events[s])
  BY <1>1, TypesFinite
<1>3. Cardinality(events[s] \ types) = Cardinality(events[s]) - Cardinality(events[s] \cap types)
  BY <1>2, FS_Difference, Zenon
<1>4. events[s] \cap types \in SUBSET Types /\ events[s] \ types \in SUBSET Types
  BY <1>1
<1>5. /\ Cardinality(events[s]) \in Nat /\ Cardinality(events[s] \ types) \in Nat
      /\ Cardinality(events[s] \cap types) \in Nat
  BY <1>1, <1>4, TypesFinite
<1>6. /\ events' = [events EXCEPT ![s] = events[s] \ types]
      /\ free_events' = free_events + Cardinality(events[s] \cap types)
  BY DEF Return
<1>7. /\ free_events' \in Int
      /\ free_events' + Cardinality(events[s] \ types) = free_events + Cardinality(events[s])
  BY <1>1, <1>3, <1>5, <1>6
<1> QED BY <1>4, <1>6, <1>7 DEF EventsChange, EventsPaid

\* What a socket gets comes from the list of free events.
LEMMA EventsBalance ==
  ASSUME PoolTypes, Counted, NEW s \in Slots, NEW X, EventsChange(s, X), EventsPaid(s, X)
  PROVE  free_events' + Cardinality(Taken') = MaxEvents
<1>1. free_events \in Int /\ MaxEvents \in Nat /\ free_events + Cardinality(Taken) = MaxEvents
  BY LoopAssumption DEF PoolTypes, Counted
<1>2. /\ Cardinality(Taken) \in Nat /\ Cardinality(Taken') \in Nat
      /\ Cardinality(events[s]) \in Nat /\ Cardinality(X) \in Nat
      /\ Cardinality(Taken') + Cardinality(events[s]) = Cardinality(Taken) + Cardinality(X)
  BY TakenChanged
<1> QED BY <1>1, <1>2 DEF EventsPaid

\* What enters a queue comes from the list of free operations.
LEMMA WritesBalance ==
  ASSUME PoolTypes, Counted, NEW s \in Slots, NEW q, QueueChange(s, q), WritesPaid(s, q)
  PROVE  free_writes' + Cardinality(Queued') = MaxWrites
<1>1. free_writes \in Nat /\ MaxWrites \in Nat /\ free_writes + Cardinality(Queued) = MaxWrites
  BY LoopAssumption DEF PoolTypes, Counted
<1>2. /\ Cardinality(Queued) \in Nat /\ Cardinality(Queued') \in Nat
      /\ Cardinality(Queued') + Len(queue[s]) = Cardinality(Queued) + Len(q)
  BY QueuedChanged
<1>3. Len(q) \in Nat /\ Len(queue[s]) \in Nat
  BY DEF PoolTypes, QueueChange
<1> QED BY <1>1, <1>2, <1>3, SMTT(30) DEF WritesPaid

\* A step that gives socket s the events X and the queue q, from the pools and
\* to the pools; g: it has sent its SETTINGS; d: its context.
SlotChange(s, X, q, g, d) ==
  /\ EventsChange(s, X) /\ EventsPaid(s, X)
  /\ QueueChange(s, q) /\ WritesPaid(s, q)
  /\ g \in BOOLEAN /\ greeted' = [greeted EXCEPT ![s] = g]
  /\ data' = [data EXCEPT ![s] = d]
  /\ Range(sockets') \subseteq Range(sockets) \cup {s}
  /\ s \in Range(sockets') => X = {} /\ q = <<>> /\ g = FALSE
  /\ done' \in Nat
  /\ at' = "notify" => done' <= Len(queue'[Visited'])
  /\ UNCHANGED <<server, starts>>

\* It keeps the invariant.
LEMMA SlotStep ==
  ASSUME IInv, PInv, at # "idle", at' # "idle", NEW s \in Slots,
         NEW X, NEW q, NEW g, NEW d, SlotChange(s, X, q, g, d), Fits(s, X, q, g, d)
  PROVE  PInv'
<1>1. /\ PoolTypes /\ Fit /\ Unused /\ Counted /\ starts # 0
      /\ data \in [Slots -> Contexts \cup {None}]
  BY DEF PInv, IInv, LoopTypes
<1>2. PoolTypes'
  <2>1. events' \in [Slots -> SUBSET Types] /\ greeted' \in [Slots -> BOOLEAN]
    BY <1>1 DEF PoolTypes, SlotChange, EventsChange
  <2>2. queue' \in [Slots -> Seq(Callbacks)] /\ \A t \in Slots : Len(queue'[t]) <= MaxQueue
    BY <1>1 DEF PoolTypes, SlotChange, QueueChange
  <2>3. /\ free_events' \in Int /\ free_writes' \in Nat /\ done' \in Nat /\ starts' \in Nat
    BY <1>1 DEF PoolTypes, SlotChange, EventsPaid, WritesPaid
  <2> QED BY <2>1, <2>2, <2>3 DEF PoolTypes
<1>3. \A t \in Slots \ {s} : /\ events'[t] = events[t] /\ queue'[t] = queue[t]
                             /\ greeted'[t] = greeted[t] /\ data'[t] = data[t]
  BY <1>1 DEF PoolTypes, SlotChange, EventsChange, QueueChange
<1>4. events'[s] = X /\ queue'[s] = q /\ greeted'[s] = g /\ data'[s] = d
  BY <1>1 DEF PoolTypes, SlotChange, EventsChange, QueueChange
<1>5. Fit'
  <2> SUFFICES ASSUME NEW t \in Slots PROVE Fits(t, events[t], queue[t], greeted[t], data[t])'
    BY DEF Fit
  <2>1. server' = server
    BY DEF SlotChange
  <2>2. CASE t = s
    BY <1>4, <2>1, <2>2, SMTT(30) DEF Fits
  <2>3. CASE t # s
    <3>1. Fits(t, events[t], queue[t], greeted[t], data[t])
      BY <1>1 DEF Fit
    <3> QED BY <1>3, <2>1, <2>3, <3>1 DEF Fits
  <2> QED BY <2>2, <2>3
<1>6. Unused'
  <2> SUFFICES ASSUME NEW t \in Range(sockets')
               PROVE  events'[t] = {} /\ queue'[t] = <<>> /\ greeted'[t] = FALSE
    BY Zenon DEF Unused
  <2>1. CASE t = s
    BY <1>4, <2>1 DEF SlotChange
  <2>2. CASE t # s
    <3>1. t \in Range(sockets) /\ t \in Slots
      BY <2>2 DEF IInv, AtPlace, Lists, SlotChange
    <3> QED BY <1>1, <1>3, <2>2, <3>1 DEF Unused
  <2> QED BY <2>1, <2>2, Zenon
<1>7. free_events' + Cardinality(Taken') = MaxEvents
  BY <1>1, EventsBalance, Zenon DEF SlotChange
<1>8. free_writes' + Cardinality(Queued') = MaxWrites
  BY <1>1, WritesBalance, Zenon DEF SlotChange
<1>9. starts' # 0 /\ (at' = "notify" => done' <= Len(queue'[Visited']))
  BY <1>1 DEF SlotChange
<1> QED BY <1>2, <1>5, <1>6, <1>7, <1>8, <1>9 DEF PInv, Counted

\* A step that leaves the pools alone.
PoolQuiet ==
  /\ UNCHANGED <<free_events, free_writes, events, greeted, queue, starts, data, server, sockets>>
  /\ at = "idle" => at' = "idle"
  /\ done' \in Nat
  /\ at' = "notify" => done' <= Len(queue'[Visited'])

\* It keeps the invariant.
LEMMA PoolQuietStep == PInv /\ PoolQuiet => PInv'
<1> SUFFICES ASSUME PInv, PoolQuiet PROVE PInv'
  OBVIOUS
<1>1. PoolTypes'
  BY DEF PInv, PoolTypes, PoolQuiet
<1>2. Fit' /\ Unused'
  BY DEF PInv, Fit, Fits, Unused, PoolQuiet
<1>3. Taken' = Taken /\ Queued' = Queued
  BY DEF Taken, Queued, PoolQuiet
<1>4. Counted => Counted'
  BY <1>3 DEF Counted, PoolQuiet
<1> QED BY <1>1, <1>2, <1>4 DEF PInv, PoolQuiet

\* The socket that the poll visits is in use.
LEMMA VisitedInUse ==
  ASSUME IInv, at \in Visiting
  PROVE  Visited \in Slots /\ Visited \in Range(reserved) /\ Visited \notin Range(sockets)
<1>1. at # "idle" /\ fd \in active_fds /\ Descriptors /\ Lists
  BY DEF IInv, AtPlace, Visiting
<1>2. \E s \in Range(reserved) : descriptor[s] = fd
  BY <1>1 DEF Descriptors
<1>3. Visited \in Range(reserved)
  BY <1>2 DEF Visited
<1> QED BY <1>1, <1>3 DEF Lists

\* Steps of the loop that leave the pools alone.
LEMMA PoolQuietSteps ==
  ASSUME IInv, PInv,
         \/ event_loop_timers \/ event_loop_poll \/ event_sock_read_none \/ event_sock_connect
         \/ event_accept \/ event_sock_write_none \/ event_sock_write
         \/ event_sock_handle_write_end \/ event_loop_pending \/ event_loop_close_none
         \/ event_loop_close_end \/ two_server_stop \/ connect
  PROVE  PInv'
<1> USE DEF poolVars, sockVars, memVars, fdVars, placeVars, worldVars, At
<1>1. done \in Nat /\ (at = "notify" => done <= Len(queue[Visited])) /\ queue \in [Slots -> Seq(Callbacks)]
  BY DEF PInv, PoolTypes
<1>2. CASE event_loop_timers \/ event_loop_poll \/ event_sock_read_none \/ event_sock_connect
           \/ event_sock_write_none \/ event_sock_handle_write_end \/ event_loop_pending
           \/ event_loop_close_none \/ event_loop_close_end
  <2>1. /\ UNCHANGED <<free_events, free_writes, events, greeted, queue, starts, data, server,
                       sockets, done>>
        /\ at # "idle" /\ at' # "notify"
    BY <1>2, Zenon DEF event_loop_timers, event_loop_poll, event_sock_read_none, event_sock_connect,
       event_sock_write_none, event_sock_handle_write_end, event_loop_pending,
       event_loop_close_none, event_loop_close_end, Advance
  <2> QED BY <1>1, <2>1, PoolQuietStep, SMTT(30) DEF PoolQuiet
<1>3. CASE event_accept \/ two_server_stop \/ connect
  <2>1. /\ UNCHANGED <<free_events, free_writes, events, greeted, queue, starts, data, server,
                       sockets, done>>
        /\ UNCHANGED <<at, reserved, descriptor, fd>>
    BY <1>3 DEF event_accept, two_server_stop, connect
  <2>2. Visited' = Visited
    BY <2>1 DEF Visited
  <2> QED BY <1>1, <2>1, <2>2, PoolQuietStep, SMTT(30) DEF PoolQuiet
<1>4. CASE event_sock_write
  <2>1. /\ UNCHANGED <<free_events, free_writes, events, greeted, queue, starts, data, server,
                       sockets, reserved, descriptor, fd>>
        /\ at = "write" /\ \E n \in 1 .. Len(queue[Visited]) : done' = n
    BY <1>4, Zenon DEF event_sock_write
  <2>2. Visited' = Visited
    BY <2>1 DEF Visited
  <2>3. Visited \in Slots
    BY <2>1, VisitedInUse DEF Visiting
  <2>4. Len(queue[Visited]) \in Nat
    BY <1>1, <2>3
  <2>5. done' \in Nat /\ done' <= Len(queue[Visited])
    BY <2>1, <2>4
  <2> QED BY <2>1, <2>2, <2>5, PoolQuietStep, SMTT(30) DEF PoolQuiet
<1> QED BY <1>2, <1>3, <1>4

\* What is known of a socket.
LEMMA SlotFacts ==
  ASSUME PInv, NEW s \in Slots
  PROVE  /\ events[s] \in SUBSET Types /\ queue[s] \in Seq(Callbacks) /\ greeted[s] \in BOOLEAN
         /\ Len(queue[s]) <= MaxQueue /\ Len(queue[s]) \in Nat
         /\ Fits(s, events[s], queue[s], greeted[s], data[s])
  BY DEF PInv, PoolTypes, Fit

\* A socket keeps its events.
LEMMA SameEvents ==
  ASSUME PInv, NEW s \in Slots, UNCHANGED <<events, free_events>>
  PROVE  EventsChange(s, events[s]) /\ EventsPaid(s, events[s])
<1>1. /\ events[s] \in SUBSET Types /\ free_events \in Int
      /\ events = [events EXCEPT ![s] = events[s]]
  BY DEF PInv, PoolTypes
<1>2. Cardinality(events[s]) \in Nat
  BY <1>1, TypesFinite
<1> QED BY <1>1, <1>2 DEF EventsChange, EventsPaid

\* A socket keeps its queue.
LEMMA SameQueue ==
  ASSUME PInv, NEW s \in Slots, UNCHANGED <<queue, free_writes>>
  PROVE  QueueChange(s, queue[s]) /\ WritesPaid(s, queue[s])
  BY DEF PInv, PoolTypes, QueueChange, WritesPaid

\* event_timer_set takes an event for a socket that has no timer.
LEMMA TimerSet ==
  ASSUME PInv, NEW s \in Slots, "timer" \notin events[s],
         events' = [events EXCEPT ![s] = @ \cup {"timer"}], free_events' = free_events - 1
  PROVE  EventsChange(s, events[s] \cup {"timer"}) /\ EventsPaid(s, events[s] \cup {"timer"})
<1>1. events[s] \in SUBSET Types /\ free_events \in Int
  BY DEF PInv, PoolTypes
<1>2. IsFiniteSet(events[s]) /\ Cardinality(events[s]) \in Nat
  BY <1>1, TypesFinite
<1>3. Cardinality(events[s] \cup {"timer"}) = Cardinality(events[s]) + 1
  BY <1>2, FS_AddElement, SMTT(30)
<1>4. events[s] \cup {"timer"} \in SUBSET Types
  BY <1>1 DEF Types
<1>5. EventsPaid(s, events[s] \cup {"timer"})
  BY <1>1, <1>2, <1>3 DEF EventsPaid
<1> QED BY <1>4, <1>5 DEF EventsChange

\* A step of the loop that changes the events and the queue of a socket in use.
Touches(s, X, q, g) ==
  /\ EventsChange(s, X) /\ EventsPaid(s, X)
  /\ QueueChange(s, q) /\ WritesPaid(s, q)
  /\ g \in BOOLEAN /\ greeted' = [greeted EXCEPT ![s] = g]
  /\ done' \in Nat
  /\ at' = "notify" => done' <= Len(queue'[Visited'])
  /\ UNCHANGED <<sockets, data, server, starts>>

\* It keeps the invariant.
LEMMA TouchStep ==
  ASSUME IInv, PInv, at # "idle", at' # "idle", NEW s \in Slots, s \notin Range(sockets),
         NEW X, NEW q, NEW g, Touches(s, X, q, g), Fits(s, X, q, g, data[s])
  PROVE  PInv'
<1>1. data = [data EXCEPT ![s] = data[s]]
  BY DEF IInv, LoopTypes
<1>2. Range(sockets') = Range(sockets)
  BY DEF Touches
<1>3. SlotChange(s, X, q, g, data[s])
  BY <1>1, <1>2 DEF Touches, SlotChange
<1> QED BY <1>3, SlotStep, Zenon

\* A socket with an event or an operation is in use by a client.
LEMMA ClientInUse ==
  ASSUME PInv, NEW s \in Slots,
         "read" \in events[s] \/ "timer" \in events[s] \/ queue[s] # <<>>
  PROVE  s \notin Range(sockets) /\ data[s] # None
<1>1. Fits(s, events[s], queue[s], greeted[s], data[s])
  BY SlotFacts, Zenon
<1>2. data[s] # None
  BY <1>1 DEF Fits
<1>3. s \notin Range(sockets)
  BY Zenon DEF PInv, Unused
<1> QED BY <1>2, <1>3

\* The timer of the settings expires.
LEMMA TimeoutPools == IInv /\ PInv /\ on_settings_timeout => PInv'
<1> SUFFICES ASSUME IInv, PInv, on_settings_timeout PROVE PInv'
  OBVIOUS
<1>1. /\ at = "timers" /\ at' = "timers" /\ todo # <<>> /\ "timer" \in events[Head(todo)]
      /\ Return(Head(todo), {"read", "timer"})
      /\ event_write(Head(todo), queue[Head(todo)], 0, "close_on_goaway_sent")
      /\ UNCHANGED <<data, server, starts, sockets, greeted, done>>
  BY DEF on_settings_timeout, At, poolVars, worldVars
<1>2. PICK s \in Slots : s = Head(todo)
  BY <1>1 DEF IInv, LoopTypes
<1>3. s \notin Range(sockets) /\ data[s] # None
  BY <1>1, <1>2, ClientInUse
<1>4. PICK X : X \subseteq events[s] /\ EventsChange(s, X) /\ EventsPaid(s, X)
  BY <1>1, <1>2, Returned, Zenon DEF PInv
<1>5. PICK g \in BOOLEAN : g = greeted[s] /\ greeted' = [greeted EXCEPT ![s] = g]
  BY <1>1 DEF PInv, PoolTypes
<1>6. PICK q \in Seq(Callbacks) : q = queue[s] /\ Len(q) + 0 = Len(queue[s])
  BY SlotFacts
<1>7. "close_on_goaway_sent" \in Callbacks /\ "close_on_goaway_sent" # "on_settings_sent"
  BY DEF Callbacks
<1>8. PICK r \in {q, Append(q, "close_on_goaway_sent")} : QueueChange(s, r) /\ WritesPaid(s, r)
  BY <1>1, <1>2, <1>6, <1>7, Written DEF PInv
<1>9. Fits(s, X, q, g, data[s])
  BY <1>4, <1>5, <1>6, FitsLess, SlotFacts, Zenon
<1>10. Fits(s, X, Append(q, "close_on_goaway_sent"), g, data[s])
  BY <1>3, <1>7, <1>9, FitsAppend, Zenon
<1>11. Touches(s, X, r, g)
  BY <1>1, <1>4, <1>5, <1>8, Zenon DEF Touches, PInv, PoolTypes
<1>12. at # "idle" /\ at' # "idle" /\ Fits(s, X, r, g, data[s])
  BY <1>1, <1>8, <1>9, <1>10, Zenon
<1> QED BY <1>3, <1>11, <1>12, TouchStep, Zenon

\* A read or a write fails, or the peer has closed (event_sock_close).
LEMMA ClosePools ==
  ASSUME IInv, PInv, at \in Visiting, event_sock_close(Visited), at' # "idle", at' # "notify",
         UNCHANGED <<data, server, starts, sockets, greeted, done>>
  PROVE  PInv'
<1>1. PICK s \in Slots : s = Visited /\ s \notin Range(sockets)
  BY VisitedInUse
<1>2. PICK g \in BOOLEAN : g = greeted[s] /\ greeted' = [greeted EXCEPT ![s] = g]
  BY DEF PInv, PoolTypes
<1>3. PICK X : X \subseteq events[s] /\ EventsChange(s, X) /\ EventsPaid(s, X)
  <2>1. CASE Return(s, {"read"})
    BY <2>1, Returned, Zenon DEF PInv
  <2>2. CASE UNCHANGED <<events, free_events>>
    BY <2>2, SameEvents, Zenon
  <2> QED BY <2>1, <2>2, <1>1, Zenon DEF event_sock_close, http2_close_immediate, event_read_stop
<1>4. queue' = [queue EXCEPT ![s] = <<>>] /\ free_writes' = free_writes + Len(queue[s])
  BY <1>1 DEF event_sock_close
<1>5. QueueChange(s, <<>>) /\ WritesPaid(s, <<>>)
  BY <1>4, LoopAssumption DEF QueueChange, WritesPaid, PInv, PoolTypes
<1>6. Fits(s, X, <<>>, g, data[s])
  BY <1>2, <1>3, FitsLess, SlotFacts, Zenon
<1>7. Touches(s, X, <<>>, g)
  BY <1>2, <1>3, <1>5, Zenon DEF Touches, PInv, PoolTypes
<1>8. at # "idle"
  BY DEF Visiting
<1> QED BY <1>1, <1>6, <1>7, <1>8, TouchStep, Zenon

\* Reading, and writing that fails.
LEMMA ReadPools == IInv /\ PInv /\ (event_sock_read \/ event_sock_write_error) => PInv'
<1> USE DEF poolVars, sockVars, memVars, fdVars, placeVars, worldVars, At
<1>1. ASSUME IInv, PInv, event_sock_read PROVE PInv'
  <2>1. /\ UNCHANGED <<data, server, starts, sockets, greeted, done>>
        /\ at = "poll" /\ at' = "write"
        /\ \/ UNCHANGED <<events, queue, free_events, free_writes>>
           \/ event_sock_close(Visited)
    BY <1>1 DEF event_sock_read
  <2>2. CASE event_sock_close(Visited)
    BY <1>1, <2>1, <2>2, ClosePools, SMTT(30) DEF Visiting
  <2>3. CASE UNCHANGED <<events, queue, free_events, free_writes>>
    BY <1>1, <2>1, <2>3, PoolQuietStep DEF PoolQuiet, PInv, PoolTypes
  <2> QED BY <2>1, <2>2, <2>3
<1>2. ASSUME IInv, PInv, event_sock_write_error PROVE PInv'
  <2>1. /\ UNCHANGED <<data, server, starts, sockets, greeted, done>>
        /\ at = "write" /\ at' # "idle" /\ at' # "notify" /\ event_sock_close(Visited)
    BY <1>2 DEF event_sock_write_error, Advance
  <2> QED BY <1>2, <2>1, ClosePools, SMTT(30) DEF Visiting
<1> QED BY <1>1, <1>2

\* The callback of an operation that is complete.
LEMMA NotifyPools == IInv /\ PInv /\ event_sock_handle_write => PInv'
<1> SUFFICES ASSUME IInv, PInv, event_sock_handle_write PROVE PInv'
  OBVIOUS
<1> USE DEF poolVars, fdVars, worldVars, At
<1>1. /\ at = "notify" /\ at' = at /\ done > 0 /\ done' = done - 1
      /\ UNCHANGED <<data, server, starts, sockets, greeted, reserved, descriptor, fd>>
  BY DEF event_sock_handle_write
<1>2. PICK s \in Slots : s = Visited /\ s \notin Range(sockets)
  BY <1>1, VisitedInUse DEF Visiting
<1>3. PICK g \in BOOLEAN : g = greeted[s] /\ greeted' = [greeted EXCEPT ![s] = g]
  BY <1>1 DEF PInv, PoolTypes
<1>4. /\ done \in Nat /\ done <= Len(queue[s]) /\ queue[s] \in Seq(Callbacks)
      /\ Len(queue[s]) \in Nat /\ Len(queue[s]) > 0
  BY <1>1, <1>2 DEF PInv, PoolTypes
<1>5. queue[s] # <<>>
  BY <1>4
<1>6. PICK q \in Seq(Callbacks) : q = Tail(queue[s]) /\ Len(q) + 1 = Len(queue[s])
  <2>1. Tail(queue[s]) \in Seq(Callbacks) /\ Len(Tail(queue[s])) = Len(queue[s]) - 1
    BY <1>4, <1>5
  <2>2. Len(Tail(queue[s])) + 1 = Len(queue[s])
    BY <1>4, <2>1
  <2> QED BY <2>1, <2>2, Zenon
<1>7. "close_on_write_error" \in Callbacks /\ "close_on_write_error" # "on_settings_sent"
  BY DEF Callbacks
<1>8. PICK r \in {q, Append(q, "close_on_write_error")} :
        QueueChange(s, r) /\ WritesPaid(s, r) /\ Len(r) >= Len(q)
  <2>1. event_write(s, q, 1, "close_on_write_error") \/ NoWrite(s, q, 1)
    BY <1>2, <1>6, Zenon DEF event_sock_handle_write
  <2>2. PoolTypes /\ 1 \in {0, 1}
    BY DEF PInv
  <2> QED BY <1>6, <1>7, <2>1, <2>2, Written, Zenon
<1>9. data[s] # None
  BY <1>5, ClientInUse, Zenon
<1>10. /\ Fits(s, events[s], q, g, data[s])
       /\ Head(queue[s]) = "on_settings_sent"
            => "timer" \notin events[s] /\ Fits(s, events[s] \cup {"timer"}, q, g, data[s])
  BY <1>3, <1>4, <1>5, <1>6, SlotFacts, FitsTail, Zenon
<1>11. PICK X : EventsChange(s, X) /\ EventsPaid(s, X) /\ Fits(s, X, q, g, data[s])
  <2>1. CASE Return(s, {"read"})
    <3>1. Fits(s, events[s] \ {"read"}, q, g, data[s])
      BY <1>10, FitsLess
    <3> QED BY <2>1, <3>1, Returned, Zenon DEF PInv
  <2>2. CASE UNCHANGED <<events, free_events>>
    BY <1>10, <2>2, SameEvents, Zenon
  <2>3. CASE /\ Head(queue[s]) = "on_settings_sent"
             /\ events' = [events EXCEPT ![s] = @ \cup {"timer"}] /\ free_events' = free_events - 1
    BY <1>10, <2>3, TimerSet, Zenon
  <2> QED BY <2>1, <2>2, <2>3, <1>2, Zenon
          DEF event_sock_handle_write, http2_close_immediate, event_read_stop
<1>12. Fits(s, X, Append(q, "close_on_write_error"), g, data[s])
  BY <1>7, <1>9, <1>11, FitsAppend, Zenon
<1>13. Fits(s, X, r, g, data[s])
  BY <1>8, <1>11, <1>12, Zenon
<1>14. done' \in Nat /\ done' <= Len(queue'[Visited'])
  <2>1. Visited' = s
    BY <1>1, <1>2 DEF Visited
  <2>2. queue'[s] = r /\ Len(r) \in Nat
    BY <1>8 DEF QueueChange, PInv, PoolTypes
  <2>3. done - 1 \in Nat /\ done - 1 <= Len(q) /\ Len(q) \in Nat /\ Len(r) >= Len(q)
    BY <1>1, <1>4, <1>6, <1>8
  <2> QED BY <1>1, <2>1, <2>2, <2>3
<1>15. Touches(s, X, r, g)
  BY <1>1, <1>3, <1>8, <1>11, <1>14, Zenon DEF Touches
<1>16. at # "idle" /\ at' # "idle"
  BY <1>1
<1> QED BY <1>2, <1>13, <1>15, <1>16, TouchStep, Zenon

\* The read callback.
LEMMA HandleReadPools == IInv /\ PInv /\ event_sock_handle_read => PInv'
<1> SUFFICES ASSUME IInv, PInv, event_sock_handle_read PROVE PInv'
  OBVIOUS
<1>1. /\ at = "pending" /\ at' = at /\ todo # <<>> /\ "read" \in events[Head(todo)]
      /\ UNCHANGED <<data, server, starts, sockets, done>>
  BY DEF event_sock_handle_read, poolVars, worldVars, At
<1>2. PICK s \in Slots : s = Head(todo)
  <2>1. todo \in Seq(Slots)
    BY Zenon DEF IInv, LoopTypes
  <2>2. todo # <<>>
    BY <1>1, Zenon
  <2>3. Head(todo) \in Slots
    BY <2>1, <2>2
  <2> QED BY <2>3, Zenon
<1>3. s \notin Range(sockets) /\ data[s] # None
  BY <1>1, <1>2, ClientInUse, Zenon
<1>4. PICK q \in Seq(Callbacks) : q = queue[s] /\ Len(q) + 0 = Len(queue[s])
  BY SlotFacts
<1>5. PICK h \in BOOLEAN : h = greeted[s]
  BY DEF PInv, PoolTypes
<1>6. Fits(s, events[s], q, h, data[s])
  BY <1>4, <1>5, SlotFacts, Zenon
<1>7. PICK X : EventsChange(s, X) /\ EventsPaid(s, X) /\ X \subseteq events[s]
  <2>1. CASE Return(s, {"read"})
    BY <2>1, Returned, Zenon DEF PInv
  <2>2. CASE Return(s, {"timer"})
    BY <2>2, Returned, Zenon DEF PInv
  <2>3. CASE UNCHANGED <<events, free_events>>
    BY <2>3, SameEvents, Zenon
  <2> QED BY <2>1, <2>2, <2>3, <1>2, Zenon
          DEF event_sock_handle_read, http2_close_immediate, event_read_stop
<1>8. \E r \in Seq(Callbacks), g \in BOOLEAN :
        /\ QueueChange(s, r) /\ WritesPaid(s, r) /\ greeted' = [greeted EXCEPT ![s] = g]
        /\ Fits(s, events[s], r, g, data[s])
  <2>1. PoolTypes /\ 0 \in {0, 1}
    BY DEF PInv
  <2>2. greeted = [greeted EXCEPT ![s] = h]
    BY <1>5, <2>1 DEF PoolTypes
  <2>3. CASE UNCHANGED <<queue, free_writes, greeted>>
    BY <1>4, <1>6, <2>2, <2>3, SameQueue, Zenon
  <2>4. ASSUME NEW cb \in Callbacks, event_write(s, q, 0, cb)
        PROVE  \E r \in {q, Append(q, cb)} : QueueChange(s, r) /\ WritesPaid(s, r)
    BY <1>4, <2>1, <2>4, Written, Zenon
  <2>5. Append(q, "close_on_write_error") \in Seq(Callbacks)
        /\ Append(q, "close_on_goaway_sent") \in Seq(Callbacks)
        /\ Append(q, "on_settings_sent") \in Seq(Callbacks)
    BY DEF Callbacks
  <2>6. CASE event_write(s, q, 0, "close_on_goaway_sent") /\ UNCHANGED greeted
    <3>1. "close_on_goaway_sent" \in Callbacks /\ "close_on_goaway_sent" # "on_settings_sent"
      BY DEF Callbacks
    <3>2. Fits(s, events[s], Append(q, "close_on_goaway_sent"), h, data[s])
      BY <1>3, <1>6, <3>1, FitsAppend, Zenon
    <3> QED BY <1>6, <2>2, <2>4, <2>5, <2>6, <3>1, <3>2, Zenon
  <2>7. CASE /\ event_write(s, q, 0, "close_on_write_error") /\ h = TRUE
             /\ greeted' = [greeted EXCEPT ![s] = TRUE]
    <3>1. "close_on_write_error" \in Callbacks /\ "close_on_write_error" # "on_settings_sent"
      BY DEF Callbacks
    <3>2. Fits(s, events[s], Append(q, "close_on_write_error"), h, data[s])
      BY <1>3, <1>6, <3>1, FitsAppend, Zenon
    <3> QED BY <1>6, <2>4, <2>5, <2>7, <3>1, <3>2, Zenon
  <2>8. CASE /\ event_write(s, q, 0, "on_settings_sent") /\ h = FALSE
             /\ greeted' = [greeted EXCEPT ![s] = TRUE]
    <3>1. "on_settings_sent" \in Callbacks
      BY DEF Callbacks
    <3>2. Fits(s, events[s], Append(q, "on_settings_sent"), TRUE, data[s])
      BY <1>3, <1>6, <2>8, FitsGreeting, Zenon
    <3>3. Fits(s, events[s], q, TRUE, data[s])
      BY <1>6, FitsGreeted, Zenon
    <3> QED BY <2>4, <2>5, <2>8, <3>1, <3>2, <3>3, Zenon
  <2>9. h = TRUE \/ h = FALSE
    OBVIOUS
  <2>10. ~ UNCHANGED <<queue, free_writes, greeted>>
           => \/ event_write(s, q, 0, "close_on_goaway_sent") /\ UNCHANGED greeted
              \/ /\ greeted' = [greeted EXCEPT ![s] = TRUE]
                 /\ event_write(s, q, 0, IF h THEN "close_on_write_error" ELSE "on_settings_sent")
    BY <1>2, <1>4, <1>5, Zenon DEF event_sock_handle_read
  <2> QED BY <2>3, <2>6, <2>7, <2>8, <2>9, <2>10, Zenon
<1>9. PICK r \in Seq(Callbacks), g \in BOOLEAN :
        /\ QueueChange(s, r) /\ WritesPaid(s, r) /\ greeted' = [greeted EXCEPT ![s] = g]
        /\ Fits(s, events[s], r, g, data[s])
  BY <1>8, Zenon
<1>10. Fits(s, X, r, g, data[s])
  BY <1>7, <1>9, FitsLess, Zenon
<1>11. Touches(s, X, r, g)
  <2>1. done' \in Nat /\ at' # "notify"
    BY <1>1 DEF PInv, PoolTypes
  <2> QED BY <1>1, <1>7, <1>9, <2>1, Zenon DEF Touches
<1>12. at # "idle" /\ at' # "idle"
  BY <1>1
<1> QED BY <1>3, <1>10, <1>11, <1>12, TouchStep, Zenon

\* A client is accepted: a free socket gets two events, or none.
LEMMA ConnectionPools == IInv /\ PInv /\ on_new_connection => PInv'
<1> SUFFICES ASSUME IInv, PInv, on_new_connection PROVE PInv'
  OBVIOUS
<1>1. /\ at = "accept" /\ at' = "write" /\ Accepted(Head(sockets))
      /\ sockets' = Tail(sockets) /\ reserved' = <<Head(sockets)>> \o reserved
      /\ UNCHANGED <<queue, greeted, free_writes, server, starts, done>>
  BY SMTT(30) DEF on_new_connection, At
<1>2. /\ Head(sockets) \in Range(sockets) /\ Range(sockets') = Range(sockets) \ {Head(sockets)}
      /\ Range(sockets) \subseteq Slots
  BY <1>1, SocketTaken DEF IInv, AtPlace, Lists
<1>3. PICK c \in Slots : c = Head(sockets) /\ c \in Range(sockets) /\ c \notin Range(sockets')
  BY <1>2, SMTT(30)
<1>4. /\ events[c] = {} /\ queue[c] = <<>> /\ greeted[c] = FALSE
      /\ data[c] = None /\ data \in [Slots -> Contexts \cup {None}]
  <2>1. events[c] = {} /\ queue[c] = <<>> /\ greeted[c] = FALSE
    BY <1>3, Zenon DEF PInv, Unused
  <2>2. data \in [Slots -> Contexts \cup {None}]
    BY Zenon DEF IInv, LoopTypes
  <2>3. at # "idle"
    BY <1>1
  <2>4. data[c] = None
    BY <1>3, <2>3, Zenon DEF IInv, AtPlace
  <2> QED BY <2>1, <2>2, <2>4
<1>5. QueueChange(c, <<>>) /\ WritesPaid(c, <<>>)
  BY <1>1, <1>4, SameQueue
<1>6. greeted' = [greeted EXCEPT ![c] = FALSE]
  BY <1>1, <1>4 DEF PInv, PoolTypes
<1>7. done' \in Nat /\ at' # "notify" /\ at # "idle" /\ at' # "idle"
  BY <1>1 DEF PInv, PoolTypes
<1>8. Range(sockets') \subseteq Range(sockets) \cup {c}
  BY <1>2
<1>9. CASE UNCHANGED <<data, events, free_events>>
  <2>1. EventsChange(c, {}) /\ EventsPaid(c, {})
    BY <1>4, <1>9, SameEvents, Zenon
  <2>2. data' = [data EXCEPT ![c] = None]
    BY <1>4, <1>9
  <2>3. SlotChange(c, {}, <<>>, FALSE, None)
    BY <1>1, <1>3, <1>5, <1>6, <1>7, <1>8, <2>1, <2>2, Zenon DEF SlotChange
  <2>4. Fits(c, {}, <<>>, FALSE, None)
    BY DEF Fits
  <2> QED BY <1>7, <2>3, <2>4, SlotStep, Zenon
<1>10. ASSUME NEW ctx \in clients, data' = [data EXCEPT ![c] = ctx],
              events' = [events EXCEPT ![c] = {"read", "write"}], free_events' = free_events - 2
       PROVE  PInv'
  <2>1. EventsChange(c, {"read", "write"})
    BY <1>10, SMTT(30) DEF EventsChange, Types
  <2>2. Cardinality({"read", "write"}) = 2 /\ Cardinality(events[c]) = 0
    <3>1. IsFiniteSet({"read"}) /\ Cardinality({"read"}) = 1
      BY FS_Singleton
    <3>2. Cardinality({"read"} \cup {"write"}) = 1 + 1
      BY <3>1, FS_AddElement, SMTT(30)
    <3>3. {"read"} \cup {"write"} = {"read", "write"}
      OBVIOUS
    <3>4. Cardinality({}) = 0
      BY FS_EmptySet
    <3> QED BY <1>4, <3>2, <3>3, <3>4, SMTT(30)
  <2>3. EventsPaid(c, {"read", "write"})
    BY <1>10, <2>2 DEF EventsPaid, PInv, PoolTypes
  <2>4. SlotChange(c, {"read", "write"}, <<>>, FALSE, ctx)
    BY <1>1, <1>3, <1>5, <1>6, <1>7, <1>8, <1>10, <2>1, <2>3, Zenon DEF SlotChange
  <2>5. ctx # None
    BY DEF IInv, LoopTypes, Contexts, None
  <2>6. Fits(c, {"read", "write"}, <<>>, FALSE, ctx)
    BY <2>5, SMTT(30) DEF Fits
  <2> QED BY <1>7, <2>4, <2>6, SlotStep, Zenon
<1> QED BY <1>1, <1>3, <1>9, <1>10, Zenon DEF Accepted, http2_new_client

\* Returning all its events pays for a socket without any.
LEMMA Refunded ==
  ASSUME NEW c \in Slots, free_events \in Int, Cardinality(events[c]) \in Nat,
         Cardinality({}) = 0, free_events' = free_events + Cardinality(events[c])
  PROVE  EventsPaid(c, {})
  BY DEF EventsPaid

\* A socket is closed, and its events go back.
LEMMA ReleasePools == IInv /\ PInv /\ event_loop_close => PInv'
<1> SUFFICES ASSUME IInv, PInv, event_loop_close PROVE PInv'
  OBVIOUS
<1>1. /\ at = "close" /\ at' = "close" /\ todo # <<>> /\ ReleaseSocket /\ todo' = Tail(todo)
      /\ queue[Curr] = <<>>
      /\ events' = [events EXCEPT ![Curr] = {}]
      /\ free_events' = free_events + Cardinality(events[Curr])
      /\ data' = [data EXCEPT ![Curr] = None] /\ greeted' = [greeted EXCEPT ![Curr] = FALSE]
      /\ UNCHANGED <<queue, free_writes, server, starts, done>>
  <2>1. /\ at = "close" /\ at' = at /\ todo # <<>> /\ ReleaseSocket /\ todo' = Tail(todo)
        /\ Closable(Curr) /\ ReleaseEvents /\ http2_on_client_close
        /\ greeted' = Cleared(greeted, FALSE)
        /\ UNCHANGED <<queue, free_writes, done, worldVars>>
    BY Zenon DEF event_loop_close, At
  <2>2. UNCHANGED <<server, starts>> /\ queue[Curr] = <<>>
    BY <2>1, Zenon DEF worldVars, Closable
  <2> QED
    BY <2>1, <2>2, Zenon DEF ReleaseEvents, http2_on_client_close, Cleared
<1>2. Curr \in Slots /\ Range(sockets') = Range(sockets) \cup {Curr}
  BY <1>1, SocketReleased, Zenon
<1>3. PICK c \in Slots : c = Curr
  BY <1>2, SMTT(30)
<1>4. QueueChange(c, <<>>) /\ WritesPaid(c, <<>>)
  <2>1. queue' = queue /\ free_writes' = free_writes /\ queue[c] = <<>>
    BY <1>1, <1>3, Zenon
  <2> QED BY <2>1, SameQueue, Zenon
<1>5. EventsChange(c, {})
  BY <1>1, <1>3, Zenon DEF EventsChange
<1>6. EventsPaid(c, {})
  <2>1. free_events \in Int /\ events[c] \in SUBSET Types
    BY DEF PInv, PoolTypes
  <2>2. Cardinality({}) = 0 /\ Cardinality(events[c]) \in Nat
    BY <2>1, FS_EmptySet, TypesFinite
  <2>3. free_events' = free_events + Cardinality(events[c])
    BY <1>1, <1>3, Zenon
  <2> QED BY <2>1, <2>2, <2>3, Refunded, Zenon
<1>7. done' \in Nat /\ at' # "notify" /\ at # "idle" /\ at' # "idle"
  BY <1>1, SMTT(30) DEF PInv, PoolTypes
<1>8. SlotChange(c, {}, <<>>, FALSE, None)
  <2>1. /\ data' = [data EXCEPT ![c] = None] /\ greeted' = [greeted EXCEPT ![c] = FALSE]
        /\ Range(sockets') \subseteq Range(sockets) \cup {c}
        /\ server' = server /\ starts' = starts
    BY <1>1, <1>2, <1>3, Zenon
  <2> QED BY <1>4, <1>5, <1>6, <1>7, <2>1, Zenon DEF SlotChange
<1>9. Fits(c, {}, <<>>, FALSE, None)
  BY DEF Fits
<1> QED BY <1>7, <1>8, <1>9, SlotStep, Zenon

\* Before the first start the lists are empty.
LEMMA InitPools == Init => PInv
<1> SUFFICES ASSUME Init PROVE PInv
  OBVIOUS
<1>1. PoolTypes
  BY LoopAssumption DEF Init, PoolTypes
<1>2. Fit
  BY DEF Init, Fit, Fits
<1>3. Unused
  BY DEF Init, Unused, Range
<1> QED BY <1>1, <1>2, <1>3 DEF Init, PInv

\* The server is started: the lists are full, but for the event of the server.
LEMMA StartPools == IInv /\ PInv /\ two_server_start => PInv'
<1> SUFFICES ASSUME IInv, PInv, two_server_start PROVE PInv'
  OBVIOUS
<1>1. /\ at = "idle" /\ starts' = starts + 1 /\ server' = 1 /\ free_writes' = MaxWrites
      /\ queue' = [s \in Slots |-> <<>>] /\ data' = [s \in Slots |-> None]
      /\ greeted' = [s \in Slots |-> FALSE] /\ done' = done
  BY Zenon DEF two_server_start, At
<1>2. /\ at' \in {"idle", "timers"}
      /\ \/ events' = [s \in Slots |-> {}] /\ free_events' = MaxEvents
         \/ /\ events' = [s \in Slots |-> IF s = 1 THEN {"connection"} ELSE {}]
            /\ free_events' = MaxEvents - 1
  BY <1>1 DEF two_server_start
<1>3. starts \in Nat /\ starts' \in Nat /\ starts' # 0 /\ done' \in Nat
  BY <1>1 DEF PInv, PoolTypes
<1>4. PoolTypes'
  <2>1. events' \in [Slots -> SUBSET Types] /\ free_events' \in Int
    BY <1>2, LoopAssumption DEF Types
  <2>2. queue' \in [Slots -> Seq(Callbacks)] /\ greeted' \in [Slots -> BOOLEAN] /\ free_writes' \in Nat
    BY <1>1, LoopAssumption
  <2>3. \A s \in Slots : Len(queue'[s]) <= MaxQueue
    BY <1>1, LoopAssumption
  <2> QED BY <1>3, <2>1, <2>2, <2>3, SMTT(30) DEF PoolTypes
<1>5. Fit'
  <2> SUFFICES ASSUME NEW s \in Slots PROVE Fits(s, events[s], queue[s], greeted[s], data[s])'
    BY DEF Fit
  <2>1. queue'[s] = <<>> /\ greeted'[s] = FALSE /\ Len(queue'[s]) = 0
    BY <1>1
  <2>2. \/ events'[s] = {}
        \/ events'[s] = {"connection"} /\ s = server'
    BY <1>1, <1>2
  <2> QED BY <2>1, <2>2 DEF Fits
<1>6. Unused'
  <2>1. Range(sockets') \subseteq Slots \ {1}
    BY ListsStarted DEF Lists
  <2> QED BY <1>1, <1>2, <2>1 DEF Unused
<1>7. Queued' = {}
  BY <1>1 DEF Queued
<1>8. Cardinality({}) = 0
  BY FS_EmptySet
<1>9. free_events' + Cardinality(Taken') = MaxEvents
  <2>1. CASE events' = [s \in Slots |-> {}] /\ free_events' = MaxEvents
    <3>1. Taken' = {}
      BY <2>1 DEF Taken
    <3> QED BY <1>8, <2>1, <3>1, LoopAssumption
  <2>2. CASE /\ events' = [s \in Slots |-> IF s = 1 THEN {"connection"} ELSE {}]
             /\ free_events' = MaxEvents - 1
    <3>1. 1 \in Slots
      BY LoopAssumption DEF Slots
    <3>2. Taken' = {<<1, "connection">>}
      BY <2>2, <3>1 DEF Taken, Types
    <3>3. Cardinality({<<1, "connection">>}) = 1
      BY FS_Singleton, Zenon
    <3> QED BY <2>2, <3>2, <3>3, LoopAssumption
  <2> QED BY <1>2, <2>1, <2>2
<1>10. free_writes' + Cardinality(Queued') = MaxWrites
  BY <1>1, <1>7, <1>8, LoopAssumption
<1> QED BY <1>2, <1>3, <1>4, <1>5, <1>6, <1>9, <1>10, SMTT(30) DEF PInv, Counted

\* Every step keeps the invariant.
LEMMA NextPools == IInv /\ PInv /\ [Next]_vars => PInv'
<1> SUFFICES ASSUME IInv, PInv, [Next]_vars PROVE PInv'
  OBVIOUS
<1>1. CASE UNCHANGED vars
  <2>1. UNCHANGED <<free_events, free_writes, events, greeted, queue, starts, data, server, sockets,
                    at, done, reserved, descriptor, fd>>
    BY <1>1 DEF vars, poolVars, sockVars, memVars, fdVars, placeVars, worldVars
  <2>2. Visited' = Visited
    BY <2>1 DEF Visited
  <2> QED BY <2>1, <2>2, PoolQuietStep DEF PoolQuiet, PInv, PoolTypes
<1> QED BY <1>1, TimeoutPools, ReadPools, NotifyPools, HandleReadPools, ConnectionPools,
           ReleasePools, StartPools, PoolQuietSteps, Zenon DEF Next, Loop

-----------------------------------------------------------------------------
(* The theorems.                                                            *)

\* One event for the server, and three for each context.
Entitled == {<<None, "connection">>} \cup (Contexts \X {"read", "write", "timer"})

\* How many these are.
LEMMA EntitledSize == IsFiniteSet(Entitled) /\ Cardinality(Entitled) = 3 * MaxClients + 1
<1> DEFINE K == {"read", "write", "timer"}
<1>1. IsFiniteSet(Contexts) /\ Cardinality(Contexts) = MaxClients
  <2>1. MaxClients \in Nat
    BY LoopAssumption
  <2> QED BY <2>1, FS_Interval DEF Contexts
<1>2. IsFiniteSet(K) /\ Cardinality(K) = 3
  <2>1. IsFiniteSet({"read"}) /\ Cardinality({"read"}) = 1
    BY FS_Singleton, Zenon
  <2>2. IsFiniteSet({"read"} \cup {"write"}) /\ Cardinality({"read"} \cup {"write"}) = 2
    BY <2>1, FS_AddElement
  <2>3. /\ IsFiniteSet(({"read"} \cup {"write"}) \cup {"timer"})
        /\ Cardinality(({"read"} \cup {"write"}) \cup {"timer"}) = 3
    BY <2>2, FS_AddElement
  <2>4. K = ({"read"} \cup {"write"}) \cup {"timer"}
    OBVIOUS
  <2> QED BY <2>3, <2>4
<1>3. <<None, "connection">> \notin Contexts \X K
  BY DEF Contexts, None
<1>4. Entitled = (Contexts \X K) \cup {<<None, "connection">>}
  BY DEF Entitled
<1> HIDE DEF K
<1>5. IsFiniteSet(Contexts \X K) /\ Cardinality(Contexts \X K) = Cardinality(Contexts) * Cardinality(K)
  BY <1>1, <1>2, FS_Product
<1>6. IsFiniteSet(Entitled) /\ Cardinality(Entitled) = Cardinality(Contexts \X K) + 1
  BY <1>3, <1>4, <1>5, FS_AddElement, Zenon
<1> QED BY <1>1, <1>2, <1>5, <1>6, LoopAssumption, SMTT(30)

\* No more events are taken: each is that of the server or of one context.
LEMMA TakenBounded == IInv /\ PInv => Cardinality(Taken) <= 3 * MaxClients + 1
<1> SUFFICES ASSUME IInv, PInv PROVE Cardinality(Taken) <= 3 * MaxClients + 1
  OBVIOUS
<1> DEFINE f == [p \in Taken |-> IF p[2] = "connection" THEN <<None, "connection">>
                                 ELSE <<data[p[1]], p[2]>>]
<1>1. ASSUME NEW p \in Taken
      PROVE  /\ p[1] \in Slots /\ p[2] \in Types /\ p = <<p[1], p[2]>>
             /\ p[2] = "connection" => p[1] = server
             /\ p[2] # "connection" => data[p[1]] \in Contexts /\ data[p[1]] # None
  <2>1. p[1] \in Slots /\ p[2] \in Types /\ p = <<p[1], p[2]>> /\ p[2] \in events[p[1]]
    BY <1>1 DEF Taken
  <2>2. Fits(p[1], events[p[1]], queue[p[1]], greeted[p[1]], data[p[1]])
    BY <2>1, SlotFacts, Zenon
  <2>3. data[p[1]] \in Contexts \cup {None}
    BY <2>1 DEF IInv, LoopTypes
  <2>4. p[2] = "connection" => p[1] = server
    BY <2>1, <2>2 DEF Fits
  <2>5. p[2] # "connection" => data[p[1]] # None
    BY <2>1, <2>2 DEF Fits
  <2> QED BY <2>1, <2>3, <2>4, <2>5, SMTT(30)
<1>2. ASSUME NEW p \in Taken PROVE f[p] \in Entitled
  BY <1>1, <1>2 DEF Entitled, Types
<1>3. ASSUME NEW p \in Taken, NEW r \in Taken, f[p] = f[r] PROVE p = r
  <2>1. p[2] = r[2]
    BY <1>3
  <2>2. p[1] = r[1]
    <3>1. CASE p[2] = "connection"
      BY <1>1, <2>1, <3>1, Zenon
    <3>2. CASE p[2] # "connection"
      <4>1. data[p[1]] = data[r[1]]
        BY <1>3, <2>1, <3>2
      <4> QED BY <1>1, <2>1, <3>2, <4>1 DEF IInv, Owners
    <3> QED BY <3>1, <3>2
  <2> QED BY <1>1, <2>1, <2>2
<1>4. f \in Injection(Taken, Entitled)
  BY <1>2, <1>3, Zenon DEF Injection, IsInjective
<1> HIDE DEF f
<1>5. Cardinality(Taken) <= Cardinality(Entitled)
  BY <1>4, EntitledSize, FS_Injection
<1> QED BY <1>5, EntitledSize

\* The invariant of the pools holds in every state of the server.
THEOREM PoolInvariant == Spec => []PInv
  BY Invariant, InitPools, NextPools, PTL DEF Spec

\* No event and no write operation is lost by the lists of event_loop_t, and a
\* socket that is not in use has none.
THEOREM PoolsConservedThm == Spec => []PoolsConserved
<1>1. PInv => PoolsConserved
  BY DEF PInv, Counted, Unused, PoolsConserved, Running
<1> QED BY <1>1, PoolInvariant, PTL

\* With one event for the server and three for each client event_find_free
\* always has one: EVENT_MAX_EVENTS is three for each socket, and one socket
\* is the server's.
THEOREM EventsSufficeThm ==
  ASSUME MaxEvents >= 3 * MaxClients + 1
  PROVE  Spec => []EventsSuffice
<1>1. IInv /\ PInv => EventsSuffice
  <2> SUFFICES ASSUME IInv, PInv PROVE free_events >= 0
    BY DEF EventsSuffice
  <2>1. CASE starts = 0
    BY <2>1 DEF PInv
  <2>2. CASE starts # 0
    <3>1. free_events \in Int /\ free_events + Cardinality(Taken) = MaxEvents
      BY <2>2 DEF PInv, PoolTypes, Counted
    <3>2. Cardinality(Taken) <= 3 * MaxClients + 1 /\ Cardinality(Taken) \in Nat
      BY TakenBounded, TakenFinite
    <3>3. MaxEvents \in Nat /\ MaxClients \in Nat
      BY LoopAssumption
    <3> QED BY <3>1, <3>2, <3>3
  <2> QED BY <2>1, <2>2
<1> QED BY <1>1, Invariant, PoolInvariant, PTL

-----------------------------------------------------------------------------
(* Resources.                                                                *)

\* The array server_resources is not overrun, and has a path twice only if it was
\* registered under a method that begins with GET but is another.
ResourcesDistinct ==
  /\ Len(resources) <= MaxResources
  /\ \A i, j \in 1 .. Len(resources) :
       resources[i].path = resources[j].path => i = j \/ resources[i].path \in others

\* The types that resources have.
StoredTypes == {content_type_allowed(ct) : ct \in ContentTypes}

ResourceSet ==
  [path : Paths, method : {GET}, type : StoredTypes, handler : Handlers]

RegisteredSet == [type : StoredTypes, handler : Handlers]

\* The resource at i is the first of its path.
First(i) ==
  /\ i \in 1 .. Len(resources)
  /\ \A j \in 1 .. Len(resources) : resources[j].path = resources[i].path => i <= j

\* The first resource of a path agrees with what is in effect for the path, and
\* the paths with something in effect are those that have one.
Agree ==
  /\ \A i \in 1 .. Len(resources) :
       First(i) => registered[resources[i].path]
                     = [type |-> resources[i].type, handler |-> resources[i].handler]
  /\ \A i \in 1 .. Len(resources) : registered[resources[i].path] # Unregistered
  /\ \A path \in Paths :
       registered[path] # Unregistered =>
         \E i \in 1 .. Len(resources) : resources[i].path = path /\ First(i)

\* The inductive invariant.
RInv ==
  /\ resources \in Seq(ResourceSet)
  /\ registered \in [Paths -> RegisteredSet \cup {Unregistered}]
  /\ ResourcesDistinct
  /\ Agree

-----------------------------------------------------------------------------
\* A sequence begins with itself.
LEMMA BeginsSelf == ASSUME NEW m \in Seq(Nat) PROVE Begins(m, m)
  BY DEF Begins

\* What is registered is not Unregistered.
LEMMA RegisteredDiffers ==
  ASSUME NEW type, NEW handler
  PROVE  [type |-> type, handler |-> handler] # Unregistered
<1>1. DOMAIN [type |-> type, handler |-> handler] # DOMAIN Unregistered
  <2>1. "handler" \in DOMAIN [type |-> type, handler |-> handler]
    OBVIOUS
  <2>2. "handler" \notin DOMAIN Unregistered
    BY DEF Unregistered
  <2> QED BY <2>1, <2>2
<1> QED BY <1>1, Zenon

\* The array is empty at first.
LEMMA InitResources == RInit => RInv
<1> SUFFICES ASSUME RInit PROVE RInv
  OBVIOUS
<1>1. resources = <<>> /\ registered = [path \in Paths |-> Unregistered]
  BY DEF RInit
<1>2. resources \in Seq(ResourceSet) /\ Len(resources) = 0
  BY <1>1
<1>3. registered \in [Paths -> RegisteredSet \cup {Unregistered}]
  BY <1>1
<1>4. ResourcesDistinct
  BY <1>2, ResourcesAssumption DEF ResourcesDistinct
<1>5. Agree
  BY <1>1, <1>2 DEF Agree
<1> QED BY <1>2, <1>3, <1>4, <1>5 DEF RInv

\* The resources that are stored, their paths and their methods.
LEMMA StoredPaths ==
  RInv => \A k \in 1 .. Len(resources) :
            /\ resources[k] \in ResourceSet
            /\ resources[k].path \in Paths
            /\ resources[k].method = GET
<1>1. RInv => \A k \in 1 .. Len(resources) : resources[k] \in ResourceSet
  BY DEF RInv
<1>2. \A r \in ResourceSet : r.path \in Paths /\ r.method = GET
  BY DEF ResourceSet
<1> QED BY <1>1, <1>2, Zenon

\* A resource that is there gets the new type and handler.  It is one for GET,
\* and the first of its path.
LEMMA ReplaceInv ==
  ASSUME RInv, NEW m \in Methods, NEW path \in Paths, NEW ct \in ContentTypes,
         NEW handler \in Handlers, Replace(m, path, ct, handler)
  PROVE  RInv'
<1> DEFINE type == content_type_allowed(ct)
<1>1. PICK i \in Same(resources, m, path) :
        /\ \A j \in Same(resources, m, path) : i <= j
        /\ resources' = [resources EXCEPT ![i].type = type, ![i].handler = handler]
  BY Zenon DEF Replace
<1>3. i \in 1 .. Len(resources) /\ resources[i].path = path /\ resources \in Seq(ResourceSet)
  BY <1>1 DEF Same, RInv
<1>d. m = GET
  BY <1>1, <1>3, StoredPaths DEF Same
<1>2. registered' = [registered EXCEPT ![path] = [type |-> type, handler |-> handler]]
  BY <1>d DEF Replace, Register
<1>e. others' = others
  BY <1>d DEF Replace, Register
<1>f. First(i)
  <2>1. \A j \in 1 .. Len(resources) : resources[j].path = path => j \in Same(resources, m, path)
    BY <1>d, StoredPaths, Zenon DEF Same
  <2> QED BY <2>1, <1>1, <1>3, Zenon DEF First
<1>4. type \in StoredTypes
  BY DEF StoredTypes
<1> HIDE DEF type
<1> DEFINE r == [resources[i] EXCEPT !.type = type, !.handler = handler]
<1>a. resources[i] \in ResourceSet
  BY <1>3
<1>b. r \in ResourceSet /\ r.path = path /\ r.type = type /\ r.handler = handler
  BY <1>a, <1>3, <1>4, ZenonT(30) DEF ResourceSet
<1>c. resources' = [resources EXCEPT ![i] = r]
  BY <1>1, Zenon
<1> HIDE DEF r
<1>5. /\ resources' \in Seq(ResourceSet) /\ Len(resources') = Len(resources)
      /\ \A k \in 1 .. Len(resources) : resources'[k] = IF k = i THEN r ELSE resources[k]
  BY <1>b, <1>c, <1>3
<1>6. \A k \in 1 .. Len(resources) :
        /\ resources'[k].path = resources[k].path
        /\ k = i => resources'[k].type = type /\ resources'[k].handler = handler
        /\ k # i => resources'[k] = resources[k]
  BY <1>b, <1>3, <1>5
<1>7. registered' \in [Paths -> RegisteredSet \cup {Unregistered}]
  BY <1>2, <1>4 DEF RInv, RegisteredSet
<1>8. ResourcesDistinct'
  BY <1>5, <1>6, <1>e, Zenon DEF RInv, ResourcesDistinct
<1>9. \A p \in Paths : registered'[p] = IF p = path THEN [type |-> type, handler |-> handler]
                                                    ELSE registered[p]
  BY <1>2, Zenon DEF RInv
<1>g. \A k \in 1 .. Len(resources) : First(k)' <=> First(k)
  BY <1>5, <1>6, Zenon DEF First
<1>h. \A k \in 1 .. Len(resources) : First(k) /\ resources[k].path = path => k = i
  <2>1. ASSUME NEW k \in 1 .. Len(resources), First(k), resources[k].path = path
        PROVE  k = i
    <3>1. k <= i /\ i <= k
      BY <2>1, <1>3, <1>f, Zenon DEF First
    <3>2. k \in Int /\ i \in Int
      BY <1>3
    <3> QED BY <3>1, <3>2
  <2> QED BY <2>1, Zenon
<1>11. Agree'
  <2>1. ASSUME NEW k \in 1 .. Len(resources'), First(k)'
        PROVE  registered'[resources'[k].path]
                 = [type |-> resources'[k].type, handler |-> resources'[k].handler]
    <3>1. k \in 1 .. Len(resources) /\ First(k)
      BY <1>5, <2>1, <1>g, Zenon
    <3>2. CASE k = i
      BY <3>1, <3>2, <1>3, <1>6, <1>9, Zenon
    <3>3. CASE k # i
      <4>1. resources'[k] = resources[k]
        BY <3>1, <3>3, <1>6, Zenon
      <4>2. resources[k].path # path /\ resources[k].path \in Paths
        BY <3>1, <3>3, <1>h, StoredPaths, Zenon
      <4>3. registered'[resources[k].path] = registered[resources[k].path]
        BY <4>2, <1>9, Zenon
      <4> QED BY <3>1, <4>1, <4>3, Zenon DEF RInv, Agree
    <3> QED BY <3>2, <3>3, Zenon
  <2>2. ASSUME NEW k \in 1 .. Len(resources')
        PROVE  registered'[resources'[k].path] # Unregistered
    <3>1. k \in 1 .. Len(resources) /\ resources'[k].path = resources[k].path
      BY <1>5, <1>6, Zenon
    <3>2. resources[k].path \in Paths /\ registered[resources[k].path] # Unregistered
      BY <3>1, StoredPaths, Zenon DEF RInv, Agree
    <3> QED BY <3>1, <3>2, <1>9, RegisteredDiffers, Zenon
  <2>3. ASSUME NEW p \in Paths, registered'[p] # Unregistered
        PROVE  \E k \in 1 .. Len(resources') : resources'[k].path = p /\ First(k)'
    <3>1. p = path \/ registered[p] # Unregistered
      BY <2>3, <1>9, Zenon
    <3>2. PICK k \in 1 .. Len(resources) : resources[k].path = p /\ First(k)
      BY <3>1, <1>3, <1>f, Zenon DEF RInv, Agree
    <3>3. k \in 1 .. Len(resources') /\ resources'[k].path = p /\ First(k)'
      BY <3>2, <1>5, <1>6, <1>g, Zenon
    <3> QED BY <3>3, Zenon
  <2> QED BY <2>1, <2>2, <2>3, Zenon DEF Agree
<1> QED BY <1>5, <1>7, <1>8, <1>11, Zenon DEF RInv

\* A resource that is not there is put at the end.  Under GET its path is new, as
\* every resource is one for GET; under another method it may come behind an
\* older resource of its path, which stays the one in effect.
LEMMA AddInv ==
  ASSUME RInv, NEW m \in Methods, NEW path \in Paths, NEW ct \in ContentTypes,
         NEW handler \in Handlers, Add(m, path, ct, handler)
  PROVE  RInv'
<1> DEFINE type  == content_type_allowed(ct)
           r     == [path |-> path, method |-> GET, type |-> type, handler |-> handler]
           fresh == \A k \in 1 .. Len(resources) : resources[k].path # path
<1>1. resources' = Append(resources, r) /\ Len(resources) < MaxResources
  BY DEF Add, Resource
<1>3. type \in StoredTypes /\ r \in ResourceSet
  BY DEF StoredTypes, ResourceSet
<1>5. resources \in Seq(ResourceSet)
  BY DEF RInv
<1>l. PICK last \in Nat : last = Len(resources) + 1
  BY <1>5
<1>4. m = GET => fresh
  <2>1. Same(resources, m, path) = {}
    BY DEF Add
  <2> QED BY <2>1, StoredPaths, Zenon DEF Same
<1>6. registered[path] = Unregistered <=> fresh
  <2>1. registered[path] = Unregistered => fresh
    BY Zenon DEF RInv, Agree
  <2>2. fresh => registered[path] = Unregistered
    BY Zenon DEF RInv, Agree
  <2> QED BY <2>1, <2>2, Zenon
<1>2. registered' = IF fresh THEN [registered EXCEPT ![path] = [type |-> type, handler |-> handler]]
                    ELSE registered
  <2>1. registered' = IF m = GET \/ registered[path] = Unregistered
                      THEN [registered EXCEPT ![path] = [type |-> type, handler |-> handler]]
                      ELSE registered
    BY DEF Add, Register
  <2> HIDE DEF fresh, type
  <2> QED BY <2>1, <1>4, <1>6, Zenon
<1>a. others \subseteq others' /\ (~fresh => path \in others')
  <2>1. others' = IF m = GET THEN others ELSE others \cup {path}
    BY DEF Add, Register
  <2> HIDE DEF fresh
  <2> QED BY <2>1, <1>4
<1>7. r.path = path /\ r.type = type /\ r.handler = handler
  OBVIOUS
<1> HIDE DEF type, r
<1>8. /\ resources' \in Seq(ResourceSet) /\ Len(resources') = last
      /\ \A k \in 1 .. Len(resources) : resources'[k] = resources[k]
      /\ resources'[last] = r
  BY <1>1, <1>3, <1>5, <1>l
<1>9. registered' \in [Paths -> RegisteredSet \cup {Unregistered}]
  <2>1. [type |-> type, handler |-> handler] \in RegisteredSet
    BY <1>3 DEF RegisteredSet
  <2>2. registered \in [Paths -> RegisteredSet \cup {Unregistered}]
    BY Zenon DEF RInv
  <2> HIDE DEF fresh
  <2> QED BY <1>2, <2>1, <2>2
<1>11. \A p \in Paths : registered'[p] = IF fresh /\ p = path
                                         THEN [type |-> type, handler |-> handler]
                                         ELSE registered[p]
  <2>1. registered \in [Paths -> RegisteredSet \cup {Unregistered}]
    BY Zenon DEF RInv
  <2> HIDE DEF fresh
  <2> QED BY <1>2, <2>1, Zenon
<1>13. /\ 1 .. Len(resources') = (1 .. Len(resources)) \cup {last}
       /\ last \notin 1 .. Len(resources)
       /\ last \in Int
       /\ \A k \in 1 .. Len(resources) : k \in Int /\ k <= last /\ ~(last <= k)
  BY <1>5, <1>8, <1>l
<1>10. ResourcesDistinct'
  <2>1. Len(resources') <= MaxResources
    BY <1>1, <1>5, <1>8, <1>l, ResourcesAssumption
  <2>2. ASSUME NEW j \in 1 .. Len(resources'), NEW k \in 1 .. Len(resources'),
               resources'[j].path = resources'[k].path
        PROVE  j = k \/ resources'[j].path \in others'
    <3>1. CASE j \in 1 .. Len(resources) /\ k \in 1 .. Len(resources)
      BY <2>2, <3>1, <1>8, <1>a, Zenon DEF RInv, ResourcesDistinct
    <3>2. CASE j = last /\ k \in 1 .. Len(resources)
      BY <2>2, <3>2, <1>7, <1>8, <1>a, Zenon
    <3>3. CASE k = last /\ j \in 1 .. Len(resources)
      BY <2>2, <3>3, <1>7, <1>8, <1>a, Zenon
    <3>4. CASE j = last /\ k = last
      BY <3>4, Zenon
    <3> QED BY <1>13, <3>1, <3>2, <3>3, <3>4, Zenon
  <2> QED BY <2>1, <2>2, Zenon DEF ResourcesDistinct
<1>b. \A k \in 1 .. Len(resources) : First(k)' <=> First(k)
  <2>1. ASSUME NEW k \in 1 .. Len(resources), First(k) PROVE First(k)'
    BY <2>1, <1>8, <1>13, Zenon DEF First
  <2>2. ASSUME NEW k \in 1 .. Len(resources), First(k)' PROVE First(k)
    BY <2>2, <1>8, <1>13, Zenon DEF First
  <2> QED BY <2>1, <2>2, Zenon
<1>c. First(last)' <=> fresh
  <2>1. First(last)' <=> \A j \in 1 .. Len(resources') : resources'[j].path = path => last <= j
    <3>1. last \in 1 .. Len(resources') /\ resources'[last].path = path
      BY <1>7, <1>8, <1>13, Zenon
    <3> QED BY <3>1, Zenon DEF First
  <2>2. last <= last
    BY <1>13
  <2>3. ASSUME First(last)', NEW k \in 1 .. Len(resources) PROVE resources[k].path # path
    <3>1. k \in 1 .. Len(resources') /\ ~(last <= k) /\ resources'[k] = resources[k]
      BY <1>8, <1>13, Zenon
    <3> QED BY <3>1, <2>1, <2>3, Zenon
  <2>4. ASSUME fresh, NEW j \in 1 .. Len(resources'), resources'[j].path = path PROVE last <= j
    <3>1. CASE j = last
      BY <3>1, <2>2, Zenon
    <3>2. CASE j \in 1 .. Len(resources)
      <4>1. resources'[j] = resources[j]
        BY <3>2, <1>8, Zenon
      <4> QED BY <4>1, <3>2, <2>4, Zenon
    <3> QED BY <3>1, <3>2, <1>13, Zenon
  <2> QED BY <2>1, <2>3, <2>4, Zenon
<1>14. Agree'
  <2>1. ASSUME NEW k \in 1 .. Len(resources'), First(k)'
        PROVE  registered'[resources'[k].path]
                 = [type |-> resources'[k].type, handler |-> resources'[k].handler]
    <3>1. CASE k = last
      <4>1. fresh
        BY <2>1, <3>1, <1>c, Zenon
      <4> HIDE DEF fresh
      <4>2. resources'[k] = r
        BY <3>1, <1>8, Zenon
      <4>3. registered'[path] = [type |-> type, handler |-> handler]
        BY <4>1, <1>11, Zenon
      <4> QED BY <4>2, <4>3, <1>7, Zenon
    <3>2. CASE k \in 1 .. Len(resources)
      <4>1. First(k) /\ resources'[k] = resources[k] /\ resources[k].path \in Paths
        BY <2>1, <3>2, <1>b, <1>8, StoredPaths, Zenon
      <4>2. ~(fresh /\ resources[k].path = path)
        BY <3>2, Zenon
      <4>3. registered'[resources[k].path] = registered[resources[k].path]
        BY <4>1, <4>2, <1>11, Zenon
      <4> QED BY <3>2, <4>1, <4>3, Zenon DEF RInv, Agree
    <3> QED BY <1>13, <3>1, <3>2, Zenon
  <2>2. ASSUME NEW k \in 1 .. Len(resources')
        PROVE  registered'[resources'[k].path] # Unregistered
    <3>1. \A p \in Paths : registered[p] # Unregistered \/ (fresh /\ p = path)
                            => registered'[p] # Unregistered
      <4> HIDE DEF fresh
      <4> QED BY <1>11, RegisteredDiffers, Zenon
    <3>2. CASE k = last
      <4>1. resources'[k].path = path
        BY <3>2, <1>7, <1>8, Zenon
      <4>2. registered[path] # Unregistered \/ fresh
        BY <1>6, Zenon
      <4> QED BY <3>1, <4>1, <4>2, Zenon
    <3>3. CASE k \in 1 .. Len(resources)
      <4>1. resources'[k] = resources[k] /\ resources[k].path \in Paths
        BY <3>3, <1>8, StoredPaths, Zenon
      <4>2. registered[resources[k].path] # Unregistered
        BY <3>3, Zenon DEF RInv, Agree
      <4> QED BY <3>1, <4>1, <4>2, Zenon
    <3> QED BY <1>13, <3>2, <3>3, Zenon
  <2>3. ASSUME NEW p \in Paths, registered'[p] # Unregistered
        PROVE  \E k \in 1 .. Len(resources') : resources'[k].path = p /\ First(k)'
    <3>1. CASE fresh /\ p = path
      BY <3>1, <1>c, <1>7, <1>8, <1>13, Zenon
    <3>2. CASE ~(fresh /\ p = path)
      <4>1. PICK k \in 1 .. Len(resources) : resources[k].path = p /\ First(k)
        <5> HIDE DEF fresh
        <5>1. registered[p] # Unregistered
          BY <3>2, <2>3, <1>11, Zenon
        <5> QED BY <5>1, Zenon DEF RInv, Agree
      <4>2. k \in 1 .. Len(resources') /\ resources'[k].path = p /\ First(k)'
        BY <4>1, <1>8, <1>13, <1>b, Zenon
      <4> QED BY <4>2, Zenon
    <3> QED BY <3>1, <3>2, Zenon
  <2> QED BY <2>1, <2>2, <2>3, Zenon DEF Agree
<1> QED BY <1>8, <1>9, <1>10, <1>14, Zenon DEF RInv

\* Every call of two_register_resource keeps the invariant.
LEMMA NextResources == RInv /\ [RNext]_<<resources, registered, others>> => RInv'
<1> SUFFICES ASSUME RInv, [RNext]_<<resources, registered, others>> PROVE RInv'
  OBVIOUS
<1>1. ASSUME UNCHANGED <<resources, registered, others>> PROVE RInv'
  BY <1>1 DEF RInv, ResourcesDistinct, Agree, First
<1>2. ASSUME NEW m \in Methods, NEW path \in Paths, NEW ct \in ContentTypes,
             NEW handler \in Handlers, two_register_resource(m, path, ct, handler)
      PROVE  RInv'
  <2>1. CASE Replace(m, path, ct, handler)
    BY <2>1, ReplaceInv
  <2>2. CASE Add(m, path, ct, handler)
    BY <2>2, AddInv
  <2>3. CASE Refuse(m, path, ct)
    BY <2>3, <1>1 DEF Refuse
  <2> QED BY <1>2, <2>1, <2>2, <2>3 DEF two_register_resource
<1>3. ASSUME NEW c \in Calls, two_register_resource(c[1], c[2], c[3], c[4]) PROVE RInv'
  <2>1. c[1] \in Methods /\ c[2] \in Paths /\ c[3] \in ContentTypes /\ c[4] \in Handlers
    BY ResourcesAssumption
  <2> QED BY <2>1, <1>3, <1>2
<1> QED BY <1>1, <1>3 DEF RNext

\* find_resource finds the first resource of a path.
LEMMA InvFinds == RInv => LastRegistered
<1> SUFFICES ASSUME RInv, NEW path \in Paths
             PROVE  LET i == find_resource(resources, GET, path)
                    IN  registered[path]
                          = IF i = 0 THEN Unregistered
                            ELSE [type |-> resources[i].type, handler |-> resources[i].handler]
  BY DEF LastRegistered
<1> DEFINE found == Found(resources, GET, path)
<1>1. \A i \in 1 .. Len(resources) : Begins(GET, resources[i].method)
  BY StoredPaths, BeginsSelf, ResourcesAssumption, Zenon
<1>2. found = {i \in 1 .. Len(resources) : resources[i].path = path}
  BY <1>1, Zenon DEF Found
<1>3. CASE found = {}
  <2>1. find_resource(resources, GET, path) = 0
    BY <1>3 DEF find_resource
  <2>2. registered[path] = Unregistered
    BY <1>2, <1>3, Zenon DEF RInv, Agree
  <2> QED BY <2>1, <2>2
<1>4. CASE found # {}
  <2>1. registered[path] # Unregistered
    <3>1. PICK i \in 1 .. Len(resources) : resources[i].path = path
      BY <1>2, <1>4
    <3>2. registered[resources[i].path] # Unregistered
      BY <3>1, Zenon DEF RInv, Agree
    <3> QED BY <3>1, <3>2, Zenon
  <2>2. PICK k \in 1 .. Len(resources) : resources[k].path = path /\ First(k)
    BY <2>1, Zenon DEF RInv, Agree
  <2>3. k \in found /\ \A j \in found : k <= j
    BY <2>2, <1>2, Zenon DEF First
  <2>4. found \subseteq Int
    BY <1>2
  <2>5. find_resource(resources, GET, path) = k
    <3> DEFINE c == CHOOSE i \in found : \A j \in found : i <= j
    <3>1. c \in found /\ \A j \in found : c <= j
      BY <2>3, Zenon
    <3>2. find_resource(resources, GET, path) = c
      BY <1>4, Zenon DEF find_resource
    <3> HIDE DEF c, found
    <3>3. c <= k /\ k <= c /\ c \in Int /\ k \in Int
      BY <3>1, <2>3, <2>4
    <3> QED BY <3>2, <3>3
  <2>6. k # 0
    BY <2>2
  <2>7. registered[path] = [type |-> resources[k].type, handler |-> resources[k].handler]
    BY <2>2, Zenon DEF RInv, Agree
  <2> QED BY <2>5, <2>6, <2>7, Zenon
<1> QED BY <1>3, <1>4

-----------------------------------------------------------------------------
\* However often an application registers which resources under which methods,
\* GET finds for each path the one that two_register_resource accepted last
\* under GET or, if there is none, first under another method that begins with
\* GET, or none if it accepted none.
THEOREM FindsLastRegistered == RSpec => []LastRegistered
<1>1. RInit => RInv
  BY InitResources
<1>2. RInv /\ [RNext]_<<resources, registered, others>> => RInv'
  BY NextResources
<1>3. RInv => LastRegistered
  BY InvFinds
<1> QED BY <1>1, <1>2, <1>3, PTL DEF RSpec

\* server_resources is never overrun, and holds a path twice only if the path was
\* registered under a method that begins with GET and is another one:
\* two_register_resource stores that as GET and does not find it again.
THEOREM RegistersOnce == RSpec => []ResourcesDistinct
<1>1. RInit => RInv
  BY InitResources
<1>2. RInv /\ [RNext]_<<resources, registered, others>> => RInv'
  BY NextResources
<1>3. RInv => ResourcesDistinct
  BY DEF RInv
<1> QED BY <1>1, <1>2, <1>3, PTL DEF RSpec
=============================================================================
