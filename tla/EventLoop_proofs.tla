-------------------------- MODULE EventLoop_proofs --------------------------
(***************************************************************************)
(* Proofs about the event loop, for every number of sockets, clients and   *)
(* descriptors, and whenever the server is stopped: no socket, descriptor  *)
(* or context is lost or is in two places.                                 *)
(***************************************************************************)
EXTENDS EventLoop, WellFoundedInduction, TLAPS

\* The places of an iteration of the loop.
Places == {"idle", "timers", "select", "poll", "accept", "write", "notify", "pending", "close"}

\* The places of a visit to the socket of the descriptor fd.
Visiting == {"poll", "accept", "write", "notify"}

\* The states of a socket (event.h).
States == {"CLOSED", "LISTENING", "CONNECTED", "CLOSING"}

\* The types of the loop's lists and of what the sockets hold.
LoopTypes ==
  /\ sockets \in Seq(Slots) /\ reserved \in Seq(Slots) /\ todo \in Seq(Slots)
  /\ descriptor \in [Slots -> Fds \cup {-1}] /\ data \in [Slots -> Contexts \cup {None}]
  /\ state \in [Slots -> States]
  /\ clients \subseteq Contexts /\ active_fds \subseteq Fds /\ at \in Places

\* t is the end of q.
Ends(t, q) ==
  /\ Len(t) <= Len(q)
  /\ \A i \in 1 .. Len(t) : t[i] = q[Len(q) - Len(t) + i]

\* No list has a socket twice, no socket is in both lists or in none.
Lists ==
  /\ \A i, j \in 1 .. Len(sockets) : sockets[i] = sockets[j] => i = j
  /\ \A i, j \in 1 .. Len(reserved) : reserved[i] = reserved[j] => i = j
  /\ Range(sockets) \cap Range(reserved) = {}
  /\ Range(sockets) \cup Range(reserved) = Slots

\* The descriptors of the sockets in use are different and active.
Descriptors ==
  /\ \A s \in Range(reserved) : descriptor[s] # -1 => descriptor[s] \in active_fds
  /\ \A i \in active_fds : \E s \in Range(reserved) : descriptor[s] = i
  /\ \A s, t \in Range(reserved) :
       descriptor[s] = descriptor[t] => s = t \/ descriptor[s] = -1

\* A context is free or belongs to one socket.
Owners ==
  /\ \A s \in Slots : data[s] \notin clients
  /\ \A ctx \in Contexts \ clients : \E s \in Slots : data[s] = ctx
  /\ \A s, t \in Slots : data[s] = data[t] => s = t \/ data[s] = None

\* What is known at the places of the loop.
AtPlace ==
  /\ at = "idle" => open = {} /\ clients = Contexts
  /\ at # "idle" => Lists /\ Descriptors /\ open = active_fds
                    /\ \A s \in Range(sockets) : data[s] = None
  /\ at = "accept" => sockets # <<>>
  /\ at \in Visiting => fd \in active_fds
  /\ at = "close" => Ends(todo, reserved)
  /\ at \in {"timers", "select"} => \A i \in active_fds : i < nfds

\* The inductive invariant.
IInv == LoopTypes /\ Owners /\ AtPlace

-----------------------------------------------------------------------------
(* Smallest and largest elements.                                           *)

\* A set of descriptors has a lowest one.
LEMMA HasLeast ==
  ASSUME NEW S, S \subseteq Nat, S # {}
  PROVE  \E x \in S : \A y \in S : x <= y
<1> DEFINE R == {ss \in Nat \X Nat : ss[1] < ss[2]}
<1>1. IsWellFoundedOn(R, Nat)
  BY NatLessThanWellFounded, Zenon DEF OpToRel
<1>2. ASSUME NEW x \in Nat, NEW y \in Nat, ~(<<y, x>> \in R) PROVE x <= y
  BY <1>2
<1> HIDE DEF R
<1>3. \E x \in S : \A y \in S : ~(<<y, x>> \in R)
  BY <1>1, WFMin, Zenon
<1> QED BY <1>2, <1>3, Zenon

\* It is the one that Lowest and the poll take.
LEMMA MinOfSet ==
  ASSUME NEW S, S \subseteq Nat, S # {}
  PROVE  Min(S) \in S
  BY HasLeast, Zenon DEF Min

\* No descriptor of a bounded set is above the highest one (max_fds).
LEMMA MaxOfSet ==
  ASSUME NEW S, NEW n \in Nat, S \subseteq -1 .. n, S # {}
  PROVE  Max(S) \in S /\ \A y \in S : y <= Max(S)
<1> DEFINE T == {n - x : x \in S}
<1>1. T \subseteq Nat
  OBVIOUS
<1>a. T # {}
  BY Zenon
<1>2. PICK m \in T : \A y \in T : m <= y
  BY <1>1, <1>a, HasLeast, Zenon
<1>3. PICK x \in S : m = n - x
  BY <1>2
<1>4. \A y \in S : x >= y
  BY <1>2, <1>3
<1> QED BY <1>4, Zenon DEF Max

-----------------------------------------------------------------------------
(* Steps that leave the lists, the descriptors and the contexts alone.      *)

\* What such a step keeps.
Quiet == UNCHANGED <<sockets, reserved, descriptor, data, clients, active_fds, nfds, open, server>>

\* The place that it goes to.
Placed ==
  /\ todo' \in Seq(Slots) /\ at' \in Places
  /\ (at' = "idle") = (at = "idle")
  /\ at' = "accept" => sockets # <<>>
  /\ at' \in Visiting => fd' \in active_fds
  /\ at' = "close" => Ends(todo', reserved)
  /\ at' \in {"timers", "select"} => at \in {"timers", "select"}

\* The states of the sockets.
Stated == state' \in [Slots -> States]

\* A step that keeps these and goes to such a place keeps the invariant.
LEMMA QuietStep == IInv /\ Quiet /\ Placed /\ Stated => IInv'
<1> SUFFICES ASSUME IInv, Quiet, Placed, Stated PROVE IInv'
  OBVIOUS
<1>1. LoopTypes'
  BY DEF IInv, Quiet, Placed, Stated, LoopTypes
<1>2. Owners'
  BY DEF IInv, Quiet, Owners
<1>3. AtPlace'
  <2>1. (Lists <=> Lists') /\ (Descriptors <=> Descriptors')
    BY DEF Quiet, Lists, Descriptors
  <2>2. Range(sockets') = Range(sockets)
    BY DEF Quiet
  <2> QED BY <2>1, <2>2 DEF IInv, Quiet, Placed, AtPlace, Visiting
<1> QED BY <1>1, <1>2, <1>3 DEF IInv

\* A step that leaves the states of the sockets alone.
LEMMA StateKept ==
  ASSUME IInv, UNCHANGED state
  PROVE  Stated
  BY DEF IInv, LoopTypes, Stated

\* http2_close_immediate and event_close.
LEMMA StateClosing ==
  ASSUME IInv, NEW s, state' = [state EXCEPT ![s] = "CLOSING"]
  PROVE  Stated
  BY Zenon DEF IInv, LoopTypes, Stated, States

\* A socket whose peer is gone is closing or stays as it is (event_sock_close).
LEMMA EventSockClose ==
  ASSUME IInv, NEW s, event_sock_close(s)
  PROVE  Stated
<1>1. state' = [state EXCEPT ![s] = "CLOSING"] \/ UNCHANGED state
  BY DEF event_sock_close, http2_close_immediate
<1> QED BY <1>1, StateKept, StateClosing

\* The place does not change.
LEMMA PlaceKept ==
  ASSUME IInv, UNCHANGED <<at, todo, fd>>
  PROVE  Placed
  BY DEF IInv, LoopTypes, AtPlace, Placed

\* The next socket of the walk is visited.
LEMMA PlaceNext ==
  ASSUME IInv, todo # <<>>, todo' = Tail(todo), UNCHANGED <<at, fd>>
  PROVE  Placed
<1>1. todo \in Seq(Slots) /\ reserved \in Seq(Slots)
  BY DEF IInv, LoopTypes
<1>2. Tail(todo) \in Seq(Slots)
  BY <1>1
<1>3. ASSUME Ends(todo, reserved) PROVE Ends(Tail(todo), reserved)
  BY <1>1, <1>3 DEF Ends
<1> QED BY <1>2, <1>3 DEF IInv, LoopTypes, AtPlace, Placed

\* The poll goes on, or ends.
LEMMA PlaceAdvance ==
  ASSUME IInv, NEW i, Advance(i), at \in {"select", "write", "notify"}
  PROVE  Placed
<1>1. todo \in Seq(Slots) /\ reserved \in Seq(Slots) /\ active_fds \subseteq Nat
  BY LoopAssumption DEF IInv, LoopTypes, Fds
<1>2. CASE After(i) # {}
  <2>1. at' = "poll" /\ fd' = Min(After(i)) /\ todo' = todo
    BY <1>2 DEF Advance
  <2>2. After(i) \subseteq active_fds
    BY DEF After
  <2>3. fd' \in active_fds
    BY <1>1, <1>2, <2>1, <2>2, MinOfSet, Zenon
  <2> QED BY <1>1, <2>1, <2>3 DEF Placed, Places
<1>3. CASE After(i) = {}
  BY <1>1, <1>3 DEF Advance, Placed, Places, Visiting
<1> QED BY <1>2, <1>3

\* Timers, and the start of a poll.
LEMMA TimerSteps ==
  IInv /\ (on_settings_timeout \/ event_loop_timers \/ event_loop_poll) => IInv'
<1> USE DEF poolVars, sockVars, memVars, fdVars, placeVars, worldVars, At
<1>1. ASSUME IInv, on_settings_timeout PROVE IInv'
  <2>1. Quiet
    BY <1>1 DEF on_settings_timeout, Quiet
  <2>2. Placed
    BY <1>1, PlaceNext DEF on_settings_timeout
  <2>3. Stated
    BY <1>1, StateKept DEF on_settings_timeout
  <2> QED BY <1>1, <2>1, <2>2, <2>3, QuietStep
<1>2. ASSUME IInv, event_loop_timers PROVE IInv'
  <2>1. Quiet
    BY <1>2 DEF event_loop_timers, Quiet
  <2>2. Placed
    <3>1. CASE todo # <<>>
      BY <1>2, <3>1, PlaceNext DEF event_loop_timers
    <3>2. CASE todo = <<>>
      BY <1>2, <3>2 DEF event_loop_timers, Placed, Places, Visiting, IInv, LoopTypes
    <3> QED BY <3>1, <3>2
  <2>3. Stated
    BY <1>2, StateKept DEF event_loop_timers
  <2> QED BY <1>2, <2>1, <2>2, <2>3, QuietStep
<1>3. ASSUME IInv, event_loop_poll PROVE IInv'
  <2>1. Quiet
    BY <1>3 DEF event_loop_poll, Quiet
  <2>2. Placed
    <3>1. CASE Advance(-1)
      BY <1>3, <3>1, PlaceAdvance DEF event_loop_poll
    <3>2. CASE at' = "pending" /\ todo' = reserved
      BY <1>3, <3>2 DEF event_loop_poll, Placed, Places, Visiting, IInv, LoopTypes
    <3> QED BY <1>3, <3>1, <3>2 DEF event_loop_poll
  <2>3. Stated
    BY <1>3, StateKept DEF event_loop_poll
  <2> QED BY <1>3, <2>1, <2>2, <2>3, QuietStep
<1> QED BY <1>1, <1>2, <1>3

\* A visit of the poll: reading.
LEMMA ReadSteps ==
  IInv /\ (event_sock_read_none \/ event_sock_read \/ event_sock_connect \/ event_accept) => IInv'
<1> USE DEF poolVars, sockVars, memVars, fdVars, placeVars, worldVars, At
<1>1. ASSUME IInv, event_sock_read_none PROVE IInv'
  <2>1. Quiet
    BY <1>1 DEF event_sock_read_none, Quiet
  <2>2. Placed
    BY <1>1 DEF event_sock_read_none, Placed, Places, Visiting, IInv, LoopTypes, AtPlace
  <2>3. Stated
    BY <1>1, StateKept DEF event_sock_read_none
  <2> QED BY <1>1, <2>1, <2>2, <2>3, QuietStep
<1>2. ASSUME IInv, event_sock_read PROVE IInv'
  <2>1. Quiet
    BY <1>2 DEF event_sock_read, Quiet
  <2>2. Placed
    BY <1>2 DEF event_sock_read, Placed, Places, Visiting, IInv, LoopTypes, AtPlace
  <2>3. Stated
    BY <1>2, StateKept, EventSockClose DEF event_sock_read
  <2> QED BY <1>2, <2>1, <2>2, <2>3, QuietStep
<1>3. ASSUME IInv, event_sock_connect PROVE IInv'
  <2>1. Quiet
    BY <1>3 DEF event_sock_connect, Quiet
  <2>2. Placed
    BY <1>3 DEF event_sock_connect, MayAccept, Placed, Places, Visiting, IInv, LoopTypes, AtPlace
  <2>3. Stated
    BY <1>3, StateKept DEF event_sock_connect
  <2> QED BY <1>3, <2>1, <2>2, <2>3, QuietStep
<1>4. ASSUME IInv, event_accept PROVE IInv'
  <2>1. Quiet
    BY <1>4 DEF event_accept, Quiet
  <2>2. Placed
    BY <1>4, PlaceKept DEF event_accept
  <2>3. Stated
    BY <1>4, StateKept DEF event_accept
  <2> QED BY <1>4, <2>1, <2>2, <2>3, QuietStep
<1> QED BY <1>1, <1>2, <1>3, <1>4

\* A visit of the poll: writing.
LEMMA WriteSteps ==
  IInv /\ (event_sock_write_none \/ event_sock_write \/ event_sock_write_error) => IInv'
<1> USE DEF poolVars, sockVars, memVars, fdVars, placeVars, worldVars, At
<1>1. ASSUME IInv, event_sock_write_none PROVE IInv'
  <2>1. Quiet
    BY <1>1 DEF event_sock_write_none, Quiet
  <2>2. Placed
    BY <1>1, PlaceAdvance DEF event_sock_write_none
  <2>3. Stated
    BY <1>1, StateKept DEF event_sock_write_none
  <2> QED BY <1>1, <2>1, <2>2, <2>3, QuietStep
<1>2. ASSUME IInv, event_sock_write PROVE IInv'
  <2>1. Quiet
    BY <1>2 DEF event_sock_write, Quiet
  <2>2. Placed
    BY <1>2 DEF event_sock_write, Placed, Places, Visiting, IInv, LoopTypes, AtPlace
  <2>3. Stated
    BY <1>2, StateKept DEF event_sock_write
  <2> QED BY <1>2, <2>1, <2>2, <2>3, QuietStep
<1>3. ASSUME IInv, event_sock_write_error PROVE IInv'
  <2>1. Quiet
    BY <1>3 DEF event_sock_write_error, Quiet
  <2>2. Placed
    BY <1>3, PlaceAdvance DEF event_sock_write_error
  <2>3. Stated
    BY <1>3, StateKept, EventSockClose DEF event_sock_write_error
  <2> QED BY <1>3, <2>1, <2>2, <2>3, QuietStep
<1> QED BY <1>1, <1>2, <1>3

\* The callbacks of operations that are complete.
LEMMA NotifySteps ==
  IInv /\ (event_sock_handle_write \/ event_sock_handle_write_end) => IInv'
<1> USE DEF poolVars, sockVars, memVars, fdVars, placeVars, worldVars, At
<1>1. ASSUME IInv, event_sock_handle_write PROVE IInv'
  <2>1. Quiet
    BY <1>1 DEF event_sock_handle_write, Quiet
  <2>2. Placed
    BY <1>1, PlaceKept DEF event_sock_handle_write
  <2>3. Stated
    <3>1. state' = [state EXCEPT ![Visited] = "CLOSING"] \/ UNCHANGED state
      BY <1>1 DEF event_sock_handle_write, http2_close_immediate
    <3> QED BY <1>1, <3>1, StateKept, StateClosing DEF event_sock_handle_write
  <2> QED BY <1>1, <2>1, <2>2, <2>3, QuietStep
<1>2. ASSUME IInv, event_sock_handle_write_end PROVE IInv'
  <2>1. Quiet
    BY <1>2 DEF event_sock_handle_write_end, Quiet
  <2>2. Placed
    BY <1>2, PlaceAdvance DEF event_sock_handle_write_end
  <2>3. Stated
    BY <1>2, StateKept DEF event_sock_handle_write_end
  <2> QED BY <1>2, <2>1, <2>2, <2>3, QuietStep
<1> QED BY <1>1, <1>2

\* Pending reads, and sockets that are not closed yet.
LEMMA PendingSteps ==
  IInv /\ (event_sock_handle_read \/ event_loop_pending \/ event_loop_close_none) => IInv'
<1> USE DEF poolVars, sockVars, memVars, fdVars, placeVars, worldVars, At
<1>1. ASSUME IInv, event_sock_handle_read PROVE IInv'
  <2>1. Quiet
    BY <1>1 DEF event_sock_handle_read, Quiet
  <2>2. Placed
    BY <1>1, PlaceNext, PlaceKept DEF event_sock_handle_read
  <2>3. Stated
    <3>1. state' = [state EXCEPT ![Head(todo)] = "CLOSING"] \/ UNCHANGED state
      BY <1>1 DEF event_sock_handle_read, http2_close_immediate
    <3> QED BY <1>1, <3>1, StateKept, StateClosing DEF event_sock_handle_read
  <2> QED BY <1>1, <2>1, <2>2, <2>3, QuietStep
<1>2. ASSUME IInv, event_loop_pending PROVE IInv'
  <2>1. Quiet
    BY <1>2 DEF event_loop_pending, Quiet
  <2>2. Placed
    <3>1. CASE todo # <<>>
      BY <1>2, <3>1, PlaceNext DEF event_loop_pending
    <3>2. CASE todo = <<>>
      BY <1>2, <3>2 DEF event_loop_pending, Placed, Places, Visiting, Ends, IInv, LoopTypes
    <3> QED BY <3>1, <3>2
  <2>3. Stated
    BY <1>2, StateKept DEF event_loop_pending
  <2> QED BY <1>2, <2>1, <2>2, <2>3, QuietStep
<1>3. ASSUME IInv, event_loop_close_none PROVE IInv'
  <2>1. Quiet
    BY <1>3 DEF event_loop_close_none, Quiet
  <2>2. Placed
    BY <1>3, PlaceNext DEF event_loop_close_none
  <2>3. Stated
    BY <1>3, StateKept DEF event_loop_close_none
  <2> QED BY <1>3, <2>1, <2>2, <2>3, QuietStep
<1> QED BY <1>1, <1>2, <1>3

\* The server is stopped, a client connects.
LEMMA WorldSteps ==
  IInv /\ (two_server_stop \/ connect) => IInv'
<1> USE DEF poolVars, sockVars, memVars, fdVars, placeVars, worldVars, At
<1>1. ASSUME IInv, two_server_stop PROVE IInv'
  <2>1. Quiet
    BY <1>1 DEF two_server_stop, Quiet
  <2>2. Placed
    BY <1>1, PlaceKept DEF two_server_stop
  <2>3. Stated
    BY <1>1, Zenon DEF two_server_stop, Stated, States, IInv, LoopTypes
  <2> QED BY <1>1, <2>1, <2>2, <2>3, QuietStep
<1>2. ASSUME IInv, connect PROVE IInv'
  <2>1. Quiet
    BY <1>2 DEF connect, Quiet
  <2>2. Placed
    BY <1>2, PlaceKept DEF connect
  <2>3. Stated
    BY <1>2, StateKept DEF connect
  <2> QED BY <1>2, <2>1, <2>2, <2>3, QuietStep
<1> QED BY <1>1, <1>2

-----------------------------------------------------------------------------
(* Steps that change the lists.                                             *)

\* A socket of a list has a position in it.
LEMMA InList ==
  \A q \in Seq(Slots) : \A s : s \in Range(q) <=> \E i \in 1 .. Len(q) : q[i] = s
  BY DEF Range

\* Curr leaves the list of sockets in use, wherever it is in it.
LEMMA SocketReleased ==
  ASSUME IInv, at = "close", todo # <<>>, ReleaseSocket, todo' = Tail(todo)
  PROVE  /\ sockets' \in Seq(Slots) /\ reserved' \in Seq(Slots) /\ todo' \in Seq(Slots)
         /\ Curr \in Slots /\ Curr \in Range(reserved)
         /\ Lists' /\ Ends(todo, reserved)'
         /\ Range(reserved') = Range(reserved) \ {Curr}
         /\ Range(sockets') = Range(sockets) \cup {Curr}
<1>1. /\ sockets \in Seq(Slots) /\ reserved \in Seq(Slots) /\ todo \in Seq(Slots)
      /\ Lists /\ Ends(todo, reserved)
  BY DEF IInv, LoopTypes, AtPlace
<1>n. PICK n \in Nat : n = Len(reserved)
  BY <1>1
<1>m. Len(reserved) - Len(todo) \in Nat
  BY <1>1 DEF Ends
<1>b. PICK b \in Nat : b = Len(reserved) - Len(todo)
  BY <1>m, Zenon
<1>2. b \in 0 .. n - 1 /\ n - b = Len(todo) /\ Len(todo) > 0
  BY <1>1, <1>n, <1>b
<1>3. \A i \in 1 .. Len(todo) : todo[i] = reserved[b + i]
  BY <1>1, <1>b DEF Ends
<1>4. Curr = reserved[b + 1] /\ Curr \in Slots
  BY <1>1, <1>2, <1>3 DEF Curr
<1>5. /\ Before \in Seq(Slots) /\ Len(Before) = b
      /\ \A i \in 1 .. b : Before[i] = reserved[i]
  <2>1. Before = SubSeq(reserved, 1, b)
    BY <1>b DEF Before
  <2> QED BY <2>1, <1>1, <1>2, <1>n
<1>6. /\ todo' \in Seq(Slots) /\ Len(todo') = n - b - 1
      /\ \A i \in 1 .. n - b - 1 : todo'[i] = reserved[b + i + 1]
  BY <1>1, <1>2, <1>3
<1>7. /\ reserved' \in Seq(Slots) /\ Len(reserved') = n - 1
      /\ \A i \in 1 .. n - 1 : reserved'[i] = IF i <= b THEN reserved[i] ELSE reserved[i + 1]
  <2>1. reserved' = Before \o todo'
    BY DEF ReleaseSocket
  <2>a. Before \o todo' \in Seq(Slots) /\ Len(Before \o todo') = Len(Before) + Len(todo')
    BY <1>5, <1>6
  <2>b. Len(Before) = b /\ Len(todo') = n - b - 1
    BY <1>5, <1>6
  <2>2. reserved' \in Seq(Slots) /\ Len(reserved') = n - 1
    BY <2>1, <2>a, <2>b
  <2>3. ASSUME NEW i \in 1 .. n - 1
        PROVE  reserved'[i] = IF i <= b THEN Before[i] ELSE todo'[i - b]
    BY <2>1, <1>2, <1>5, <1>6, SMTT(30)
  <2>4. ASSUME NEW i \in 1 .. n - 1
        PROVE  reserved'[i] = IF i <= b THEN reserved[i] ELSE reserved[i + 1]
    <3>1. CASE i <= b
      BY <2>3, <3>1, <1>5
    <3>2. CASE i > b
      <4>1. i - b \in 1 .. n - b - 1 /\ b + (i - b) + 1 = i + 1
        BY <3>2, <1>2
      <4>2. todo'[i - b] = reserved[b + (i - b) + 1]
        BY <4>1, <1>6, SMTT(30)
      <4>3. ~(i <= b)
        BY <3>2
      <4>4. reserved'[i] = reserved[i + 1]
        BY <2>3, <4>1, <4>2, <4>3, Zenon
      <4> QED BY <4>3, <4>4
    <3> QED BY <3>1, <3>2
  <2> QED BY <2>2, <2>4
<1>8. /\ sockets' \in Seq(Slots) /\ Len(sockets') = Len(sockets) + 1 /\ sockets'[1] = Curr
      /\ \A i \in 1 .. Len(sockets) : sockets'[i + 1] = sockets[i]
      /\ \A i \in 2 .. Len(sockets') : sockets'[i] = sockets[i - 1]
  BY <1>1, <1>4 DEF ReleaseSocket
<1>9. Ends(todo, reserved)'
  <2>1. Len(todo') <= Len(reserved')
    BY <1>2, <1>6, <1>7
  <2>2. ASSUME NEW i \in 1 .. Len(todo')
        PROVE  todo'[i] = reserved'[Len(reserved') - Len(todo') + i]
    BY <1>2, <1>6, <1>7
  <2> QED BY <2>1, <2>2 DEF Ends
<1>10. Range(reserved') = Range(reserved) \ {Curr} /\ Curr \in Range(reserved)
  <2>1. \A i \in 1 .. n - 1 : reserved'[i] \in Range(reserved) \ {Curr}
    <3> TAKE i \in 1 .. n - 1
    <3>1. PICK j \in 1 .. n : j # b + 1 /\ reserved'[i] = reserved[j]
      <4>1. CASE i <= b
        <5>1. i \in 1 .. n /\ i # b + 1 /\ reserved'[i] = reserved[i]
          BY <4>1, <1>2, <1>7
        <5> QED BY <5>1
      <4>2. CASE i > b
        <5>1. i + 1 \in 1 .. n /\ i + 1 # b + 1 /\ reserved'[i] = reserved[i + 1]
          BY <4>2, <1>2, <1>7
        <5> QED BY <5>1
      <4> QED BY <4>1, <4>2, <1>2
    <3>2. reserved[j] # reserved[b + 1]
      BY <3>1, <1>1, <1>2, <1>n DEF Lists
    <3> QED BY <3>1, <3>2, <1>1, <1>4, <1>n, InList
  <2>2. \A i \in 1 .. n : reserved[i] = Curr \/ reserved[i] \in Range(reserved')
    <3> TAKE i \in 1 .. n
    <3>1. CASE i <= b
      BY <3>1, <1>2, <1>7, InList, SMTT(30)
    <3>2. CASE i = b + 1
      BY <3>2, <1>4
    <3>3. CASE i > b + 1
      <4>1. i - 1 \in 1 .. n - 1 /\ i - 1 > b
        BY <3>3, <1>2
      <4>2. reserved'[i - 1] = reserved[i]
        BY <4>1, <1>2, <1>7
      <4> QED BY <4>1, <4>2, <1>7, InList
    <3> QED BY <3>1, <3>2, <3>3, <1>2
  <2>3. Curr \in Range(reserved)
    BY <1>1, <1>2, <1>4, <1>n, InList
  <2>4. ASSUME NEW s \in Range(reserved') PROVE s \in Range(reserved) \ {Curr}
    BY <2>1, <1>7, InList
  <2>5. ASSUME NEW s \in Range(reserved) \ {Curr} PROVE s \in Range(reserved')
    BY <2>2, <1>1, <1>n, InList
  <2> QED BY <2>3, <2>4, <2>5
<1>11. Range(sockets') = Range(sockets) \cup {Curr}
  <2>1. ASSUME NEW s \in Range(sockets') PROVE s \in Range(sockets) \cup {Curr}
    <3>1. PICK i \in 1 .. Len(sockets') : sockets'[i] = s
      BY <1>8, InList
    <3>2. CASE i = 1
      BY <3>1, <3>2, <1>8
    <3>3. CASE i > 1
      <4>1. i - 1 \in 1 .. Len(sockets) /\ sockets[i - 1] = s
        BY <3>1, <3>3, <1>1, <1>8
      <4> QED BY <4>1, <1>1, InList
    <3> QED BY <3>2, <3>3
  <2>2. ASSUME NEW s \in Range(sockets) PROVE s \in Range(sockets')
    <3>1. PICK i \in 1 .. Len(sockets) : sockets[i] = s
      BY <1>1, InList
    <3>2. i + 1 \in 1 .. Len(sockets') /\ sockets'[i + 1] = s
      BY <3>1, <1>1, <1>8
    <3> QED BY <3>2, <1>8, InList
  <2>3. Curr \in Range(sockets')
    <3>1. 1 \in 1 .. Len(sockets')
      BY <1>1, <1>8
    <3> QED BY <3>1, <1>8, InList
  <2> QED BY <2>1, <2>2, <2>3
<1>12. Lists'
  <2>1. ASSUME NEW i \in 1 .. Len(sockets'), NEW j \in 1 .. Len(sockets'), sockets'[i] = sockets'[j]
        PROVE  i = j
    <3>1. \A k \in 1 .. Len(sockets) : sockets[k] # Curr
      BY <1>1, <1>10, InList DEF Lists
    <3>2. ASSUME NEW k \in 1 .. Len(sockets'), k # 1
          PROVE  k - 1 \in 1 .. Len(sockets) /\ sockets'[k] = sockets[k - 1]
      BY <3>2, <1>1, <1>8
    <3>3. CASE i = 1 /\ j # 1
      BY <2>1, <3>1, <3>2, <3>3, <1>8
    <3>4. CASE i # 1 /\ j = 1
      BY <2>1, <3>1, <3>2, <3>4, <1>8
    <3>5. CASE i # 1 /\ j # 1
      <4>1. i - 1 \in 1 .. Len(sockets) /\ j - 1 \in 1 .. Len(sockets) /\ sockets[i - 1] = sockets[j - 1]
        BY <2>1, <3>2, <3>5
      <4>2. i - 1 = j - 1
        BY <4>1, <1>1, Zenon DEF Lists
      <4> QED BY <4>2
    <3> QED BY <3>3, <3>4, <3>5
  <2>2. ASSUME NEW i \in 1 .. Len(reserved'), NEW j \in 1 .. Len(reserved'),
               reserved'[i] = reserved'[j]
        PROVE  i = j
    BY <2>2, <1>1, <1>2, <1>7, <1>n DEF Lists
  <2>3. Range(sockets') \cap Range(reserved') = {} /\ Range(sockets') \cup Range(reserved') = Slots
    BY <1>1, <1>10, <1>11 DEF Lists
  <2> QED BY <2>1, <2>2, <2>3 DEF Lists
<1> QED BY <1>4, <1>6, <1>7, <1>8, <1>9, <1>10, <1>11, <1>12

\* A socket is closed.
LEMMA CloseStep == IInv /\ event_loop_close => IInv'
<1> SUFFICES ASSUME IInv, event_loop_close PROVE IInv'
  OBVIOUS
<1>1. /\ at = "close" /\ todo # <<>> /\ ReleaseSocket /\ todo' = Tail(todo)
      /\ CloseDescriptor /\ http2_on_client_close
      /\ state' = Cleared(state, "CLOSED") /\ descriptor' = Cleared(descriptor, -1)
      /\ UNCHANGED <<at, server, stopped>>
  BY DEF event_loop_close, At, worldVars
<1>2. /\ sockets' \in Seq(Slots) /\ reserved' \in Seq(Slots) /\ todo' \in Seq(Slots)
      /\ Curr \in Slots /\ Curr \in Range(reserved)
      /\ Lists' /\ Ends(todo, reserved)'
      /\ Range(reserved') = Range(reserved) \ {Curr}
      /\ Range(sockets') = Range(sockets) \cup {Curr}
  BY <1>1, SocketReleased
<1>3. PICK c \in Slots : c = Curr /\ c \in Range(reserved)
  BY <1>2
<1>4. /\ state' = [state EXCEPT ![c] = "CLOSED"] /\ descriptor' = [descriptor EXCEPT ![c] = -1]
      /\ data' = [data EXCEPT ![c] = None]
      /\ active_fds' = active_fds \ {descriptor[c]} /\ open' = open \ {descriptor[c]}
      /\ clients' = clients \cup ({data[c]} \ {None})
  BY <1>1, <1>3 DEF Cleared, CloseDescriptor, http2_on_client_close
<1>5. /\ descriptor \in [Slots -> Fds \cup {-1}] /\ data \in [Slots -> Contexts \cup {None}]
      /\ state \in [Slots -> States] /\ clients \subseteq Contexts /\ active_fds \subseteq Fds
      /\ Descriptors /\ open = active_fds /\ \A s \in Range(sockets) : data[s] = None
      /\ Range(reserved) \subseteq Slots /\ Range(sockets) \subseteq Slots
  BY <1>1 DEF IInv, LoopTypes, AtPlace, Lists
<1>6. LoopTypes'
  BY <1>1, <1>2, <1>4, <1>5, Zenon DEF LoopTypes, IInv, States
<1>7. Owners'
  <2>1. None \notin Contexts
    BY DEF None, Contexts
  <2>2. \A s \in Slots : data'[s] = IF s = c THEN None ELSE data[s]
    BY <1>4, <1>5
  <2>3. ASSUME NEW s \in Slots PROVE data'[s] \notin clients'
    BY <2>1, <2>2, <1>4, <1>5 DEF IInv, Owners
  <2>4. ASSUME NEW ctx \in Contexts \ clients' PROVE \E s \in Slots : data'[s] = ctx
    BY <2>1, <2>2, <1>4 DEF IInv, Owners
  <2>5. ASSUME NEW s \in Slots, NEW t \in Slots, data'[s] = data'[t]
        PROVE  s = t \/ data'[s] = None
    BY <2>2, <2>5 DEF IInv, Owners
  <2> QED BY <2>3, <2>4, <2>5 DEF Owners
<1>8. Descriptors'
  <2>1. \A s \in Range(reserved') : s # c /\ s \in Range(reserved) /\ descriptor'[s] = descriptor[s]
    BY <1>2, <1>3, <1>4, <1>5
  <2>2. ASSUME NEW s \in Range(reserved'), descriptor'[s] # -1 PROVE descriptor'[s] \in active_fds'
    BY <2>1, <2>2, <1>3, <1>4, <1>5 DEF Descriptors
  <2>3. ASSUME NEW i \in active_fds' PROVE \E s \in Range(reserved') : descriptor'[s] = i
    <3>1. PICK s \in Range(reserved) : descriptor[s] = i
      BY <1>4, <1>5 DEF Descriptors
    <3>2. s # c
      BY <3>1, <1>4
    <3> QED BY <3>1, <3>2, <1>2, <1>3, <2>1
  <2>4. ASSUME NEW s \in Range(reserved'), NEW t \in Range(reserved'),
               descriptor'[s] = descriptor'[t]
        PROVE  s = t \/ descriptor'[s] = -1
    BY <2>1, <2>4, <1>5, SMTT(30) DEF Descriptors
  <2> QED BY <2>2, <2>3, <2>4 DEF Descriptors
<1>9. AtPlace'
  <2>1. \A s \in Range(sockets') : data'[s] = None
    BY <1>2, <1>3, <1>4, <1>5, SMTT(30)
  <2> QED BY <2>1, <1>1, <1>2, <1>4, <1>5, <1>8 DEF AtPlace, Visiting
<1> QED BY <1>6, <1>7, <1>9 DEF IInv

\* The walk is over: max_fds is above all descriptors, and if no socket is left
\* then no descriptor and no context is.
LEMMA CloseEndStep == IInv /\ event_loop_close_end => IInv'
<1> SUFFICES ASSUME IInv, event_loop_close_end PROVE IInv'
  OBVIOUS
<1>1. /\ at = "close" /\ UpdateMaxFd
      /\ at' = IF reserved = <<>> THEN "idle" ELSE "timers"
      /\ todo' = reserved
      /\ UNCHANGED <<sockets, reserved, state, descriptor, data, clients, active_fds, open, server,
                     stopped>>
  BY DEF event_loop_close_end, At, poolVars, sockVars, memVars, worldVars
<1>2. LoopTypes'
  BY <1>1 DEF IInv, LoopTypes, Places
<1>3. Owners'
  BY <1>1 DEF IInv, Owners
<1>4. /\ Lists /\ Descriptors /\ open = active_fds /\ active_fds \subseteq Fds
      /\ \A s \in Range(sockets) : data[s] = None
  BY <1>1 DEF IInv, LoopTypes, AtPlace
<1>5. AtPlace'
  <2>1. CASE reserved = <<>>
    <3>1. Range(reserved) = {}
      BY <2>1 DEF Range
    <3>2. active_fds = {}
      BY <3>1, <1>4 DEF Descriptors
    <3>3. \A s \in Slots : data[s] = None
      BY <3>1, <1>4 DEF Lists
    <3>4. clients = Contexts
      <4>1. None \notin Contexts
        BY DEF None, Contexts
      <4> QED BY <4>1, <3>3, Zenon DEF IInv, LoopTypes, Owners
    <3> QED BY <1>1, <1>4, <2>1, <3>2, <3>4 DEF AtPlace, Visiting
  <2>2. CASE reserved # <<>>
    <3>1. (Lists <=> Lists') /\ (Descriptors <=> Descriptors')
      BY <1>1 DEF Lists, Descriptors
    <3>2. ASSUME NEW i \in active_fds PROVE i < nfds'
      <4> DEFINE S == {descriptor[s] : s \in Range(reserved)} \cup {-1}
      <4>1. S \subseteq -1 .. MaxFd /\ S # {}
        <5>1. Fds \cup {-1} \subseteq -1 .. MaxFd /\ -1 \in -1 .. MaxFd
          BY LoopAssumption DEF Fds
        <5>2. Range(reserved) \subseteq Slots
          BY <1>4, Zenon DEF Lists
        <5>3. descriptor \in [Slots -> Fds \cup {-1}]
          BY Zenon DEF IInv, LoopTypes
        <5>4. \A s \in Range(reserved) : descriptor[s] \in -1 .. MaxFd
          BY <5>1, <5>2, <5>3, Zenon
        <5> QED BY <5>1, <5>4, Zenon
      <4>2. i \in S
        BY <1>4 DEF Descriptors
      <4>3. nfds' = Max(S) + 1
        BY <1>1 DEF UpdateMaxFd
      <4>4. i <= Max(S) /\ Max(S) \in Int
        BY <4>1, <4>2, MaxOfSet, LoopAssumption
      <4> QED BY <4>3, <4>4, <1>4, SMTT(30) DEF Fds
    <3> QED BY <1>1, <1>4, <2>2, <3>1, <3>2, SMTT(30) DEF AtPlace, Visiting
  <2> QED BY <2>1, <2>2
<1> QED BY <1>2, <1>3, <1>5 DEF IInv

\* event_sock_create takes the first free socket.
LEMMA SocketTaken ==
  ASSUME IInv, at = "accept",
         sockets' = Tail(sockets), reserved' = <<Head(sockets)>> \o reserved
  PROVE  /\ sockets' \in Seq(Slots) /\ reserved' \in Seq(Slots)
         /\ Head(sockets) \in Range(sockets)
         /\ Lists'
         /\ Range(reserved') = Range(reserved) \cup {Head(sockets)}
         /\ Range(sockets') = Range(sockets) \ {Head(sockets)}
<1>1. /\ sockets \in Seq(Slots) /\ reserved \in Seq(Slots) /\ sockets # <<>> /\ Lists
  BY DEF IInv, LoopTypes, AtPlace
<1>2. PICK c \in Slots : c = Head(sockets) /\ c = sockets[1]
  BY <1>1
<1>3. 1 \in 1 .. Len(sockets) /\ Len(sockets) \in Nat /\ Len(reserved) \in Nat
  BY <1>1
<1>4. /\ sockets' \in Seq(Slots) /\ Len(sockets') = Len(sockets) - 1
      /\ \A i \in 1 .. Len(sockets) - 1 : sockets'[i] = sockets[i + 1]
  BY <1>1
<1>5. /\ reserved' \in Seq(Slots) /\ Len(reserved') = Len(reserved) + 1 /\ reserved'[1] = c
      /\ \A i \in 1 .. Len(reserved) : reserved'[i + 1] = reserved[i]
  BY <1>1, <1>2
<1>6. c \in Range(sockets)
  BY <1>1, <1>2, <1>3, InList
<1>7. Range(sockets') = Range(sockets) \ {c}
  <2>1. ASSUME NEW s \in Range(sockets') PROVE s \in Range(sockets) \ {c}
    <3>1. PICK i \in 1 .. Len(sockets') : sockets'[i] = s
      BY <1>4, InList, Zenon
    <3>2. i + 1 \in 1 .. Len(sockets) /\ i + 1 # 1 /\ sockets[i + 1] = s
      BY <3>1, <1>3, <1>4
    <3>3. s # c
      BY <3>2, <1>1, <1>2, <1>3 DEF Lists
    <3> QED BY <3>2, <3>3, <1>1, InList
  <2>2. ASSUME NEW s \in Range(sockets) \ {c} PROVE s \in Range(sockets')
    <3>1. PICK i \in 1 .. Len(sockets) : sockets[i] = s
      BY <1>1, InList
    <3>2. i # 1
      BY <3>1, <1>2
    <3>3. i - 1 \in 1 .. Len(sockets) - 1 /\ (i - 1) + 1 = i
      BY <3>2, <1>3
    <3>4. sockets'[i - 1] = s
      BY <3>1, <3>3, <1>4
    <3> QED BY <3>3, <3>4, <1>4, InList, Zenon
  <2> QED BY <2>1, <2>2
<1>8. Range(reserved') = Range(reserved) \cup {c}
  <2>1. ASSUME NEW s \in Range(reserved') PROVE s \in Range(reserved) \cup {c}
    <3>1. PICK i \in 1 .. Len(reserved') : reserved'[i] = s
      BY <1>5, InList, Zenon
    <3>2. CASE i = 1
      BY <3>1, <3>2, <1>5
    <3>3. CASE i # 1
      <4>1. i - 1 \in 1 .. Len(reserved) /\ (i - 1) + 1 = i
        BY <3>3, <1>3, <1>5
      <4>2. reserved[i - 1] = s
        BY <3>1, <4>1, <1>5
      <4> QED BY <4>1, <4>2, <1>1, InList
    <3> QED BY <3>2, <3>3
  <2>2. ASSUME NEW s \in Range(reserved) PROVE s \in Range(reserved')
    <3>1. PICK i \in 1 .. Len(reserved) : reserved[i] = s
      BY <1>1, InList
    <3>2. i + 1 \in 1 .. Len(reserved') /\ reserved'[i + 1] = s
      BY <3>1, <1>3, <1>5
    <3> QED BY <3>2, <1>5, InList, Zenon
  <2>3. c \in Range(reserved')
    <3>1. 1 \in 1 .. Len(reserved')
      BY <1>3, <1>5
    <3> QED BY <3>1, <1>5, InList, Zenon
  <2> QED BY <2>1, <2>2, <2>3
<1>9. Lists'
  <2>1. ASSUME NEW i \in 1 .. Len(sockets'), NEW j \in 1 .. Len(sockets'), sockets'[i] = sockets'[j]
        PROVE  i = j
    <3>1. i + 1 \in 1 .. Len(sockets) /\ j + 1 \in 1 .. Len(sockets) /\ sockets[i + 1] = sockets[j + 1]
      BY <2>1, <1>3, <1>4
    <3>2. i + 1 = j + 1
      BY <3>1, <1>1 DEF Lists
    <3> QED BY <3>2
  <2>2. ASSUME NEW i \in 1 .. Len(reserved'), NEW j \in 1 .. Len(reserved'),
               reserved'[i] = reserved'[j]
        PROVE  i = j
    <3>1. \A k \in 1 .. Len(reserved) : reserved[k] # c
      BY <1>1, <1>6, InList DEF Lists
    <3>2. ASSUME NEW k \in 1 .. Len(reserved'), k # 1
          PROVE  k - 1 \in 1 .. Len(reserved) /\ reserved'[k] = reserved[k - 1]
      <4>1. k - 1 \in 1 .. Len(reserved) /\ (k - 1) + 1 = k
        BY <3>2, <1>3, <1>5
      <4> QED BY <4>1, <1>5
    <3>3. CASE i = 1 /\ j # 1
      BY <2>2, <3>1, <3>2, <3>3, <1>5
    <3>4. CASE i # 1 /\ j = 1
      BY <2>2, <3>1, <3>2, <3>4, <1>5
    <3>5. CASE i # 1 /\ j # 1
      <4>1. i - 1 \in 1 .. Len(reserved) /\ j - 1 \in 1 .. Len(reserved) /\ reserved[i - 1] = reserved[j - 1]
        BY <2>2, <3>2, <3>5
      <4>2. i - 1 = j - 1
        BY <4>1, <1>1, SMTT(30) DEF Lists
      <4> QED BY <4>2
    <3> QED BY <3>3, <3>4, <3>5
  <2>3. Range(sockets') \cap Range(reserved') = {} /\ Range(sockets') \cup Range(reserved') = Slots
    BY <1>1, <1>6, <1>7, <1>8 DEF Lists
  <2> QED BY <2>1, <2>2, <2>3 DEF Lists
<1> QED BY <1>2, <1>4, <1>5, <1>6, <1>7, <1>8, <1>9

\* A client is accepted, with the lowest free descriptor and a free context,
\* or its socket is closed again.
LEMMA ConnectionStep == IInv /\ on_new_connection => IInv'
<1> SUFFICES ASSUME IInv, on_new_connection PROVE IInv'
  OBVIOUS
<1>1. /\ at = "accept" /\ sockets' = Tail(sockets) /\ reserved' = <<Head(sockets)>> \o reserved
      /\ Accepted(Head(sockets)) /\ at' = "write"
      /\ UNCHANGED <<todo, fd, server, stopped>>
  BY DEF on_new_connection, At
<1>2. /\ sockets' \in Seq(Slots) /\ reserved' \in Seq(Slots)
      /\ Head(sockets) \in Range(sockets) /\ Lists'
      /\ Range(reserved') = Range(reserved) \cup {Head(sockets)}
      /\ Range(sockets') = Range(sockets) \ {Head(sockets)}
  BY <1>1, SocketTaken, SMTT(30)
<1>3. /\ descriptor \in [Slots -> Fds \cup {-1}] /\ data \in [Slots -> Contexts \cup {None}]
      /\ state \in [Slots -> States] /\ clients \subseteq Contexts /\ active_fds \subseteq Fds
      /\ Lists /\ Descriptors /\ Owners /\ open = active_fds
      /\ \A s \in Range(sockets) : data[s] = None
      /\ fd \in active_fds
      /\ Range(sockets) \cap Range(reserved) = {}
      /\ Range(reserved) \subseteq Slots /\ Range(sockets) \subseteq Slots
  BY <1>1 DEF IInv, LoopTypes, AtPlace, Lists, Visiting
<1>4. PICK c \in Slots : c = Head(sockets) /\ c \in Range(sockets)
  BY <1>2, <1>3
<1>5. Accepted(c)
  BY <1>1, <1>4
<1>6. None \notin Contexts
  BY DEF None, Contexts
\* The descriptor of the new socket, and the sets of descriptors.
<1>7. PICK d \in Fds \cup {-1} :
        /\ descriptor' = [descriptor EXCEPT ![c] = d]
        /\ d = -1 => active_fds' = active_fds
        /\ d # -1 => d \notin active_fds /\ active_fds' = active_fds \cup {d}
        /\ open' = active_fds'
  <2>1. CASE UNCHANGED fdVars /\ descriptor' = [descriptor EXCEPT ![c] = -1]
    BY <2>1, <1>3, Zenon DEF fdVars
  <2>2. CASE /\ Fds \ open # {} /\ descriptor' = [descriptor EXCEPT ![c] = Lowest]
             /\ active_fds' = active_fds \cup {Lowest} /\ open' = open \cup {Lowest}
    <3>1. Fds \ open \subseteq Nat
      BY LoopAssumption DEF Fds
    <3>2. Lowest \in Fds \ open
      BY <2>2, <3>1, MinOfSet DEF Lowest
    <3>3. Lowest # -1
      BY <3>1, <3>2, SMTT(30)
    <3> QED BY <2>2, <3>2, <3>3, <1>3, Zenon
  <2> QED BY <2>1, <2>2, <1>5 DEF Accepted
\* Its context, if it has one.
<1>8. PICK x \in Contexts \cup {None} :
        /\ data' = [data EXCEPT ![c] = x]
        /\ x # None => x \in clients
        /\ clients' = clients \ {x}
  <2>1. CASE UNCHANGED <<clients, data>>
    <3>1. data' = [data EXCEPT ![c] = None] /\ clients' = clients \ {None}
      BY <2>1, <1>3, <1>4, <1>6
    <3> QED BY <3>1, Zenon
  <2>2. CASE \E ctx \in clients : clients' = clients \ {ctx} /\ data' = [data EXCEPT ![c] = ctx]
    BY <2>2, <1>3, Zenon
  <2> QED BY <2>1, <2>2, <1>5 DEF Accepted, http2_new_client
<1>9. \E v \in {"CONNECTED", "CLOSING"} : state' = [state EXCEPT ![c] = v]
  BY <1>5 DEF Accepted, http2_new_client
<1>10. LoopTypes'
  <2>1. todo' \in Seq(Slots) /\ at' \in Places
    BY <1>1 DEF IInv, LoopTypes, Places
  <2>2. state' \in [Slots -> States]
    BY <1>3, <1>9 DEF States
  <2>3. descriptor' \in [Slots -> Fds \cup {-1}] /\ active_fds' \subseteq Fds
    BY <1>3, <1>7
  <2>4. data' \in [Slots -> Contexts \cup {None}] /\ clients' \subseteq Contexts
    BY <1>3, <1>8
  <2> QED BY <1>2, <2>1, <2>2, <2>3, <2>4 DEF LoopTypes
<1>11. Owners'
  <2>1. \A s \in Slots : data'[s] = IF s = c THEN x ELSE data[s]
    BY <1>3, <1>8
  <2>2. ASSUME NEW s \in Slots PROVE data'[s] \notin clients'
    BY <2>1, <1>3, <1>6, <1>8 DEF Owners
  <2>3. ASSUME NEW ctx \in Contexts \ clients' PROVE \E s \in Slots : data'[s] = ctx
    <3>1. CASE ctx = x
      BY <3>1, <2>1
    <3>2. CASE ctx # x
      <4>1. PICK s \in Slots : data[s] = ctx
        BY <3>2, <1>3, <1>8 DEF Owners
      <4>2. s # c
        BY <4>1, <1>3, <1>4, <1>6
      <4> QED BY <4>1, <4>2, <2>1
    <3> QED BY <3>1, <3>2
  <2>4. ASSUME NEW s \in Slots, NEW t \in Slots, data'[s] = data'[t]
        PROVE  s = t \/ data'[s] = None
    BY <2>1, <2>4, <1>3, <1>8 DEF Owners
  <2> QED BY <2>2, <2>3, <2>4 DEF Owners
<1>12. Descriptors'
  <2>1. \A s \in Slots : descriptor'[s] = IF s = c THEN d ELSE descriptor[s]
    BY <1>3, <1>7
  <2>2. c \notin Range(reserved) /\ Range(reserved') = Range(reserved) \cup {c}
    BY <1>2, <1>3, <1>4
  <2>3. ASSUME NEW s \in Range(reserved'), descriptor'[s] # -1 PROVE descriptor'[s] \in active_fds'
    BY <2>1, <2>2, <2>3, <1>3, <1>7 DEF Descriptors
  <2>4. ASSUME NEW i \in active_fds' PROVE \E s \in Range(reserved') : descriptor'[s] = i
    <3>1. CASE i \in active_fds
      <4>1. PICK s \in Range(reserved) : descriptor[s] = i
        BY <3>1, <1>3 DEF Descriptors
      <4> QED BY <4>1, <2>1, <2>2, <1>3
    <3>2. CASE i \notin active_fds
      BY <3>2, <2>1, <2>2, <1>7
    <3> QED BY <3>1, <3>2
  <2>5. ASSUME NEW s \in Range(reserved'), NEW t \in Range(reserved'),
               descriptor'[s] = descriptor'[t]
        PROVE  s = t \/ descriptor'[s] = -1
    BY <2>1, <2>2, <2>5, <1>3, <1>7 DEF Descriptors
  <2> QED BY <2>3, <2>4, <2>5 DEF Descriptors
<1>13. AtPlace'
  <2>1. \A s \in Range(sockets') : data'[s] = None
    BY <1>2, <1>3, <1>4, <1>8
  <2>2. fd' \in active_fds'
    BY <1>1, <1>3, <1>7
  <2> QED BY <2>1, <2>2, <1>1, <1>2, <1>7, <1>12 DEF AtPlace
<1> QED BY <1>10, <1>11, <1>13 DEF IInv

\* The lists of a loop that is initialised: the server has the first socket.
LEMMA ListsStarted ==
  ASSUME two_server_start
  PROVE  /\ sockets' \in Seq(Slots) /\ reserved' \in Seq(Slots)
         /\ Range(reserved') = {1} /\ Lists'
<1> sockets' = [i \in 1 .. MaxSockets - 1 |-> i + 1] /\ reserved' = <<1>>
  BY DEF two_server_start
<1>1. MaxSockets \in Nat /\ MaxSockets >= 1 /\ 1 \in Slots
  BY LoopAssumption DEF Slots
<1>2. sockets' \in Seq(Slots) /\ Len(sockets') = MaxSockets - 1
  <2>1. MaxSockets - 1 \in Nat /\ \A i \in 1 .. MaxSockets - 1 : i + 1 \in Slots
    BY <1>1 DEF Slots
  <2> QED BY <2>1
<1>3. \A i \in 1 .. MaxSockets - 1 : sockets'[i] = i + 1
  OBVIOUS
<1>4. reserved' \in Seq(Slots) /\ Len(reserved') = 1 /\ reserved'[1] = 1
  BY <1>1
<1>5. Range(reserved') = {1}
  BY <1>4 DEF Range
<1>6. Range(sockets') = 2 .. MaxSockets
  <2>1. ASSUME NEW s \in Range(sockets') PROVE s \in 2 .. MaxSockets
    <3>1. PICK i \in 1 .. Len(sockets') : sockets'[i] = s
      BY <1>2, InList, Zenon
    <3> QED BY <3>1, <1>1, <1>2, <1>3
  <2>2. ASSUME NEW s \in 2 .. MaxSockets PROVE s \in Range(sockets')
    <3>1. s - 1 \in 1 .. MaxSockets - 1 /\ (s - 1) + 1 = s
      BY <1>1
    <3>2. sockets'[s - 1] = s
      BY <3>1, <1>3
    <3> QED BY <3>1, <3>2, <1>2, InList, Zenon
  <2> QED BY <2>1, <2>2, Zenon
<1>7. ASSUME NEW i \in 1 .. Len(sockets'), NEW j \in 1 .. Len(sockets'), sockets'[i] = sockets'[j]
      PROVE  i = j
  <2>1. i \in 1 .. MaxSockets - 1 /\ j \in 1 .. MaxSockets - 1
    BY <1>2, Zenon
  <2>2. sockets'[i] = i + 1 /\ sockets'[j] = j + 1
    BY <1>3, <2>1
  <2> QED BY <1>7, <2>1, <2>2
<1>8. \A i, j \in 1 .. Len(reserved') : reserved'[i] = reserved'[j] => i = j
  BY <1>4
<1>9. Range(sockets') \cap Range(reserved') = {} /\ Range(sockets') \cup Range(reserved') = Slots
  <2>1. (2 .. MaxSockets) \cap {1} = {} /\ (2 .. MaxSockets) \cup {1} = 1 .. MaxSockets
    BY <1>1
  <2> QED BY <1>5, <1>6, <2>1, Zenon DEF Slots
<1> QED BY <1>2, <1>4, <1>5, <1>7, <1>8, <1>9, Zenon DEF Lists

\* The server is started, again or for the first time, or fails to listen.
LEMMA StartStep == IInv /\ two_server_start => IInv'
<1> SUFFICES ASSUME IInv, two_server_start PROVE IInv'
  OBVIOUS
<1>1. /\ at = "idle" /\ open = {} /\ clients = Contexts /\ clients' = Contexts
      /\ server' = 1 /\ stopped' = FALSE /\ data' = [s \in Slots |-> None]
  BY DEF two_server_start, At, IInv, AtPlace
<1>2. /\ sockets' \in Seq(Slots) /\ reserved' \in Seq(Slots)
      /\ Range(reserved') = {1} /\ Lists'
  BY ListsStarted
<1>3. todo \in Seq(Slots) /\ 1 \in Slots
  BY LoopAssumption DEF IInv, LoopTypes, Slots
<1>4. Owners'
  <2>1. None \notin Contexts /\ \A s \in Slots : data'[s] = None
    BY <1>1 DEF None, Contexts
  <2> QED BY <2>1, <1>1 DEF Owners
<1>5. CASE /\ descriptor' = [s \in Slots |-> -1]
           /\ state' = [s \in Slots |-> "CLOSED"]
           /\ active_fds' = {}
           /\ UNCHANGED <<open, at, todo>>
  <2>1. LoopTypes'
    BY <1>1, <1>2, <1>3, <1>5 DEF LoopTypes, States, Places
  <2>2. AtPlace'
    BY <1>1, <1>5 DEF AtPlace, Visiting
  <2> QED BY <1>4, <2>1, <2>2 DEF IInv
<1>6. CASE /\ descriptor' = [s \in Slots |-> IF s = 1 THEN Lowest ELSE -1]
           /\ active_fds' = {Lowest} /\ nfds' = Lowest + 1 /\ open' = open \cup {Lowest}
           /\ state' = [s \in Slots |-> IF s = 1 THEN "LISTENING" ELSE "CLOSED"]
           /\ at' = "timers" /\ todo' = <<1>>
  <2>1. Lowest \in Fds /\ Lowest \in Nat
    <3>1. Fds \ open \subseteq Nat /\ 0 \in Fds \ open
      BY <1>1, LoopAssumption DEF Fds
    <3>2. Lowest \in Fds \ open
      BY <3>1, MinOfSet DEF Lowest
    <3> QED BY <3>1, <3>2
  <2>2. LoopTypes'
    <3>1. state' \in [Slots -> States]
      BY <1>6 DEF States
    <3>2. descriptor' \in [Slots -> Fds \cup {-1}] /\ active_fds' \subseteq Fds
      BY <1>6, <2>1
    <3>3. data' \in [Slots -> Contexts \cup {None}] /\ clients' \subseteq Contexts
      BY <1>1
    <3>4. todo' \in Seq(Slots) /\ at' \in Places
      BY <1>3, <1>6 DEF Places
    <3> QED BY <3>1, <3>2, <3>3, <3>4, <1>2 DEF LoopTypes
  <2>3. Descriptors'
    BY <1>2, <1>3, <1>6, <2>1 DEF Descriptors
  <2>4. AtPlace'
    <3>1. open' = active_fds' /\ \A i \in active_fds' : i < nfds'
      BY <1>1, <1>6, <2>1
    <3>2. Range(sockets') \subseteq Slots
      BY <1>2 DEF Lists
    <3>3. \A s \in Range(sockets') : data'[s] = None
      BY <1>1, <3>2
    <3> QED BY <3>1, <3>3, <1>2, <1>6, <2>3 DEF AtPlace, Visiting
  <2> QED BY <1>4, <2>2, <2>4 DEF IInv
<1> QED BY <1>5, <1>6 DEF two_server_start

\* It holds before the server is started.
LEMMA InitInv == Init => IInv
<1> SUFFICES ASSUME Init PROVE IInv
  OBVIOUS
<1>1. LoopTypes
  BY DEF Init, LoopTypes, States, Places
<1>2. Owners
  BY DEF Init, Owners, None, Contexts
<1>3. AtPlace
  BY DEF Init, AtPlace, Visiting
<1> QED BY <1>1, <1>2, <1>3 DEF IInv

\* Every step of the loop, of the program around it and of its clients.
LEMMA NextInv == IInv /\ [Next]_vars => IInv'
<1>1. ASSUME IInv, UNCHANGED vars PROVE IInv'
  <2> USE DEF vars, poolVars, sockVars, memVars, fdVars, placeVars, worldVars
  <2>1. Quiet
    BY <1>1 DEF Quiet
  <2>2. Placed
    BY <1>1, PlaceKept
  <2>3. Stated
    BY <1>1, StateKept
  <2> QED BY <1>1, <2>1, <2>2, <2>3, QuietStep
<1> QED
  BY <1>1, TimerSteps, ReadSteps, WriteSteps, NotifySteps, PendingSteps, WorldSteps,
     CloseStep, CloseEndStep, ConnectionStep, StartStep DEF Next, Loop

-----------------------------------------------------------------------------
(* The theorems.                                                            *)

\* The invariant holds in every state of the server.
THEOREM Invariant == Spec => []IInv
  BY InitInv, NextInv, PTL DEF Spec

\* No socket is lost by the lists of event_loop_t, and none is in them twice.
THEOREM SocketsConservedThm == Spec => []SocketsConserved
<1>1. IInv => SocketsConserved
  <2> SUFFICES ASSUME IInv, at # "idle"
               PROVE  /\ IsInjective(sockets \o reserved)
                      /\ Range(sockets \o reserved) = Slots
    BY DEF SocketsConserved, Running
  <2>1. sockets \in Seq(Slots) /\ reserved \in Seq(Slots) /\ Lists
    BY DEF IInv, LoopTypes, AtPlace
  <2>2. PICK n \in Nat : n = Len(sockets)
    BY <2>1
  <2>3. PICK m \in Nat : m = Len(reserved)
    BY <2>1
  <2>a. sockets \o reserved \in Seq(Slots)
    BY <2>1
  <2>4. PICK q \in Seq(Slots) : q = sockets \o reserved
    BY <2>a, Zenon
  <2>5. /\ Len(q) = n + m
        /\ \A i \in 1 .. n : q[i] = sockets[i]
        /\ \A i \in 1 .. n + m : i > n => q[i] = reserved[i - n]
    BY <2>1, <2>2, <2>3, <2>4, SMTT(30)
  <2>6. ASSUME NEW i \in 1 .. n PROVE q[i] \in Range(sockets)
    BY <2>1, <2>2, <2>5, InList
  <2>7. ASSUME NEW i \in 1 .. n + m, i > n
        PROVE  i - n \in 1 .. m /\ q[i] = reserved[i - n] /\ q[i] \in Range(reserved)
    <3>1. i - n \in 1 .. m /\ q[i] = reserved[i - n]
      BY <2>5, <2>7
    <3> QED BY <3>1, <2>1, <2>3, InList
  <2>8. ASSUME NEW i \in 1 .. n + m, NEW j \in 1 .. n + m, q[i] = q[j] PROVE i = j
    <3>1. CASE i <= n /\ j <= n
      <4>1. i \in 1 .. n /\ j \in 1 .. n
        BY <3>1
      <4>2. sockets[i] = sockets[j]
        BY <4>1, <2>5, <2>8
      <4> QED BY <4>1, <4>2, <2>1, <2>2 DEF Lists
    <3>2. CASE i > n /\ j > n
      <4>1. i - n = j - n
        <5>1. i - n \in 1 .. m /\ j - n \in 1 .. m /\ reserved[i - n] = reserved[j - n]
          BY <3>2, <2>7, <2>8, Zenon
        <5>2. \A k, l \in 1 .. m : reserved[k] = reserved[l] => k = l
          BY <2>1, <2>3, Zenon DEF Lists
        <5> QED BY <5>1, <5>2, Zenon
      <4> QED BY <4>1, SMTT(30)
    <3>3. CASE i <= n /\ j > n
      <4>1. i \in 1 .. n
        BY <3>3
      <4> QED BY <4>1, <3>3, <2>1, <2>6, <2>7, <2>8 DEF Lists
    <3>4. CASE i > n /\ j <= n
      <4>1. j \in 1 .. n
        BY <3>4
      <4> QED BY <4>1, <3>4, <2>1, <2>6, <2>7, <2>8 DEF Lists
    <3> QED BY <3>1, <3>2, <3>3, <3>4
  <2>9. IsInjective(q)
    BY <2>4, <2>5, <2>8, SMTT(30) DEF IsInjective
  <2>10. ASSUME NEW s \in Slots PROVE s \in Range(q)
    <3>1. CASE s \in Range(sockets)
      <4>1. PICK i \in 1 .. n : sockets[i] = s
        BY <3>1, <2>1, <2>2, InList
      <4>2. i \in 1 .. Len(q) /\ q[i] = s
        BY <4>1, <2>5
      <4> QED BY <4>2, <2>4, InList, Zenon
    <3>2. CASE s \in Range(reserved)
      <4>1. PICK i \in 1 .. m : reserved[i] = s
        BY <3>2, <2>1, <2>3, InList
      <4>2. i + n \in 1 .. n + m /\ i + n > n /\ (i + n) - n = i
        BY <4>1
      <4>3. i + n \in 1 .. Len(q) /\ q[i + n] = s
        BY <4>1, <4>2, <2>5
      <4> QED BY <4>3, <2>4, InList, Zenon
    <3> QED BY <3>1, <3>2, <2>1 DEF Lists
  <2>11. ASSUME NEW s \in Range(q) PROVE s \in Slots
    <3>1. PICK i \in 1 .. Len(q) : q[i] = s
      BY <2>4, InList, Zenon
    <3> QED BY <3>1, <2>4
  <2> QED BY <2>4, <2>9, <2>10, <2>11, Zenon
<1> QED BY <1>1, Invariant, PTL

\* Every descriptor that is open is that of exactly one socket in use, and the
\* poll finds it: the assertion of event_loop_poll cannot fail.
THEOREM DescriptorsMatchThm == Spec => []DescriptorsMatch
<1>1. IInv => DescriptorsMatch
  <2> SUFFICES ASSUME IInv PROVE DescriptorsMatch
    OBVIOUS
  <2>1. -1 \notin active_fds
    BY LoopAssumption DEF IInv, LoopTypes, Fds
  <2>2. CASE at = "idle"
    BY <2>2, SMTT(30) DEF IInv, AtPlace, DescriptorsMatch, Running
  <2>3. CASE at # "idle"
    <3>1. Descriptors /\ open = active_fds
      BY <2>3 DEF IInv, AtPlace
    <3>2. active_fds = {descriptor[s] : s \in Range(reserved)} \ {-1}
      BY <2>1, <3>1, SMTT(30) DEF Descriptors
    <3>3. at \in {"poll", "accept", "write", "notify"}
            => \E s \in Range(reserved) : descriptor[s] = fd
      BY <3>1 DEF IInv, AtPlace, Visiting, Descriptors
    <3> QED BY <2>3, <3>1, <3>2, <3>3 DEF DescriptorsMatch, Descriptors, Running
  <2> QED BY <2>2, <2>3
<1> QED BY <1>1, Invariant, PTL

\* select is given every active descriptor, although event_accept sets nfds to
\* that of the last client.
THEOREM SelectSeesAllThm == Spec => []SelectSeesAll
<1>1. IInv => SelectSeesAll
  BY DEF IInv, AtPlace, SelectSeesAll
<1> QED BY <1>1, Invariant, PTL

\* No context of http2.c is lost or shared, over any number of servers.
THEOREM ContextsConservedThm == Spec => []ContextsConserved
<1>1. IInv => ContextsConserved
  <2> SUFFICES ASSUME IInv PROVE ContextsConserved
    OBVIOUS
  <2>1. /\ data \in [Slots -> Contexts \cup {None}] /\ clients \subseteq Contexts /\ Owners
        /\ at = "idle" => clients = Contexts
    BY DEF IInv, LoopTypes, AtPlace
  <2>2. clients \cap {data[s] : s \in Slots} = {}
    BY <2>1 DEF Owners
  <2>3. None \notin Contexts
    BY DEF None, Contexts
  <2>4. Contexts = clients \cup ({data[s] : s \in Slots} \ {None})
    BY <2>1, <2>3 DEF Owners
  <2> QED BY <2>1, <2>2, <2>4 DEF ContextsConserved, Owners
<1> QED BY <1>1, Invariant, PTL
=============================================================================
