----------------------------- MODULE EventLoop -----------------------------
(***************************************************************************)
(* The event loop of event.c with all its sockets, as the server of two.c  *)
(* runs it: the static lists of sockets, events and write operations, the  *)
(* descriptors given to select, and the order in which one iteration       *)
(*   timers -> poll -> pending -> close                                    *)
(* visits the sockets.  The callbacks are those of http2.c, reduced to     *)
(* what they do to the loop; Http2 has one connection in full.             *)
(*                                                                         *)
(* two_server_stop may be called at any moment: the examples call it from  *)
(* a signal handler.  A second call, while the server's socket is in use,  *)
(* changes nothing.                                                        *)
(*                                                                         *)
(* An assertion that fails ends the program, or is not there (NDEBUG): the *)
(* behaviours are those of both builds.  The one about the operation of a  *)
(* write is followed by the use of the pointer it is about.                *)
(***************************************************************************)
EXTENDS Integers, Sequences, Functions, FiniteSetsExt

CONSTANTS
  MaxSockets,   \* EVENT_MAX_SOCKETS
  MaxEvents,    \* EVENT_MAX_EVENTS
  MaxWrites,    \* EVENT_WRITE_QUEUE_SIZE
  MaxClients,   \* HTTP2_MAX_CLIENTS
  MaxFd,        \* bound: descriptors of the process are 0 .. MaxFd
  MaxConns,     \* bound: connections that are made to one server
  MaxStarts,    \* bound: calls of two_server_start
  MaxQueue      \* bound: operations a callback finds queued when it writes

Slots    == 1 .. MaxSockets
Contexts == 1 .. MaxClients
Fds      == 0 .. MaxFd
None     == 0

ASSUME LoopAssumption ==
  /\ MaxSockets \in Nat \ {0} /\ MaxClients \in Nat
  /\ MaxEvents \in Nat /\ MaxWrites \in Nat
  /\ MaxFd \in Nat /\ MaxConns \in Nat /\ MaxStarts \in Nat /\ MaxQueue \in Nat

Types == {"connection", "read", "write", "timer"}

VARIABLES
  \* event_loop_t
  sockets, reserved, free_events, free_writes, active_fds, nfds,
  \* event_sock_t: state, descriptor, types of its events, queued operations,
  \* whether bytes wait in the read buffer, context (data), and whether that
  \* has sent its SETTINGS
  state, descriptor, events, queue, inbuf, data, greeted,
  \* http2.c: contexts that are free; two.c: the server socket
  clients, server,
  \* the place of the loop ("idle" before two_server_start), sockets still to
  \* visit, descriptor visited, descriptors select was given, operations to notify
  at, todo, fd, polled, done,
  \* the kernel: open descriptors, connections not accepted, all connections
  open, backlog, made,
  \* two_server_stop was called, calls of two_server_start, failed assertion
  stopped, starts, failed

poolVars   == <<sockets, reserved>>
sockVars   == <<state, descriptor, events, queue, inbuf, data, greeted>>
memVars    == <<free_events, free_writes, clients>>
fdVars     == <<active_fds, nfds, open>>
placeVars  == <<at, todo, fd, polled, done>>
worldVars  == <<backlog, made, starts, server>>
vars == <<poolVars, sockVars, memVars, fdVars, placeVars, worldVars, stopped, failed>>

At(p) == at = p /\ failed = "none"

\* The lowest descriptor that is not open.
Lowest == Min(Fds \ open)

-----------------------------------------------------------------------------
(* What the callbacks of http2.c do to their socket s.  q is its queue and  *)
(* rel the operations (0 or 1) that the caller gives back afterwards.       *)

\* Nothing fits into the write buffer, as in that of a closed socket, or an
\* operation is queued.
event_write(s, q, rel, cb) ==
  \/ /\ state[s] # "CONNECTED"
     /\ queue' = [queue EXCEPT ![s] = q] /\ free_writes' = free_writes + rel
     /\ failed' \in {failed, "event_write: state"}
  \/ /\ state[s] = "CONNECTED"
     /\ queue' = [queue EXCEPT ![s] = q] /\ free_writes' = free_writes + rel
     /\ UNCHANGED failed
  \/ /\ state[s] = "CONNECTED" /\ free_writes > 0 /\ Len(q) < MaxQueue
     /\ queue' = [queue EXCEPT ![s] = Append(q, cb)]
     /\ free_writes' = free_writes - 1 + rel
     /\ UNCHANGED failed
  \/ /\ state[s] = "CONNECTED" /\ free_writes = 0
     /\ queue' = [queue EXCEPT ![s] = q] /\ free_writes' = rel
     /\ failed' = "event_write: op"

NoWrite(s, q, rel) ==
  /\ queue' = [queue EXCEPT ![s] = q] /\ free_writes' = free_writes + rel
  /\ UNCHANGED failed

\* The events of s of these types go back to the loop.
Return(s, types) ==
  /\ events' = [events EXCEPT ![s] = @ \ types]
  /\ free_events' = free_events + Cardinality(events[s] \cap types)

event_read_stop(s) ==
  /\ Return(s, {"read"})
  /\ inbuf' = [inbuf EXCEPT ![s] = FALSE]

http2_close_immediate(s) ==
  /\ event_read_stop(s)
  /\ state' = [state EXCEPT ![s] = "CLOSING"]

\* Variant: the pending operations are dropped, not given back.
event_sock_close_drop(s) ==
  /\ \/ /\ "read" \in events[s] \/ queue[s] # <<>>
        /\ http2_close_immediate(s)
     \/ /\ "read" \notin events[s] /\ queue[s] = <<>>
        /\ UNCHANGED <<state, events, free_events, inbuf>>
  /\ queue' = [queue EXCEPT ![s] = <<>>]
  /\ UNCHANGED <<free_writes, failed>>

\* A read or a write failed, or the peer closed: the callback that is told
\* calls http2_close_immediate.
event_sock_close(s) ==
  /\ \/ /\ "read" \in events[s] \/ queue[s] # <<>>
        /\ http2_close_immediate(s)
     \/ /\ "read" \notin events[s] /\ queue[s] = <<>>
        /\ UNCHANGED <<state, events, free_events, inbuf>>
  /\ queue' = [queue EXCEPT ![s] = <<>>]
  /\ free_writes' = free_writes + Len(queue[s])
  /\ UNCHANGED failed

-----------------------------------------------------------------------------
(* The server is started and stopped; clients connect.                      *)

\* event_loop_init, event_sock_create and event_listen, which may fail.
two_server_start ==
  /\ At("idle") /\ starts < MaxStarts
  /\ starts' = starts + 1
  /\ server' = 1
  /\ sockets' = [i \in 1 .. MaxSockets - 1 |-> i + 1] /\ reserved' = <<1>>
  /\ free_writes' = MaxWrites
  /\ queue' = [s \in Slots |-> <<>>] /\ inbuf' = [s \in Slots |-> FALSE]
  /\ data' = [s \in Slots |-> None] /\ greeted' = [s \in Slots |-> FALSE]
  /\ \/ /\ descriptor' = [s \in Slots |-> -1]
        /\ state' = [s \in Slots |-> "CLOSED"]
        /\ events' = [s \in Slots |-> {}] /\ free_events' = MaxEvents
        /\ active_fds' = {} /\ nfds' = 0
        /\ UNCHANGED <<open, at, todo>>
     \/ /\ descriptor' = [s \in Slots |-> IF s = 1 THEN Lowest ELSE -1]
        /\ active_fds' = {Lowest} /\ nfds' = Lowest + 1 /\ open' = open \cup {Lowest}
        /\ state' = [s \in Slots |-> IF s = 1 THEN "LISTENING" ELSE "CLOSED"]
        /\ events' = [s \in Slots |-> IF s = 1 THEN {"connection"} ELSE {}]
        /\ free_events' = MaxEvents - 1
        /\ at' = "timers" /\ todo' = <<1>>
  /\ stopped' = FALSE /\ backlog' = 0 /\ made' = 0
  /\ UNCHANGED <<clients, fd, polled, done, failed>>

\* event_close of the server socket.
two_server_stop ==
  /\ at # "idle" /\ failed = "none" /\ ~stopped
  /\ stopped' = TRUE
  /\ state' = [state EXCEPT ![server] = "CLOSING"]
  /\ UNCHANGED <<poolVars, descriptor, events, queue, inbuf, data, greeted, memVars, fdVars,
                 placeVars, worldVars, failed>>

\* The kernel completes a connection to the server's descriptor.
connect ==
  /\ at # "idle" /\ failed = "none" /\ server \in Range(reserved)
  /\ made < MaxConns
  /\ made' = made + 1 /\ backlog' = backlog + 1
  /\ UNCHANGED <<poolVars, sockVars, memVars, fdVars, placeVars, starts, server, stopped,
                 failed>>

-----------------------------------------------------------------------------
(* Timers.                                                                  *)

\* on_settings_timeout calls http2_error and asks for the timer's removal.
on_settings_timeout ==
  /\ At("timers") /\ todo # <<>> /\ "timer" \in events[Head(todo)]
  /\ LET s == Head(todo)
     IN /\ Return(s, {"read", "timer"})
        /\ inbuf' = [inbuf EXCEPT ![s] = FALSE]
        /\ event_write(s, queue[s], 0, "close_on_goaway_sent")
  /\ todo' = Tail(todo)
  /\ UNCHANGED <<poolVars, state, descriptor, data, greeted, clients, fdVars, at, fd, polled,
                 done, worldVars, stopped>>

event_loop_timers ==
  /\ At("timers")
  /\ \/ /\ todo # <<>>
        /\ todo' = Tail(todo) /\ UNCHANGED at
     \/ /\ todo = <<>>
        /\ at' = "select" /\ UNCHANGED todo
  /\ UNCHANGED <<poolVars, sockVars, memVars, fdVars, fd, polled, done, worldVars, stopped,
                 failed>>

-----------------------------------------------------------------------------
(* Polling.                                                                 *)

\* Variant: the loop stops one descriptor before nfds.
After_short(i) == {j \in active_fds : j > i /\ j < nfds - 1}

\* The descriptors after i that the poll still visits; nfds is read anew.
After(i) == {j \in active_fds : j > i /\ j < nfds}

\* The poll goes on behind descriptor i.
Advance(i) ==
  \/ /\ After(i) # {}
     /\ at' = "poll" /\ fd' = Min(After(i)) /\ UNCHANGED todo
  \/ /\ After(i) = {}
     /\ at' = "pending" /\ todo' = reserved /\ UNCHANGED fd

\* select may be interrupted; else it is given all active descriptors below
\* nfds.  Whether one of them is ready is chosen when it is visited.
event_loop_poll ==
  /\ At("select")
  /\ \/ /\ polled' = {i \in active_fds : i < nfds}
        /\ Advance(-1)
     \/ /\ at' = "pending" /\ todo' = reserved
        /\ UNCHANGED <<polled, fd>>
  /\ UNCHANGED <<poolVars, sockVars, memVars, fdVars, done, worldVars, stopped, failed>>

\* event_sock_find; event_loop_poll asserts that there is one, and no two have
\* the same descriptor (DescriptorsMatch).
Visited == CHOOSE s \in Range(reserved) : descriptor[s] = fd

\* A client is waiting and there is a socket for it.  (One that connects after
\* select has returned is, to the loop, one that connects after this visit.)
MayAccept ==
  fd \in polled /\ state[Visited] = "LISTENING" /\ backlog > 0 /\ sockets # <<>>

\* Nothing to read, or nobody to read it.
event_sock_read_none ==
  /\ At("poll") /\ ~MayAccept
  /\ at' = "write"
  /\ UNCHANGED <<poolVars, sockVars, memVars, fdVars, todo, fd, polled, done, worldVars,
                 stopped, failed>>

event_sock_read ==
  /\ At("poll") /\ fd \in polled
  /\ state[Visited] = "CONNECTED" /\ "read" \in events[Visited]
  /\ \/ /\ inbuf' = [inbuf EXCEPT ![Visited] = TRUE]
        /\ UNCHANGED <<state, events, queue, free_events, free_writes, failed>>
     \/ event_sock_close(Visited)
  /\ at' = "write"
  /\ UNCHANGED <<poolVars, descriptor, data, greeted, clients, fdVars, todo, fd, polled, done,
                 worldVars, stopped>>

event_sock_connect ==
  /\ At("poll") /\ MayAccept
  /\ at' = "accept"
  /\ UNCHANGED <<poolVars, sockVars, memVars, fdVars, todo, fd, polled, done, worldVars,
                 stopped, failed>>

\* http2_new_client for socket c: a context and two events, or no context.
http2_new_client(c) ==
  \/ /\ clients # {}
     /\ \E ctx \in clients :
          /\ clients' = clients \ {ctx}
          /\ data' = [data EXCEPT ![c] = ctx]
     /\ events' = [events EXCEPT ![c] = {"read", "write"}]
     /\ free_events' = free_events - 2
     /\ state' = [state EXCEPT ![c] = "CONNECTED"]
  \/ /\ clients = {}
     /\ state' = [state EXCEPT ![c] = "CLOSING"]
     /\ UNCHANGED <<clients, data, events, free_events>>

\* event_accept for socket c, and http2_new_client.  accept may fail: without
\* a descriptor the connection stays in the backlog, else it is gone.
Accepted(c) ==
  \/ /\ Fds \ open # {}
     /\ descriptor' = [descriptor EXCEPT ![c] = Lowest]
     /\ nfds' = Lowest + 1
     /\ active_fds' = active_fds \cup {Lowest} /\ open' = open \cup {Lowest}
     /\ http2_new_client(c)
     /\ backlog' = backlog - 1
  \/ /\ descriptor' = [descriptor EXCEPT ![c] = -1]
     /\ state' = [state EXCEPT ![c] = "CLOSING"]
     /\ backlog' = IF Fds \ open = {} THEN backlog ELSE backlog - 1
     /\ UNCHANGED <<fdVars, clients, data, events, free_events>>

\* event_sock_create, whose fields are clear, and event_accept.  Without
\* assertions it does not matter whether the server was stopped since its
\* state was looked at.
on_new_connection ==
  /\ At("accept")
  /\ sockets' = Tail(sockets) /\ reserved' = <<Head(sockets)>> \o reserved
  /\ Accepted(Head(sockets))
  /\ at' = "write"
  /\ UNCHANGED <<queue, inbuf, greeted, free_writes, todo, fd, polled, done, made, starts,
                 server, stopped, failed>>

\* With them it does.
event_accept ==
  /\ At("accept") /\ state[Visited] # "LISTENING"
  /\ failed' = "event_accept: state"
  /\ UNCHANGED <<poolVars, sockVars, memVars, fdVars, placeVars, worldVars, stopped>>

\* Not ready, nothing to write, or no operation is complete.
event_sock_write_none ==
  /\ At("write")
  /\ Advance(fd)
  /\ UNCHANGED <<poolVars, sockVars, memVars, fdVars, polled, done, worldVars, stopped, failed>>

\* n operations are complete.
event_sock_write ==
  /\ At("write") /\ fd \in polled /\ "write" \in events[Visited]
  /\ \E n \in 1 .. Len(queue[Visited]) : done' = n
  /\ at' = "notify"
  /\ UNCHANGED <<poolVars, sockVars, memVars, fdVars, todo, fd, polled, worldVars, stopped,
                 failed>>

event_sock_write_error ==
  /\ At("write") /\ fd \in polled /\ "write" \in events[Visited]
  /\ event_sock_close(Visited)
  /\ Advance(fd)
  /\ UNCHANGED <<poolVars, descriptor, data, greeted, clients, fdVars, polled, done,
                 worldVars, stopped>>

\* The callback of the oldest operation runs; one that continues a response
\* may write again.
event_sock_handle_write ==
  /\ At("notify") /\ done > 0
  /\ LET s  == Visited
         cb == Head(queue[s])
         q  == Tail(queue[s])
     IN \/ /\ cb = "on_settings_sent"
           /\ events' = [events EXCEPT ![s] = @ \cup {"timer"}]
           /\ free_events' = free_events - 1
           /\ NoWrite(s, q, 1)
           /\ UNCHANGED <<state, inbuf>>
        \/ /\ cb = "close_on_goaway_sent"
           /\ http2_close_immediate(s)
           /\ NoWrite(s, q, 1)
        \/ /\ cb = "close_on_write_error"
           /\ NoWrite(s, q, 1) \/ event_write(s, q, 1, cb)
           /\ UNCHANGED <<state, events, inbuf, free_events>>
  /\ done' = done - 1
  /\ UNCHANGED <<poolVars, descriptor, data, greeted, clients, fdVars, at, todo, fd, polled,
                 worldVars, stopped>>

event_sock_handle_write_end ==
  /\ At("notify") /\ done = 0
  /\ Advance(fd)
  /\ UNCHANGED <<poolVars, sockVars, memVars, fdVars, polled, done, worldVars, stopped, failed>>

-----------------------------------------------------------------------------
(* Pending reads, and the end of the iteration.                             *)

\* The read callback of http2.c for a socket with bytes in its buffer, one
\* step per frame that matters to the loop: it may use all of them, answer
\* (first with its SETTINGS), stop the timer on an acknowledgement, give up
\* with a GOAWAY with or without reading on, or close.  It goes on while it
\* has bytes, or returns and leaves them.
event_sock_handle_read ==
  /\ At("pending") /\ todo # <<>>
  /\ LET s == Head(todo)
     IN /\ "read" \in events[s] /\ inbuf[s]
        /\ \/ /\ inbuf' = [inbuf EXCEPT ![s] = FALSE]
              /\ UNCHANGED <<state, events, free_events, queue, free_writes, greeted, failed>>
           \/ /\ greeted' = [greeted EXCEPT ![s] = TRUE]
              /\ event_write(s, queue[s], 0, IF greeted[s] THEN "close_on_write_error"
                                             ELSE "on_settings_sent")
              /\ UNCHANGED <<state, events, free_events, inbuf>>
           \/ /\ greeted[s] /\ "timer" \in events[s]
              /\ Return(s, {"timer"})
              /\ UNCHANGED <<state, inbuf, queue, free_writes, greeted, failed>>
           \/ /\ greeted[s]
              /\ event_write(s, queue[s], 0, "close_on_goaway_sent")
              /\ \/ event_read_stop(s)
                 \/ UNCHANGED <<events, free_events, inbuf>>
              /\ UNCHANGED <<state, greeted>>
           \/ /\ http2_close_immediate(s)
              /\ UNCHANGED <<queue, free_writes, greeted, failed>>
        /\ todo' = Tail(todo) \/ (inbuf'[s] /\ todo' = todo)
  /\ UNCHANGED <<poolVars, descriptor, data, clients, fdVars, at, fd, polled, done,
                 worldVars, stopped>>

\* No bytes, nobody to read them, or not yet enough of them.
event_loop_pending ==
  /\ At("pending")
  /\ \/ /\ todo # <<>>
        /\ todo' = Tail(todo) /\ UNCHANGED <<at, fd, polled>>
     \/ /\ todo = <<>>
        /\ at' = "close" /\ todo' = reserved /\ fd' = 0 /\ polled' = {}
  /\ UNCHANGED <<poolVars, sockVars, memVars, fdVars, done, worldVars, stopped, failed>>

\* Variant: a socket without a write event is not closed.
Closable_writers(s) == state[s] = "CLOSING" /\ "write" \in events[s] /\ queue[s] = <<>>

\* Variant: a socket whose timer is running is not closed.
Closable_untimed(s) == state[s] = "CLOSING" /\ "timer" \notin events[s] /\ queue[s] = <<>>

Closable(s) == state[s] = "CLOSING" /\ queue[s] = <<>>

\* The socket that event_loop_close visits.
Curr == Head(todo)

\* Its field f gets the value v.  In the list of free sockets the field means
\* nothing: it is cleared when a socket is taken.
Cleared(f, v) == [f EXCEPT ![Curr] = v]

\* The sockets in use that were visited before, which are kept.
Before == SubSeq(reserved, 1, Len(reserved) - Len(todo))

\* Variant: the head of the list of sockets in use is not updated.
ReleaseSocket_head ==
  /\ sockets' = <<Curr>> \o sockets
  /\ reserved' = IF Before = <<>> THEN reserved ELSE Before \o Tail(todo)

\* The socket goes to the list of free ones, its successor takes its place.
ReleaseSocket ==
  /\ sockets' = <<Curr>> \o sockets
  /\ reserved' = Before \o Tail(todo)

\* Variant: the events stay with the socket that is closed.
ReleaseEvents_none == events' = Cleared(events, {}) /\ UNCHANGED free_events

ReleaseEvents ==
  /\ events' = Cleared(events, {})
  /\ free_events' = free_events + Cardinality(events[Curr])

\* Variant: the context is not given back.
http2_on_client_close_none == data' = Cleared(data, None) /\ UNCHANGED clients

http2_on_client_close ==
  /\ data' = Cleared(data, None)
  /\ clients' = clients \cup ({data[Curr]} \ {None})

\* Variant: the descriptor stays in the set given to select.
CloseDescriptor_active ==
  /\ open' = open \ {descriptor[Curr]}
  /\ UNCHANGED active_fds

CloseDescriptor ==
  /\ active_fds' = active_fds \ {descriptor[Curr]} /\ open' = open \ {descriptor[Curr]}

\* A socket that is closing and has nothing left to write goes back to its
\* list, with its events and its context.
event_loop_close ==
  /\ At("close") /\ todo # <<>> /\ Closable(Curr)
  /\ ReleaseSocket /\ ReleaseEvents /\ CloseDescriptor /\ http2_on_client_close
  /\ state' = Cleared(state, "CLOSED") /\ descriptor' = Cleared(descriptor, -1)
  /\ inbuf' = Cleared(inbuf, FALSE) /\ greeted' = Cleared(greeted, FALSE)
  /\ todo' = Tail(todo)
  /\ UNCHANGED <<queue, free_writes, nfds, at, fd, polled, done, worldVars, stopped, failed>>

event_loop_close_none ==
  /\ At("close") /\ todo # <<>> /\ ~Closable(Curr)
  /\ todo' = Tail(todo)
  /\ UNCHANGED <<poolVars, sockVars, memVars, fdVars, at, fd, polled, done, worldVars,
                 stopped, failed>>

\* Variant: nfds is left as event_accept has set it.
UpdateMaxFd_none == UNCHANGED nfds

\* The sockets that were kept are those that are in use now.
UpdateMaxFd == nfds' = Max({descriptor[s] : s \in Range(reserved)} \cup {-1}) + 1

\* The loop ends when no socket is in use.
event_loop_close_end ==
  /\ At("close") /\ todo = <<>>
  /\ UpdateMaxFd
  /\ at' = IF reserved = <<>> THEN "idle" ELSE "timers"
  /\ todo' = reserved
  /\ UNCHANGED <<poolVars, sockVars, memVars, active_fds, open, fd, polled, done, worldVars,
                 stopped, failed>>

-----------------------------------------------------------------------------
Init ==
  /\ sockets = <<>> /\ reserved = <<>> /\ free_events = 0 /\ free_writes = 0
  /\ active_fds = {} /\ nfds = 0
  /\ state = [s \in Slots |-> "CLOSED"] /\ descriptor = [s \in Slots |-> -1]
  /\ events = [s \in Slots |-> {}] /\ queue = [s \in Slots |-> <<>>]
  /\ inbuf = [s \in Slots |-> FALSE] /\ data = [s \in Slots |-> None]
  /\ greeted = [s \in Slots |-> FALSE]
  /\ clients = Contexts /\ server = None
  /\ at = "idle" /\ todo = <<>> /\ fd = 0 /\ polled = {} /\ done = 0
  /\ open = {} /\ backlog = 0 /\ made = 0
  /\ stopped = FALSE /\ starts = 0 /\ failed = "none"

Loop ==
  \/ on_settings_timeout \/ event_loop_timers
  \/ event_loop_poll
  \/ event_sock_read_none \/ event_sock_read \/ event_sock_connect
  \/ on_new_connection \/ event_accept
  \/ event_sock_write_none \/ event_sock_write \/ event_sock_write_error
  \/ event_sock_handle_write \/ event_sock_handle_write_end
  \/ event_sock_handle_read \/ event_loop_pending
  \/ event_loop_close \/ event_loop_close_none \/ event_loop_close_end

Next == Loop \/ two_server_start \/ two_server_stop \/ connect

Spec == Init /\ [][Next]_vars

\* The loop goes round, its polls are not always interrupted, and a socket
\* that has something to write can write it or fails.
Fairness ==
  /\ WF_vars(Loop)
  /\ SF_vars(event_loop_poll /\ at' # "pending")
  /\ \A s \in Slots : SF_vars((event_sock_write \/ event_sock_write_error) /\ Visited = s)

FairSpec == Spec /\ Fairness

-----------------------------------------------------------------------------
Running == at # "idle"

\* Every socket is in one of the loop's two lists, once: neither accepting
\* nor the removal from the list that event_loop_close walks loses one.
SocketsConserved ==
  Running => /\ IsInjective(sockets \o reserved)
             /\ Range(sockets \o reserved) = Slots

\* The events that the sockets have, and the operations in their queues.
Taken  == {p \in Slots \X Types : p[2] \in events[p[1]]}
Queued == {p \in Slots \X (1 .. MaxQueue) : p[2] <= Len(queue[p[1]])}

\* Events and write operations are in the loop's lists or belong to a socket
\* in use; an operation whose callback runs is given back by its caller.
PoolsConserved ==
  Running =>
    /\ free_events + Cardinality(Taken) = MaxEvents
    /\ free_writes + Cardinality(Queued) = MaxWrites
    /\ \A s \in Range(sockets) : events[s] = {} /\ queue[s] = <<>>

\* One event for the server and three for each client are enough, fewer than
\* EVENT_MAX_EVENTS: every caller of event_find_free asserts that it gets one,
\* so none may be taken from an empty list.
EventsSuffice == free_events >= 0

\* The descriptors select is given are those of the sockets in use, one each,
\* the poll finds the socket of each of them (the assertion of
\* event_loop_poll), and no other descriptor is left open, also when the loop
\* has returned.
DescriptorsMatch ==
  /\ open = IF Running THEN active_fds ELSE {}
  /\ Running =>
       /\ active_fds = {descriptor[s] : s \in Range(reserved)} \ {-1}
       /\ \A s, t \in Range(reserved) : descriptor[s] = descriptor[t] => s = t \/ descriptor[s] = -1
       /\ at \in {"poll", "accept", "write", "notify"}
            => \E s \in Range(reserved) : descriptor[s] = fd

\* When select is called, nfds is above every descriptor: event_accept may
\* have lowered it, event_loop_close has put it right.
SelectSeesAll == at = "select" => \A i \in active_fds : i < nfds

\* A context is in use by exactly one socket that is not yet closed, and the
\* loop returns with all contexts free: they outlive it.
ContextsConserved ==
  /\ clients \cap {data[s] : s \in Slots} = {}
  /\ Contexts = clients \cup ({data[s] : s \in Slots} \ {None})
  /\ \A s, t \in Slots : data[s] = data[t] => s = t \/ data[s] = None
  /\ at = "idle" => clients = Contexts

\* An assertion has ended the program.
Aborted == failed # "none"

\* A stopped server's socket is closed and on_server_close called.
StopCloses == stopped ~> (at = "idle" \/ server \notin Range(reserved) \/ Aborted)

\* A connection waiting while a socket is free is accepted, or refused because
\* the server stops, unless there is no descriptor for it.
WaitingAccepted ==
  \A n \in 1 .. MaxConns :
    (backlog = n /\ sockets # <<>>)
      ~> (backlog < n \/ stopped \/ open = Fds \/ Aborted)

\* A socket that is closing gives its slot back.
ClosingReleases ==
  \A s \in Slots : state[s] = "CLOSING" ~> (state[s] = "CLOSED" \/ Aborted)
=============================================================================
