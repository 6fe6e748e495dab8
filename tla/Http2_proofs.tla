---------------------------- MODULE Http2_proofs ----------------------------
(***************************************************************************)
(* Proofs about a connection, for all sizes and for any peer: whatever it  *)
(* sends, in whatever batches, and whenever its socket fails.              *)
(***************************************************************************)
EXTENDS Http2, TLAPS
----------------------------------------------------------------------------
(* Sequences.                                                               *)

\* The empty sequence, and the length of the others.
LEMMA EmptyFacts ==
  ASSUME NEW S
  PROVE  << >> \in Seq(S) /\ Len(<< >>) = 0 /\ \A q \in Seq(S) : q # << >> => Len(q) \in Nat \ {0}
  OBVIOUS

\* The length of a sequence, and its elements.
LEMMA LenFacts ==
  ASSUME NEW S, NEW q \in Seq(S)
  PROVE  Len(q) \in Nat /\ DOMAIN q = 1 .. Len(q) /\ \A i \in 1 .. Len(q) : q[i] \in S
  OBVIOUS

\* A queue without its first element.
LEMMA TailFacts ==
  ASSUME NEW S, NEW q \in Seq(S), q # << >>
  PROVE  /\ Head(q) \in S /\ Tail(q) \in Seq(S) /\ Len(Tail(q)) = Len(q) - 1
         /\ \A i \in 1 .. Len(q) - 1 : Tail(q)[i] = q[i + 1]
  OBVIOUS

\* A queue with one more element.
LEMMA AppendFacts ==
  ASSUME NEW S, NEW q \in Seq(S), NEW x \in S
  PROVE  /\ Append(q, x) \in Seq(S) /\ Append(q, x) # << >> /\ Len(Append(q, x)) = Len(q) + 1
         /\ Append(q, x)[Len(q) + 1] = x /\ \A i \in 1 .. Len(q) : Append(q, x)[i] = q[i]
  OBVIOUS

\* Two queues, one after the other.
LEMMA ConcatFacts ==
  ASSUME NEW S, NEW q \in Seq(S), NEW r \in Seq(S)
  PROVE  /\ q \o r \in Seq(S) /\ Len(q \o r) = Len(q) + Len(r)
         /\ \A i \in 1 .. Len(q) : (q \o r)[i] = q[i]
         /\ \A i \in 1 .. Len(r) : (q \o r)[Len(q) + i] = r[i]
  OBVIOUS

\* Sequences with the same elements are the same.
LEMMA SameElements ==
  ASSUME NEW S, NEW q \in Seq(S), NEW r \in Seq(S),
         Len(q) = Len(r), \A i \in 1 .. Len(q) : q[i] = r[i]
  PROVE  q = r
  OBVIOUS


\* How the places of the loop, the socket and the context go together.
Control ==
  /\ phase = "free" <=> sock = "CLOSED"
  /\ phase = "free" => queue = <<>> /\ timer = "off" /\ read_cb = "none"
  /\ phase \in {"waiting_for_preface", "waiting_for_settings"}
       => read_cb = phase /\ inbuf # <<>>
  /\ phase = "update_first" => read_cb = "waiting_for_settings"
  /\ failed = "none" => (state = "CLOSED" <=> sock # "CONNECTED")
  /\ stream_id = last_opened_stream_id

\* What event_write and the return of operations keep together.
Written == WriteTypes /\ PoolConserved

\* The inductive invariant.
IInv ==
  /\ CtxTypes /\ StreamTypes /\ SockTypes /\ CallTypes /\ PeerTypes
  /\ Written
  /\ SettingsTimed /\ ReadsWhileOpen /\ Control

----------------------------------------------------------------------------
(* Writing *)

\* A frame of one of the send_* functions of frames.c.
SentFrames == [kind : SentKinds, sid : StreamIds \cup {0}, es : BOOLEAN, size : Nat \ {0}]

\* The sizes of the write buffer and of the pool of operations.
LEMMA Sizes ==
  WriteSize \in Nat /\ WriteOps \in Nat /\ 0 \in 0 .. WriteSize /\ 0 \in 0 .. WriteOps
  BY SizesAssumption

\* The send_* functions of frames.c build frames of some size.
LEMMA FrameType ==
  ASSUME NEW kind \in SentKinds, NEW sid \in StreamIds \cup {0}, NEW es \in BOOLEAN,
         NEW len \in Nat
  PROVE  Frame(kind, sid, es, len) \in SentFrames
  BY SizesAssumption DEF Frame, SentFrames

\* The history of a stream stays one of the known ones.
LEMMA FollowType ==
  ASSUME NEW r \in Answers, NEW fr \in SentFrames
  PROVE  Follow(r, fr) \in Answers
  BY DEF Follow, Answers, SentFrames

\* A queue from which the caller may have taken its own operation.
Taken(q, rel) == q \in Seq(Op) /\ rel \in {0, 1} /\ Len(q) = in_use - rel

\* event_write keeps the write buffer within its size, and the operations
\* taken from the pool are those in the queue (event.c:747-790).
LEMMA EventWrite ==
  ASSUME Written, wopen \in BOOLEAN,
         NEW q, NEW rel, Taken(q, rel),
         NEW fr \in SentFrames, NEW cb \in Callbacks,
         event_write(q, rel, fr, cb)
  PROVE  /\ Written'
         /\ failed' = "none" => failed = "none" /\ sock = "CONNECTED"
<1> DEFINE room == IF wopen THEN WriteSize - wlen ELSE 0
           n    == Min(room, fr.size)
           op   == [cb |-> cb, bytes |-> n, kind |-> fr.kind, sid |-> fr.sid,
                    es |-> fr.es]
<1>0. WriteOps \in Nat /\ in_use \in 0 .. WriteOps
  BY SizesAssumption, Zenon DEF Written, WriteTypes
<1>1. /\ wlen \in 0 .. WriteSize /\ WriteSize \in Nat
      /\ resp \in [StreamIds -> Answers] /\ lost \subseteq SentKinds
      /\ failed \in {"none", "event_write: state", "event_write: op",
                     "event_read: event"}
  BY SizesAssumption, Zenon DEF Written, WriteTypes, PoolConserved
<1>2. q \in Seq(Op) /\ rel \in {0, 1} /\ Len(q) = in_use - rel
  BY DEF Taken
<1>3. fr.kind \in SentKinds /\ fr.sid \in StreamIds \cup {0} /\ fr.es \in BOOLEAN
      /\ fr.size \in Nat \ {0}
  BY DEF SentFrames
<1>4. n \in Int /\ n <= fr.size /\ (n > 0 => wlen + n \in 0 .. WriteSize)
  <2>1. ASSUME NEW w \in Nat, NEW l \in 0 .. w, NEW z \in Nat \ {0}, NEW o \in BOOLEAN,
               NEW m, m = Min(IF o THEN w - l ELSE 0, z)
        PROVE  m \in Int /\ m <= z /\ (m > 0 => l + m \in 0 .. w)
    BY <2>1 DEF Min
  <2> QED
    BY <1>1, <1>3, <2>1, Zenon
<1>5. in_use - rel \in 0 .. WriteOps
  <2>1. Len(q) \in Nat
    BY <1>2, LenFacts
  <2> QED
    BY <1>0, <1>2, <2>1
<1>10. lost \cup {fr.kind} \subseteq SentKinds
  BY <1>1, <1>3, Zenon
<1>6. CASE sock # "CONNECTED" /\ failed' = "event_write: state" /\ queue' = q
           /\ in_use' = in_use - rel /\ UNCHANGED <<wlen, resp, lost>>
  BY <1>1, <1>2, <1>5, <1>6, Zenon DEF Written, WriteTypes, PoolConserved
<1>7. CASE sock = "CONNECTED" /\ queue' = q /\ in_use' = in_use - rel
           /\ lost' = lost \cup {fr.kind} /\ UNCHANGED <<wlen, resp, failed>>
  BY <1>1, <1>2, <1>5, <1>7, <1>10, Zenon DEF Written, WriteTypes, PoolConserved
<1>8. CASE n > 0 /\ failed' = "event_write: op" /\ queue' = q
           /\ in_use' = in_use - rel /\ wlen' = wlen + n /\ UNCHANGED <<resp, lost>>
  BY <1>1, <1>2, <1>4, <1>5, <1>8, Zenon DEF Written, WriteTypes, PoolConserved
<1>9. CASE /\ sock = "CONNECTED" /\ n > 0 /\ in_use < WriteOps
           /\ queue' = Append(q, op) /\ wlen' = wlen + n
           /\ in_use' = in_use + 1 - rel
           /\ lost' = IF n < fr.size THEN lost \cup {fr.kind} ELSE lost
           /\ resp' = IF fr.sid \in StreamIds
                      THEN [resp EXCEPT ![fr.sid] = Follow(@, fr)] ELSE resp
           /\ UNCHANGED failed
  <2> HIDE DEF n
  <2>1. op \in Op
    BY <1>3, <1>4, <1>9 DEF Op
  <2> HIDE DEF op
  <2>2. queue' \in Seq(Op) /\ Len(queue') = in_use'
    <3>1. Append(q, op) \in Seq(Op) /\ Len(Append(q, op)) = Len(q) + 1
      BY <1>2, <2>1, AppendFacts
    <3>2. (in_use - rel) + 1 = in_use + 1 - rel
      BY <1>0, <1>2
    <3> QED
      BY <1>2, <1>9, <3>1, <3>2
  <2>3. in_use' \in 0 .. WriteOps
    <3>1. in_use' = in_use + 1 - rel /\ in_use < WriteOps
      BY <1>9
    <3> QED
      BY <1>0, <1>2, <3>1
  <2>6. wlen' \in 0 .. WriteSize
    BY <1>4, <1>9
  <2>4. resp' \in [StreamIds -> Answers]
    BY <1>1, <1>9, FollowType, Zenon
  <2>5. lost' \subseteq SentKinds
    BY <1>1, <1>9, <1>10, Zenon
  <2> QED
    BY <1>1, <1>9, <2>2, <2>3, <2>4, <2>5, <2>6, Zenon DEF Written, WriteTypes, PoolConserved
<1> QED
  BY <1>6, <1>7, <1>8, <1>9, Zenon DEF event_write

\* A write callback that writes nothing gives its operation back (event.c:165-173).
LEMMA NoWriteKeeps ==
  ASSUME Written, NEW q, NEW rel, Taken(q, rel), NoWrite(q, rel)
  PROVE  Written'
<1>1. /\ in_use \in 0 .. WriteOps /\ WriteOps \in Nat
      /\ q \in Seq(Op) /\ rel \in {0, 1} /\ Len(q) = in_use - rel
  BY SizesAssumption, Zenon DEF Written, WriteTypes, Taken
<1>2. Len(q) \in Nat
  BY <1>1
<1>3. in_use - rel \in 0 .. WriteOps
  BY <1>1, <1>2
<1> QED
  BY <1>1, <1>3, Zenon DEF NoWrite, Written, WriteTypes, PoolConserved

\* The queue itself, for a caller that is no write callback; and the queue
\* without its head, for one that is.
LEMMA TakenQueue ==
  ASSUME Written
  PROVE  /\ Taken(queue, 0)
         /\ queue # <<>> => Taken(Tail(queue), 1)
<1>1. queue \in Seq(Op) /\ in_use = Len(queue)
  BY Zenon DEF Written, WriteTypes, PoolConserved
<1>2. Len(queue) \in Nat
  BY <1>1, LenFacts
<1>3. ASSUME queue # <<>> PROVE Tail(queue) \in Seq(Op) /\ Len(Tail(queue)) = Len(queue) - 1
  BY <1>1, <1>3, TailFacts
<1> QED
  BY <1>1, <1>2, <1>3 DEF Taken

\* http2_error leaves a context that is closing, that reads nothing more and
\* whose settings are no longer awaited (http2.c:168-184).
LEMMA ErrorKeeps ==
  ASSUME IInv, http2_error(queue, 0)
  PROVE  /\ Written'
         /\ state' = "CLOSING" /\ read_cb' = "none"
         /\ flags' \subseteq Flags /\ "WAITING_SETTINGS_ACK" \notin flags'
         /\ failed' = "none" => sock = "CONNECTED"
         /\ sock' = sock /\ wopen' = wopen
         /\ window_size' = window_size /\ initial_window_size' = initial_window_size
<1>1. Frame("GOAWAY", 0, FALSE, 0) \in SentFrames
  BY FrameType, Zenon DEF SentKinds
<1>2. Written /\ wopen \in BOOLEAN /\ Taken(queue, 0)
  BY TakenQueue DEF IInv, SockTypes
<1>3. event_write(queue, 0, Frame("GOAWAY", 0, FALSE, 0), "close_on_goaway_sent")
  BY Zenon DEF http2_error
<1>4. Written' /\ (failed' = "none" => sock = "CONNECTED")
  BY <1>1, <1>2, <1>3, EventWrite, Zenon DEF Callbacks
<1>5. flags \subseteq Flags
  BY DEF IInv, CtxTypes
<1> QED
  BY <1>4, <1>5 DEF http2_error, Flags

----------------------------------------------------------------------------
(* What a step leaves alone keeps its part of the invariant *)

\* The fields of the context keep their types when they keep their values.
LEMMA SameCtx == CtxTypes /\ UNCHANGED ctxVars => CtxTypes'
  BY DEF CtxTypes, ctxVars

\* The fields of the stream keep their types when they keep their values.
LEMMA SameStream == StreamTypes /\ UNCHANGED streamVars => StreamTypes'
  BY DEF StreamTypes, streamVars

\* Writing is in order when nothing is written.
LEMMA SameWrite == Written /\ UNCHANGED writeVars => Written'
  BY Zenon DEF Written, WriteTypes, PoolConserved, writeVars

\* What the loop is about to handle keeps its type when it keeps its value.
LEMMA SameCall == CallTypes /\ UNCHANGED <<inbuf, callVars>> => CallTypes'
  BY DEF CallTypes, callVars

\* The history of the peer keeps its type when it keeps its value.
LEMMA SamePeer == PeerTypes /\ UNCHANGED <<peerVars, granted>> => PeerTypes'
  BY DEF PeerTypes, peerVars

\* A handler that leaves the socket, the timer and the state of the context
\* alone goes on with the batch under the same control.
LEMMA ReceivingControl ==
  ASSUME SettingsTimed, ReadsWhileOpen, Control, phase # "free", phase' = "receiving",
         sock' = sock, read_cb' = read_cb, wopen' = wopen, state' = state, flags' = flags,
         timer' = timer, stream_id' = last_opened_stream_id',
         failed' = "none" => failed = "none"
  PROVE  SettingsTimed' /\ ReadsWhileOpen' /\ Control'
<1>1. SettingsTimed' /\ ReadsWhileOpen'
  BY Zenon DEF SettingsTimed, ReadsWhileOpen
<1>2. sock # "CLOSED" /\ (failed = "none" => (state = "CLOSED" <=> sock # "CONNECTED"))
  BY Zenon DEF Control
<1> QED
  BY <1>1, <1>2 DEF Control

\* A handler that has met an error leaves the batch with the connection closing.
LEMMA ErrorControl ==
  ASSUME IInv, phase # "free", phase' \in {"receiving", "close"}, http2_error(queue, 0),
         stream_id' = last_opened_stream_id'
  PROVE  SettingsTimed' /\ ReadsWhileOpen' /\ Control'
<1>1. /\ state' = "CLOSING" /\ read_cb' = "none" /\ sock' = sock
      /\ "WAITING_SETTINGS_ACK" \notin flags' /\ (failed' = "none" => sock = "CONNECTED")
  BY ErrorKeeps, Zenon
<1>2. sock # "CLOSED"
  BY Zenon DEF IInv, Control
<1>3. SettingsTimed' /\ ReadsWhileOpen'
  BY <1>1, Zenon DEF SettingsTimed, ReadsWhileOpen
<1> QED
  BY <1>1, <1>2, <1>3 DEF Control

\* Taking the next frame out of the batch.
LEMMA TailCall ==
  ASSUME CallTypes, inbuf # <<>>, inbuf' = Tail(inbuf) \/ inbuf' = <<>>, UNCHANGED callVars
  PROVE  CallTypes'
<1>1. inbuf' \in Seq(Frames)
  BY TailFacts, EmptyFacts, Zenon DEF CallTypes
<1> QED
  BY <1>1 DEF CallTypes, callVars

\* The frame that is handled is one of the peer's.
LEMMA HeadFrame ==
  ASSUME CallTypes, inbuf # <<>>
  PROVE  /\ Head(inbuf) \in Frames
         /\ Head(inbuf).sid \in StreamIds \cup {0}
         /\ Head(inbuf).arg \in Nat
         /\ Head(inbuf).flags \subseteq {"ACK", "END_STREAM", "END_HEADERS"}
         /\ Head(inbuf).items \in Seq(Items)
<1>1. Head(inbuf) \in Frames
  BY TailFacts DEF CallTypes
<1>2. Head(inbuf) \in RecvFrames
  BY <1>1, PeerAssumption, Zenon
<1> QED
  BY <1>1, <1>2 DEF RecvFrames

----------------------------------------------------------------------------
(* The steps of the loop *)

\* A slot that was never used satisfies the invariant.
LEMMA InitIInv == Init => IInv
<1> SUFFICES ASSUME Init PROVE IInv
  OBVIOUS
<1>1. CtxTypes
  BY SizesAssumption DEF Init, CtxTypes, States
<1>2. StreamTypes
  BY SizesAssumption DEF Init, StreamTypes
<1>3. SockTypes
  BY Zenon DEF Init, SockTypes, Phases
<1>4. CallTypes
  <2>1. inbuf \in Seq(Frames) /\ items \in Seq(Items)
    BY EmptyFacts DEF Init
  <2>2. written \in 0 .. WriteSize /\ known \in BOOLEAN
    BY Sizes, Zenon DEF Init
  <2> QED
    BY <2>1, <2>2 DEF CallTypes
<1>5. PeerTypes
  BY SizesAssumption DEF Init, PeerTypes, PeerStates
<1>6. Written
  <2>1. queue \in Seq(Op) /\ Len(queue) = 0
    BY EmptyFacts DEF Init
  <2>2. resp \in [StreamIds -> Answers]
    BY DEF Init, Answers
  <2>3. wlen \in 0 .. WriteSize /\ in_use \in 0 .. WriteOps /\ in_use = 0
    BY Sizes DEF Init
  <2>4. failed = "none" /\ lost \subseteq SentKinds
    BY Zenon DEF Init
  <2> QED
    BY <2>1, <2>2, <2>3, <2>4 DEF Written, WriteTypes, PoolConserved
<1>7. SettingsTimed /\ ReadsWhileOpen /\ Control
  BY DEF Init, SettingsTimed, ReadsWhileOpen, Control
<1> QED
  BY <1>1, <1>2, <1>3, <1>4, <1>5, <1>6, <1>7 DEF IInv

\* A slot given to a new client satisfies it (http2_new_client).
LEMMA NewClientIInv ==
  ASSUME IInv, http2_new_client
  PROVE  IInv'
<1>1. CtxTypes'
  BY SizesAssumption DEF http2_new_client, Fresh, CtxTypes, States
<1>2. StreamTypes'
  BY SizesAssumption DEF http2_new_client, Fresh, StreamTypes
<1>3. SockTypes'
  BY DEF http2_new_client, Fresh, SockTypes, Phases, ReadCallbacks
<1>4. CallTypes'
  <2>1. inbuf' \in Seq(Frames) /\ items' \in Seq(Items)
    BY EmptyFacts DEF http2_new_client, Fresh
  <2>2. written' \in 0 .. WriteSize /\ known' \in BOOLEAN
    BY Sizes, Zenon DEF http2_new_client, Fresh
  <2> QED
    BY <2>1, <2>2 DEF CallTypes
<1>5. PeerTypes'
  BY SizesAssumption DEF http2_new_client, Fresh, PeerTypes, PeerStates
<1>6. Written'
  <2>1. queue = <<>> /\ queue' = queue
    BY DEF http2_new_client, Fresh, IInv, Control, At
  <2>2. resp' \in [StreamIds -> Answers]
    BY DEF http2_new_client, Fresh, Answers
  <2>3. wlen' \in 0 .. WriteSize /\ lost' \subseteq SentKinds
    BY Sizes, Zenon DEF http2_new_client, Fresh
  <2>4. in_use' = in_use /\ failed' = failed
    BY DEF http2_new_client
  <2> QED
    BY <2>1, <2>2, <2>3, <2>4, Zenon DEF IInv, Written, WriteTypes, PoolConserved
<1>7. SettingsTimed' /\ ReadsWhileOpen' /\ Control'
  BY DEF http2_new_client, Fresh, SettingsTimed, ReadsWhileOpen, Control
<1> QED
  BY <1>1, <1>2, <1>3, <1>4, <1>5, <1>6, <1>7 DEF IInv

\* The end of an iteration keeps it (event_loop_close).
LEMMA CloseIInv ==
  ASSUME IInv, event_loop_close
  PROVE  IInv'
<1>1. CtxTypes' /\ StreamTypes' /\ CallTypes' /\ PeerTypes' /\ Written'
  BY SameCtx, SameStream, SameWrite, SameCall, SamePeer DEF IInv, event_loop_close
<1>2. SockTypes'
  BY DEF event_loop_close, IInv, SockTypes, sockVars, Phases
<1>3. SettingsTimed' /\ ReadsWhileOpen' /\ Control'
  BY DEF event_loop_close, IInv, SettingsTimed, ReadsWhileOpen, Control, sockVars,
         ctxVars, streamVars, writeVars, At
<1> QED
  BY <1>1, <1>2, <1>3 DEF IInv

\* Steps that only move the loop on.
LEMMA MoveIInv ==
  ASSUME IInv,
         \/ event_loop_timers \/ event_sock_read_none \/ event_sock_write_none
         \/ event_loop_pending
  PROVE  IInv'
<1> USE DEF event_loop_timers, event_sock_read_none, event_sock_write_none,
            event_loop_pending
<1>1. CtxTypes' /\ StreamTypes' /\ CallTypes' /\ PeerTypes' /\ Written'
  BY SameCtx, SameStream, SameWrite, SameCall, SamePeer DEF IInv
<1>2. SockTypes'
  BY DEF IInv, SockTypes, sockVars, Phases
<1>3. SettingsTimed' /\ ReadsWhileOpen' /\ Control'
  BY DEF IInv, SettingsTimed, ReadsWhileOpen, Control, sockVars, ctxVars, streamVars,
         writeVars, At, SockTypes, ReadCallbacks
<1> QED
  BY <1>1, <1>2, <1>3 DEF IInv

\* A frame read into the buffer keeps it (event_sock_read).
LEMMA ReadIInv ==
  ASSUME IInv, NEW f \in Frames, event_sock_read(f)
  PROVE  IInv'
<1>1. CtxTypes' /\ StreamTypes' /\ Written'
  BY SameCtx, SameStream, SameWrite DEF IInv, event_sock_read
<1>2. SockTypes'
  BY DEF IInv, event_sock_read, SockTypes, sockVars, Phases
<1>3. CallTypes'
  <2>1. inbuf' \in Seq(Frames)
    BY AppendFacts DEF IInv, CallTypes, event_sock_read
  <2> QED
    BY <2>1 DEF IInv, CallTypes, event_sock_read, callVars
<1>4. PeerTypes'
  <2>1. received' \in 0 .. MaxFrames
    BY SizesAssumption DEF IInv, PeerTypes, event_sock_read
  <2>2. f.sid \in StreamIds \cup {0}
    BY PeerAssumption, Zenon DEF RecvFrames
  <2>3. PeerSends(peer, f) \in PeerStates
    <3>1. peer \in PeerStates
      BY DEF IInv, PeerTypes
    <3>2. \A es : AfterBlock(f, es) \in {"block", "done", "body"}
      BY DEF AfterBlock
    <3>3. \A t \in {"preface", "idle", "block", "body", "done"} :
            [peer EXCEPT !.tx = t] \in PeerStates
      BY <3>1 DEF PeerStates
    <3>4. [peer EXCEPT !.acked = TRUE] \in PeerStates
      BY <3>1, Zenon DEF PeerStates
    <3>5. CASE f.type = "HEADERS"
      <4> DEFINE es == "END_STREAM" \in f.flags
      <4>1. PeerSends(peer, f) = [peer EXCEPT !.tx = AfterBlock(f, es), !.sid = f.sid, !.es = es]
        BY <3>5 DEF PeerSends
      <4>2. es \in BOOLEAN
        OBVIOUS
      <4> HIDE DEF es
      <4> QED
        BY <2>2, <3>1, <3>2, <4>1, <4>2, Zenon DEF PeerStates
    <3>6. CASE f.type = "CONTINUATION"
      BY <3>2, <3>3, <3>6 DEF PeerSends
    <3>7. CASE f.type \notin {"HEADERS", "CONTINUATION"}
      BY <3>1, <3>3, <3>4, <3>7 DEF PeerSends
    <3> QED
      BY <3>5, <3>6, <3>7
  <2> QED
    BY <2>1, <2>3 DEF IInv, PeerTypes, event_sock_read
<1>5. SettingsTimed' /\ ReadsWhileOpen' /\ Control'
  BY DEF IInv, SettingsTimed, ReadsWhileOpen, Control, sockVars, ctxVars, streamVars,
         writeVars, At, event_sock_read, Readable, SockTypes
<1> QED
  BY <1>1, <1>2, <1>3, <1>4, <1>5 DEF IInv

\* Bytes written to the socket keep it (event_sock_write).
LEMMA WriteIInv ==
  ASSUME IInv, NEW n \in 1 .. wlen, event_sock_write(n)
  PROVE  IInv'
<1>1. CtxTypes' /\ StreamTypes' /\ PeerTypes'
  BY SameCtx, SameStream, SamePeer DEF IInv, event_sock_write
<1>2. SockTypes'
  BY DEF IInv, event_sock_write, SockTypes, sockVars, Phases
<1>3. wlen \in 0 .. WriteSize
  BY Zenon DEF IInv, Written, WriteTypes
<1>4. wlen' \in 0 .. WriteSize /\ written' \in 0 .. WriteSize
  BY <1>3, Sizes DEF event_sock_write
<1>5. Written'
  BY <1>4, Zenon DEF IInv, Written, WriteTypes, PoolConserved, event_sock_write
<1>6. CallTypes'
  BY <1>4 DEF IInv, CallTypes, event_sock_write
<1>7. SettingsTimed' /\ ReadsWhileOpen' /\ Control'
  BY DEF IInv, SettingsTimed, ReadsWhileOpen, Control, sockVars, ctxVars, streamVars,
         At, event_sock_write
<1> QED
  BY <1>1, <1>2, <1>5, <1>6, <1>7 DEF IInv

\* http2_close_immediate (http2.c:132-141).
LEMMA ImmediateKeeps ==
  ASSUME IInv, http2_close_immediate
  PROVE  CtxTypes' /\ StreamTypes' /\ wopen' = FALSE
  BY DEF IInv, CtxTypes, StreamTypes, http2_close_immediate, States

\* A failed read or write keeps it (event_sock_close).
LEMMA SockCloseKeeps ==
  ASSUME IInv, event_sock_close, UNCHANGED <<timer, callVars, peerVars, granted>>,
         phase \in {"read", "write"}, phase' \in {"write", "pending"}
  PROVE  IInv'
<1>1. CtxTypes' /\ StreamTypes'
  BY ImmediateKeeps, SameCtx, SameStream, Zenon DEF IInv, event_sock_close
<1>2. SockTypes'
  BY Zenon DEF IInv, event_sock_close, http2_close_immediate, SockTypes, Phases
<1>3. CallTypes'
  <2>1. inbuf' \in Seq(Frames)
    BY EmptyFacts DEF event_sock_close
  <2> QED
    BY <2>1 DEF IInv, CallTypes, callVars
<1>4. PeerTypes'
  BY SamePeer DEF IInv
<1>5. Written'
  <2>1. queue' \in Seq(Op) /\ Len(queue') = 0
    BY EmptyFacts DEF event_sock_close
  <2>2. in_use' = 0
    <3>1. Len(queue) \in Nat
      BY LenFacts, Zenon DEF IInv, Written, WriteTypes
    <3>2. in_use' = in_use - Len(queue) /\ in_use = Len(queue)
      BY DEF IInv, event_sock_close, Written, PoolConserved
    <3> QED
      BY <3>1, <3>2
  <2>3. wlen' \in 0 .. WriteSize /\ in_use' \in 0 .. WriteOps
    BY <2>2, Sizes DEF event_sock_close
  <2>4. failed' = failed /\ resp' = resp /\ lost' = lost
    BY DEF event_sock_close
  <2> QED
    BY <2>1, <2>2, <2>3, <2>4, Zenon DEF IInv, Written, WriteTypes, PoolConserved
<1>6. SettingsTimed' /\ ReadsWhileOpen' /\ Control'
  BY DEF IInv, event_sock_close, http2_close_immediate, SettingsTimed, ReadsWhileOpen,
         Control, ctxVars, streamVars, SockTypes
<1> QED
  BY <1>1, <1>2, <1>3, <1>4, <1>5, <1>6 DEF IInv

\* Giving up on the settings keeps it (on_settings_timeout).
LEMMA TimeoutIInv ==
  ASSUME IInv, on_settings_timeout
  PROVE  IInv'
<1>1. http2_error(queue, 0)
  BY DEF on_settings_timeout
<1>2. CtxTypes'
  BY <1>1, ErrorKeeps DEF IInv, CtxTypes, on_settings_timeout, States
<1>3. StreamTypes' /\ PeerTypes'
  BY SameStream, SamePeer DEF IInv, on_settings_timeout
<1>4. CallTypes'
  <2>1. inbuf' \in Seq(Frames)
    BY EmptyFacts DEF on_settings_timeout
  <2> QED
    BY <2>1 DEF IInv, CallTypes, callVars, on_settings_timeout
<1>5. SockTypes'
  BY <1>1, ErrorKeeps DEF IInv, SockTypes, on_settings_timeout, Phases
<1>6. SettingsTimed' /\ ReadsWhileOpen' /\ Control'
  BY <1>1, ErrorKeeps
  DEF IInv, on_settings_timeout, SettingsTimed, ReadsWhileOpen, Control, streamVars, At
<1> QED
  BY <1>1, <1>2, <1>3, <1>4, <1>5, <1>6, ErrorKeeps DEF IInv

\* Starting to close the connection keeps it (http2_close_gracefully).
LEMMA GracefullyIInv ==
  ASSUME IInv, http2_close_gracefully
  PROVE  IInv'
<1>1. CtxTypes'
  BY DEF IInv, CtxTypes, http2_close_gracefully, States
<1>2. StreamTypes' /\ CallTypes' /\ PeerTypes'
  BY SameStream, SameCall, SamePeer DEF IInv, http2_close_gracefully
<1>3. SockTypes'
  BY DEF IInv, SockTypes, sockVars, http2_close_gracefully
<1>4. Written' /\ (failed' = "none" => sock = "CONNECTED")
  <2>1. Frame("GOAWAY", 0, FALSE, 0) \in SentFrames
    BY FrameType, Zenon DEF SentKinds
  <2>2. Written /\ wopen \in BOOLEAN /\ Taken(queue, 0)
    BY TakenQueue DEF IInv, SockTypes
  <2>3. event_write(queue, 0, Frame("GOAWAY", 0, FALSE, 0), "close_on_write_error")
    BY Zenon DEF http2_close_gracefully
  <2> QED
    BY <2>1, <2>2, <2>3, EventWrite, Zenon DEF Callbacks
<1>5. SettingsTimed' /\ ReadsWhileOpen' /\ Control'
  BY <1>4 DEF IInv, http2_close_gracefully, SettingsTimed, ReadsWhileOpen, Control,
              streamVars, sockVars, At
<1> QED
  BY <1>1, <1>2, <1>3, <1>4, <1>5 DEF IInv

----------------------------------------------------------------------------
(* Sending: http2_continue_send never overdraws a window (http2.c:552-584) *)

\* http2_continue_send sends no more than the buffer and both windows hold.
LEMMA SendBounds ==
  ASSUME NEW b \in Nat, NEW w \in Nat, NEW s \in Int, NEW z \in Nat
  PROVE  LET len == Min(Min(b, Min(w, s)), z)
         IN  len \in Int /\ len <= b /\ len <= w /\ len <= s /\ len <= z
  BY DEF Min

\* http2_continue_send keeps windows, buffer and pool within their bounds.
LEMMA SendKeeps ==
  ASSUME IInv, NEW q, NEW rel, Taken(q, rel),
         NEW sw \in -(MaxWindow + 1) .. MaxWindow,
         http2_continue_send(q, rel, sw)
  PROVE  /\ Written'
         /\ failed' = "none" => failed = "none"
         /\ window_size' \in 0 .. MaxWindow
         /\ stream_window' \in -(MaxWindow + 1) .. MaxWindow
         /\ buf' \in {"empty", "block", "cut", "body"}
         /\ buflen' \in 0 .. StreamBufSize /\ bufptr' \in Nat
<1> DEFINE len == Min(Min(buflen, Min(window_size, sw)), WriteSize)
<1>1. /\ buflen \in 0 .. StreamBufSize /\ StreamBufSize \in Nat /\ bufptr \in Nat
      /\ window_size \in 0 .. MaxWindow /\ MaxWindow \in Nat /\ WriteSize \in Nat
  BY SizesAssumption DEF IInv, StreamTypes, CtxTypes
<1>2. len \in Int /\ len <= buflen /\ len <= window_size /\ len <= sw
  BY <1>1, SendBounds, SMTT(30)
<1>3. /\ buf \in {"empty", "block", "cut", "body"} /\ Written /\ wopen \in BOOLEAN
      /\ stream_id \in StreamIds \cup {0}
  BY DEF IInv, StreamTypes, SockTypes
<1>4. \/ /\ len <= 0 /\ NoWrite(q, rel) /\ stream_window' = sw
         /\ UNCHANGED <<window_size, buf, buflen, bufptr>>
      \/ /\ len > 0
         /\ event_write(q, rel, Frame("DATA", stream_id, buflen = len, len),
                        "on_stream_send_complete")
         /\ bufptr' = bufptr + len /\ buflen' = buflen - len
         /\ buf' = IF buf = "block" THEN "cut" ELSE buf
         /\ stream_window' = sw - len /\ window_size' = window_size - len
  BY DEF http2_continue_send
<1> HIDE DEF len
<1>5. CASE len <= 0 /\ NoWrite(q, rel) /\ stream_window' = sw
           /\ UNCHANGED <<window_size, buf, buflen, bufptr>>
  <2>1. Written' /\ failed' = failed
    BY <1>3, <1>5, NoWriteKeeps DEF NoWrite
  <2> QED
    BY <1>1, <1>3, <1>5, <2>1
<1>6. CASE /\ len > 0
           /\ event_write(q, rel, Frame("DATA", stream_id, buflen = len, len),
                          "on_stream_send_complete")
           /\ bufptr' = bufptr + len /\ buflen' = buflen - len
           /\ buf' = IF buf = "block" THEN "cut" ELSE buf
           /\ stream_window' = sw - len /\ window_size' = window_size - len
  <2>1. Frame("DATA", stream_id, buflen = len, len) \in SentFrames
    <3>1. len \in Nat /\ (buflen = len) \in BOOLEAN
      BY <1>2, <1>6
    <3> QED
      BY <1>3, <3>1, FrameType, Zenon DEF SentKinds
  <2>2. Written' /\ (failed' = "none" => failed = "none")
    BY <1>3, <1>6, <2>1, EventWrite DEF Callbacks
  <2>3. bufptr' \in Nat /\ buflen' \in 0 .. StreamBufSize
        /\ stream_window' \in -(MaxWindow + 1) .. MaxWindow
        /\ window_size' \in 0 .. MaxWindow
    BY <1>1, <1>2, <1>6
  <2>4. buf' \in {"empty", "block", "cut", "body"}
    BY <1>3, <1>6
  <2> QED
    BY <2>2, <2>3, <2>4
<1> QED
  BY <1>4, <1>5, <1>6

\* The history of the windows granted stays one of integers.
LEMMA ChargeType ==
  ASSUME NEW g \in [StreamIds -> Int], buflen \in Int, buflen' \in Int
  PROVE  Charge(g) \in [StreamIds -> Int]
  BY SMTT(30) DEF Charge

\* The callbacks of the operations that have been written (event.c:149-182).
LEMMA HandleWriteIInv ==
  ASSUME IInv, event_sock_handle_write
  PROVE  IInv'
<1> DEFINE cb == Head(queue).cb
           q  == Tail(queue)
<1>1. /\ At("notify") /\ queue # <<>> /\ UNCHANGED <<inbuf, phase, items, known, peerVars>>
      /\ Head(queue).bytes <= written /\ written' = written - Head(queue).bytes
  BY DEF event_sock_handle_write
<1>2. Written /\ Taken(q, 1) /\ Head(queue) \in Op
  BY <1>1, TakenQueue, TailFacts, Zenon DEF IInv, Written, WriteTypes
<1>3. written' \in 0 .. WriteSize
  <2>1. written \in 0 .. WriteSize /\ Head(queue).bytes \in Nat
    BY <1>2 DEF IInv, CallTypes, Op
  <2> QED
    BY <1>1, <2>1, Sizes
<1>4. CallTypes'
  BY <1>1, <1>3 DEF IInv, CallTypes
<1>5. CASE /\ NoWrite(q, 1)
           /\ UNCHANGED <<ctxVars, streamVars, sockVars, timer, granted>>
  <2>1. CtxTypes' /\ StreamTypes' /\ PeerTypes' /\ Written'
    BY <1>1, <1>2, <1>5, SameCtx, SameStream, SamePeer, NoWriteKeeps DEF IInv
  <2>2. SockTypes'
    BY <1>1, <1>5 DEF IInv, SockTypes, sockVars
  <2>3. SettingsTimed' /\ ReadsWhileOpen' /\ Control'
    BY <1>1, <1>5 DEF IInv, SettingsTimed, ReadsWhileOpen, Control, ctxVars, streamVars,
                      sockVars, NoWrite, At
  <2> QED
    BY <1>4, <2>1, <2>2, <2>3 DEF IInv
<1>6. CASE http2_close_immediate /\ NoWrite(q, 1) /\ UNCHANGED <<timer, granted>>
  <2>1. CtxTypes' /\ StreamTypes' /\ PeerTypes' /\ Written'
    BY <1>1, <1>2, <1>6, ImmediateKeeps, SamePeer, NoWriteKeeps DEF IInv
  <2>2. SockTypes'
    BY <1>1, <1>6, Zenon DEF IInv, SockTypes, http2_close_immediate
  <2>3. SettingsTimed' /\ ReadsWhileOpen' /\ Control'
    BY <1>1, <1>6 DEF IInv, SettingsTimed, ReadsWhileOpen, Control, SockTypes,
                      http2_close_immediate, NoWrite, At
  <2> QED
    BY <1>4, <2>1, <2>2, <2>3 DEF IInv
<1>7. CASE /\ on_settings_sent(q)
           /\ UNCHANGED <<state, last_opened_stream_id, window_size, initial_window_size,
                          streamVars, sockVars, granted>>
  <2>1. CtxTypes'
    BY <1>7 DEF IInv, CtxTypes, on_settings_sent, Flags
  <2>2. StreamTypes' /\ PeerTypes' /\ Written'
    BY <1>1, <1>2, <1>7, SameStream, SamePeer, NoWriteKeeps DEF IInv, on_settings_sent
  <2>3. SockTypes'
    BY <1>1, <1>7, SMTT(30) DEF IInv, SockTypes, sockVars, on_settings_sent
  <2>4. SettingsTimed' /\ ReadsWhileOpen' /\ Control'
    BY <1>1, <1>7 DEF IInv, SettingsTimed, ReadsWhileOpen, Control, streamVars, sockVars,
                      on_settings_sent, NoWrite, At
  <2> QED
    BY <1>4, <2>1, <2>2, <2>3, <2>4 DEF IInv
<1>8. CASE /\ on_stream_send_complete(q)
           /\ UNCHANGED <<state, flags, last_opened_stream_id, initial_window_size,
                          stream_id, sockVars, timer>>
  <2>1. CASE /\ stream_state' = "CLOSED" /\ NoWrite(q, 1)
             /\ UNCHANGED <<window_size, stream_window, buf, buflen, bufptr, granted>>
    <3>1. CtxTypes' /\ StreamTypes'
      BY <1>8, <2>1 DEF IInv, CtxTypes, StreamTypes
    <3>2. PeerTypes' /\ Written'
      BY <1>1, <1>2, <2>1, SamePeer, NoWriteKeeps DEF IInv
    <3>3. SockTypes'
      BY <1>1, <1>8, SMTT(30) DEF IInv, SockTypes, sockVars
    <3>4. SettingsTimed' /\ ReadsWhileOpen' /\ Control'
      BY <1>1, <1>8, <2>1 DEF IInv, SettingsTimed, ReadsWhileOpen, Control, sockVars,
                              NoWrite, At
    <3> QED
      BY <1>4, <3>1, <3>2, <3>3, <3>4, SMTT(30) DEF IInv
  <2>2. CASE /\ http2_continue_send(q, 1, stream_window)
             /\ granted' = Charge(granted) /\ UNCHANGED stream_state
    <3>1. stream_window \in -(MaxWindow + 1) .. MaxWindow
      BY DEF IInv, StreamTypes
    <3>2. /\ Written' /\ (failed' = "none" => failed = "none")
          /\ window_size' \in 0 .. MaxWindow
          /\ stream_window' \in -(MaxWindow + 1) .. MaxWindow
          /\ buf' \in {"empty", "block", "cut", "body"}
          /\ buflen' \in 0 .. StreamBufSize /\ bufptr' \in Nat
      BY <1>2, <2>2, <3>1, SendKeeps
    <3>3. CtxTypes' /\ StreamTypes'
      BY <1>8, <2>2, <3>2 DEF IInv, CtxTypes, StreamTypes
    <3>4. granted' \in [StreamIds -> Int]
      <4>1. buflen \in Int /\ buflen' \in Int
        BY <3>2, SizesAssumption DEF IInv, StreamTypes
      <4> QED
        BY <2>2, <4>1, ChargeType DEF IInv, PeerTypes
    <3>5. PeerTypes'
      BY <1>1, <3>4 DEF IInv, PeerTypes, peerVars
    <3>6. SockTypes'
      BY <1>1, <1>8 DEF IInv, SockTypes, sockVars
    <3>7. SettingsTimed' /\ ReadsWhileOpen' /\ Control'
      BY <1>1, <1>8, <3>2 DEF IInv, SettingsTimed, ReadsWhileOpen, Control, sockVars, At
    <3> QED
      BY <1>4, <3>2, <3>3, <3>5, <3>6, <3>7 DEF IInv
  <2> QED
    BY <1>8, <2>1, <2>2 DEF on_stream_send_complete
<1> QED
  BY <1>5, <1>6, <1>7, <1>8, SMTT(30) DEF event_sock_handle_write

\* The end of the notifications keeps the invariant (event_sock_handle_write).
LEMMA HandleWriteEndIInv ==
  ASSUME IInv, event_sock_handle_write_end
  PROVE  IInv'
<1>1. CtxTypes' /\ StreamTypes' /\ PeerTypes'
  BY SameCtx, SameStream, SamePeer DEF IInv, event_sock_handle_write_end
<1>2. SockTypes'
  BY DEF IInv, SockTypes, sockVars, event_sock_handle_write_end, Phases
<1>3. CallTypes'
  BY Sizes DEF IInv, CallTypes, event_sock_handle_write_end
<1>4. queue' \in Seq(Op) /\ Len(queue') = Len(queue)
  <2>1. queue \in Seq(Op)
    BY Zenon DEF IInv, Written, WriteTypes
  <2>2. CASE UNCHANGED queue
    BY <2>1, <2>2
  <2>3. CASE /\ written > 0 /\ queue # <<>> /\ Head(queue).bytes > written
             /\ queue' = <<[Head(queue) EXCEPT !.bytes = @ - written]>> \o Tail(queue)
    <3> DEFINE op == [Head(queue) EXCEPT !.bytes = @ - written]
    <3>1. Head(queue) \in Op /\ Tail(queue) \in Seq(Op) /\ Len(Tail(queue)) = Len(queue) - 1
      BY <2>1, <2>3, TailFacts
    <3>2. written \in Nat
      BY Sizes DEF IInv, CallTypes
    <3>3. op \in Op
      <4>1. Head(queue).bytes \in Nat
        BY <3>1 DEF Op
      <4>2. Head(queue).bytes - written \in Nat \ {0}
        BY <2>3, <3>2, <4>1
      <4>3. \A n \in Nat \ {0} : [Head(queue) EXCEPT !.bytes = n] \in Op
        BY <3>1, SMTT(30) DEF Op
      <4> QED
        BY <4>2, <4>3
    <3> HIDE DEF op
    <3>4. <<op>> \in Seq(Op) /\ Len(<<op>>) = 1
      BY <3>3
    <3>5. Len(queue) \in Nat
      BY <2>1, LenFacts
    <3> QED
      BY <2>3, <3>1, <3>4, <3>5, ConcatFacts DEF op
  <2> QED
    BY <2>2, <2>3 DEF event_sock_handle_write_end
<1>5. Written'
  BY <1>4, Zenon DEF IInv, Written, WriteTypes, PoolConserved, event_sock_handle_write_end
<1>6. SettingsTimed' /\ ReadsWhileOpen' /\ Control'
  BY DEF IInv, SettingsTimed, ReadsWhileOpen, Control, ctxVars, streamVars, sockVars,
         event_sock_handle_write_end, At
<1> QED
  BY <1>1, <1>2, <1>3, <1>5, <1>6 DEF IInv

----------------------------------------------------------------------------
(* The handlers of frames *)

\* A handler that changes nothing but its place in the batch.
LEMMA SkipKeeps ==
  ASSUME IInv, phase # "free",
         inbuf' = inbuf \/ inbuf' = <<>> \/ (inbuf # <<>> /\ inbuf' = Tail(inbuf)),
         phase' \in {"receiving", "close", "update"},
         UNCHANGED <<ctxVars, streamVars, sockVars, writeVars, granted, notHandled>>
  PROVE  IInv'
<1>1. CtxTypes' /\ StreamTypes' /\ Written' /\ PeerTypes'
  BY SameCtx, SameStream, SameWrite, SamePeer DEF IInv, notHandled
<1>2. CallTypes'
  <2>1. inbuf' \in Seq(Frames)
    BY TailFacts, EmptyFacts, Zenon DEF IInv, CallTypes
  <2> QED
    BY <2>1 DEF IInv, CallTypes, callVars, notHandled
<1>3. SockTypes'
  BY DEF IInv, SockTypes, sockVars, Phases, ReadCallbacks, notHandled
<1>4. SettingsTimed' /\ ReadsWhileOpen' /\ Control'
  BY DEF IInv, SettingsTimed, ReadsWhileOpen, Control, ctxVars, streamVars, sockVars,
         writeVars, notHandled
<1> QED
  BY <1>1, <1>2, <1>3, <1>4 DEF IInv

\* A handler that meets an error and gives up the batch.
LEMMA RefuseKeeps ==
  ASSUME IInv, phase # "free", Refuse
  PROVE  IInv'
<1>1. http2_error(queue, 0)
  BY DEF Refuse
<1>2. CtxTypes'
  BY <1>1, ErrorKeeps DEF IInv, CtxTypes, Refuse, States
<1>3. StreamTypes' /\ PeerTypes'
  BY SameStream, SamePeer DEF IInv, Refuse, notHandled
<1>4. CallTypes'
  <2>1. inbuf' \in Seq(Frames)
    BY EmptyFacts DEF Refuse, Discard
  <2> QED
    BY <2>1 DEF IInv, CallTypes, callVars, Refuse, notHandled
<1>5. SockTypes'
  BY <1>1, ErrorKeeps, SMTT(30) DEF IInv, SockTypes, Refuse, Discard, notHandled, Phases
<1>6. SettingsTimed' /\ ReadsWhileOpen' /\ Control'
  BY <1>1, ErrorKeeps
  DEF IInv, SettingsTimed, ReadsWhileOpen, Control, Refuse, Discard, streamVars
<1> QED
  BY <1>1, <1>2, <1>3, <1>4, <1>5, <1>6, ErrorKeeps DEF IInv

\* A handler that resets a stream and leaves the rest of the batch.
LEMMA StreamErrorKeeps ==
  ASSUME IInv, phase # "free", inbuf # <<>>, NEW sid \in StreamIds \cup {0},
         http2_stream_error(sid)
  PROVE  IInv'
<1>1. CtxTypes' /\ PeerTypes'
  BY SameCtx, SamePeer DEF IInv, http2_stream_error, notHandled
<1>2. StreamTypes'
  BY DEF IInv, StreamTypes, http2_stream_error
<1>3. CallTypes'
  BY TailCall DEF IInv, http2_stream_error, Stop, notHandled
<1>4. SockTypes'
  BY DEF IInv, SockTypes, sockVars, http2_stream_error, Stop, notHandled, Phases
<1>5. Written' /\ (failed' = "none" => failed = "none")
  <2>1. Frame("RST_STREAM", sid, FALSE, 0) \in SentFrames
    BY FrameType, Zenon DEF SentKinds
  <2>2. Written /\ wopen \in BOOLEAN /\ Taken(queue, 0)
    BY TakenQueue DEF IInv, SockTypes
  <2>3. event_write(queue, 0, Frame("RST_STREAM", sid, FALSE, 0), "close_on_write_error")
    BY Zenon DEF http2_stream_error
  <2> QED
    BY <2>1, <2>2, <2>3, EventWrite, Zenon DEF Callbacks
<1>6. SettingsTimed' /\ ReadsWhileOpen' /\ Control'
  BY <1>5 DEF IInv, SettingsTimed, ReadsWhileOpen, Control, ctxVars, sockVars,
              http2_stream_error, Stop, notHandled
<1> QED
  BY <1>1, <1>2, <1>3, <1>4, <1>5, <1>6 DEF IInv

\* What the handlers write in answer keeps the buffer and the pool in order.
LEMMA AnswerKeeps ==
  ASSUME IInv, NEW kind \in SentKinds, NEW sid \in StreamIds \cup {0}, NEW es \in BOOLEAN,
         NEW cb \in Callbacks, event_write(queue, 0, Frame(kind, sid, es, 0), cb)
  PROVE  Written' /\ (failed' = "none" => failed = "none" /\ sock = "CONNECTED")
<1>1. Frame(kind, sid, es, 0) \in SentFrames
  BY FrameType
<1>2. Written /\ wopen \in BOOLEAN /\ Taken(queue, 0)
  BY TakenQueue DEF IInv, SockTypes
<1> QED
  BY <1>1, <1>2, EventWrite

\* waiting_for_preface keeps the invariant.
LEMMA PrefaceIInv ==
  ASSUME IInv, waiting_for_preface
  PROVE  IInv'
<1>0. /\ At("waiting_for_preface") /\ inbuf # <<>> /\ sock = "CONNECTED" /\ wopen
      /\ phase # "free" /\ UNCHANGED <<granted, notHandled>>
  BY DEF IInv, Control, ReadsWhileOpen, waiting_for_preface, At
<1>1. CASE /\ phase' = "close"
           /\ UNCHANGED <<ctxVars, streamVars, sockVars, inbuf, writeVars>>
  BY <1>0, <1>1, SkipKeeps
<1>2. CASE http2_close_immediate /\ Discard /\ UNCHANGED writeVars
  <2>1. CtxTypes' /\ StreamTypes' /\ Written' /\ PeerTypes'
    BY <1>0, <1>2, ImmediateKeeps, SameWrite, SamePeer DEF IInv, notHandled
  <2>2. CallTypes'
    BY <1>0, <1>2, TailCall DEF IInv, Discard, notHandled
  <2>3. SockTypes'
    BY <1>0, <1>2, Zenon DEF IInv, SockTypes, http2_close_immediate, Discard, notHandled, Phases
  <2>4. SettingsTimed' /\ ReadsWhileOpen' /\ Control'
    BY <1>0, <1>2 DEF IInv, SettingsTimed, ReadsWhileOpen, Control, http2_close_immediate,
                      Discard, notHandled, writeVars
  <2> QED
    BY <2>1, <2>2, <2>3, <2>4 DEF IInv
<1>3. CASE /\ state' = "WAITING_SETTINGS"
           /\ event_write(queue, 0, Frame("SETTINGS", 0, FALSE, 0), "on_settings_sent")
           /\ read_cb' = "waiting_for_settings"
           /\ Stop
           /\ UNCHANGED <<flags, last_opened_stream_id, window_size, initial_window_size,
                          streamVars, sock, wopen>>
  <2>1. Written'
    BY <1>3, AnswerKeeps, Zenon DEF SentKinds, Callbacks
  <2>2. CtxTypes'
    BY <1>3 DEF IInv, CtxTypes, States
  <2>3. StreamTypes' /\ PeerTypes'
    BY <1>0, <1>3, SameStream, SamePeer DEF IInv, notHandled
  <2>4. CallTypes'
    BY <1>0, <1>3, TailCall DEF IInv, Stop, notHandled
  <2>5. SockTypes'
    BY <1>0, <1>3 DEF IInv, SockTypes, Stop, notHandled, Phases, ReadCallbacks
  <2>6. SettingsTimed' /\ ReadsWhileOpen' /\ Control'
    BY <1>0, <1>3 DEF IInv, SettingsTimed, ReadsWhileOpen, Control, Stop, notHandled,
                      streamVars
  <2> QED
    BY <2>1, <2>2, <2>3, <2>4, <2>5, <2>6 DEF IInv
<1> QED
  BY <1>1, <1>2, <1>3, Zenon DEF waiting_for_preface

\* handle_settings_frame is entered: its parameters are processed next.
LEMMA EnterSettings ==
  ASSUME IInv, phase # "free", inbuf # <<>>,
         items' = Head(inbuf).items, known' = FALSE, inbuf' = Tail(inbuf),
         \/ phase' = "update"
         \/ phase' = "update_first" /\ read_cb = "waiting_for_settings",
         UNCHANGED <<ctxVars, streamVars, sockVars, writeVars, granted, timer, written,
                     peerVars>>
  PROVE  IInv'
<1>1. CtxTypes' /\ StreamTypes' /\ Written' /\ PeerTypes'
  BY SameCtx, SameStream, SameWrite, SamePeer DEF IInv
<1>2. CallTypes'
  <2>1. inbuf' \in Seq(Frames)
    BY TailFacts, SMTT(30) DEF IInv, CallTypes
  <2>2. items' \in Seq(Items)
    BY HeadFrame DEF IInv
  <2> QED
    BY <2>1, <2>2, Zenon DEF IInv, CallTypes
<1>3. SockTypes'
  BY DEF IInv, SockTypes, sockVars, Phases
<1>4. SettingsTimed' /\ ReadsWhileOpen' /\ Control'
  BY DEF IInv, SettingsTimed, ReadsWhileOpen, Control, ctxVars, streamVars, sockVars,
         writeVars
<1> QED
  BY <1>1, <1>2, <1>3, <1>4 DEF IInv

\* waiting_for_settings keeps the invariant.
LEMMA FirstSettingsIInv ==
  ASSUME IInv, waiting_for_settings
  PROVE  IInv'
<1> DEFINE f == Head(inbuf)
<1>0. /\ At("waiting_for_settings") /\ inbuf # <<>> /\ phase # "free"
      /\ read_cb = "waiting_for_settings"
  BY DEF IInv, Control, waiting_for_settings, At
<1>1. CASE Refuse
  BY <1>0, <1>1, RefuseKeeps
<1>2. CASE /\ phase' = "close"
           /\ UNCHANGED <<ctxVars, streamVars, sockVars, inbuf, writeVars, granted,
                          notHandled>>
  BY <1>0, <1>2, SkipKeeps
<1>3. CASE /\ items' = f.items /\ known' = FALSE
           /\ inbuf' = Tail(inbuf) /\ phase' = "update_first"
           /\ UNCHANGED <<ctxVars, streamVars, sockVars, writeVars, granted, timer, written,
                          peerVars>>
  BY <1>0, <1>3, EnterSettings, Zenon
<1> QED
  BY <1>1, <1>2, <1>3, Zenon DEF waiting_for_settings

\* The checks of receiving keep the invariant.
LEMMA ReceivingIInv ==
  ASSUME IInv, receiving
  PROVE  IInv'
<1>0. phase # "free"
  BY DEF receiving, At
<1>1. CASE Refuse
  BY <1>0, <1>1, RefuseKeeps
<1>2. CASE /\ inbuf' = IF read_cb = "none" THEN <<>> ELSE inbuf
           /\ phase' = "close"
           /\ UNCHANGED <<ctxVars, streamVars, sockVars, writeVars, granted, notHandled>>
  BY <1>0, <1>2, SkipKeeps
<1> QED
  BY <1>1, <1>2 DEF receiving

\* A handler of receiving finds a frame, and no assertion has failed.
LEMMA HandlingFrame ==
  ASSUME NEW type, Handling(type)
  PROVE  phase = "receiving" /\ failed = "none" /\ inbuf # <<>>
  BY DEF Handling, At

\* A frame that receiving ignores keeps the invariant.
LEMMA IgnoreIInv ==
  ASSUME IInv, ignore_frame
  PROVE  IInv'
<1>1. phase # "free" /\ inbuf # <<>>
  BY HandlingFrame DEF ignore_frame
<1> QED
  BY <1>1, SkipKeeps DEF ignore_frame, Continue

\* A PUSH_PROMISE keeps the invariant, though receiving goes on after it.
LEMMA PushPromiseIInv ==
  ASSUME IInv, push_promise
  PROVE  IInv'
<1>0. phase # "free" /\ inbuf # <<>> /\ http2_error(queue, 0)
  BY HandlingFrame DEF push_promise
<1>1. CtxTypes'
  BY <1>0, ErrorKeeps DEF IInv, CtxTypes, push_promise, States
<1>2. StreamTypes' /\ PeerTypes'
  BY SameStream, SamePeer DEF IInv, push_promise, notHandled
<1>3. CallTypes'
  BY <1>0, TailCall DEF IInv, push_promise, Continue, notHandled
<1>4. SockTypes'
  BY <1>0, ErrorKeeps, SMTT(30)
  DEF IInv, SockTypes, push_promise, Continue, notHandled, Phases, ReadCallbacks
<1>5. SettingsTimed' /\ ReadsWhileOpen' /\ Control'
  <2>1. phase' = "receiving" /\ UNCHANGED <<last_opened_stream_id, stream_id>>
    BY Zenon DEF push_promise, Continue, streamVars
  <2>2. stream_id' = last_opened_stream_id'
    BY <2>1, Zenon DEF IInv, Control
  <2> QED
    BY <1>0, <2>1, <2>2, ErrorControl, Zenon
<1> QED
  BY <1>0, <1>1, <1>2, <1>3, <1>4, <1>5, ErrorKeeps DEF IInv

\* handle_settings_frame keeps the invariant: it stops the timer with the flag.
LEMMA SettingsIInv ==
  ASSUME IInv, handle_settings_frame
  PROVE  IInv'
<1> DEFINE f == Head(inbuf)
<1>0. phase = "receiving" /\ inbuf # <<>>
  BY HandlingFrame, Zenon DEF handle_settings_frame
<1>1. CASE Refuse
  BY <1>0, <1>1, RefuseKeeps, SMTT(30)
<1>2. CASE /\ items' = f.items /\ known' = FALSE
           /\ inbuf' = Tail(inbuf) /\ phase' = "update"
           /\ UNCHANGED <<ctxVars, streamVars, sockVars, writeVars, granted, timer, written,
                          peerVars>>
  BY <1>0, <1>2, EnterSettings, Zenon
<1>3. CASE /\ flags' = flags \ {"WAITING_SETTINGS_ACK"}
           /\ timer' = IF "WAITING_SETTINGS_ACK" \in flags THEN "off" ELSE timer
           /\ Continue
           /\ UNCHANGED <<state, last_opened_stream_id, window_size, initial_window_size,
                          streamVars, sockVars, writeVars, granted, callVars, peerVars>>
  <2>1. CtxTypes'
    BY <1>3 DEF IInv, CtxTypes
  <2>2. StreamTypes' /\ Written' /\ PeerTypes'
    BY <1>3, SameStream, SameWrite, SamePeer DEF IInv
  <2>3. CallTypes'
    BY <1>0, <1>3, TailCall DEF IInv, Continue
  <2>4. SockTypes'
    BY <1>3, SMTT(30) DEF IInv, SockTypes, sockVars, Continue, Phases, ReadCallbacks
  <2>5. SettingsTimed' /\ ReadsWhileOpen' /\ Control'
    BY <1>0, <1>3 DEF IInv, SettingsTimed, ReadsWhileOpen, Control, Continue, streamVars,
                      sockVars, writeVars
  <2> QED
    BY <2>1, <2>2, <2>3, <2>4, <2>5 DEF IInv
<1> QED
  BY <1>1, <1>2, <1>3, Zenon DEF handle_settings_frame

\* Moving the window by the difference of two sizes stays within an int32_t,
\* because it wraps (http2.c:299-308).
LEMMA AdjustedType ==
  ASSUME IInv, NEW v \in 0 .. MaxWindow
  PROVE  Adjusted(v) \in -(MaxWindow + 1) .. MaxWindow
<1>1. /\ stream_window \in -(MaxWindow + 1) .. MaxWindow
      /\ initial_window_size \in 0 .. MaxWindow /\ MaxWindow \in Nat
  BY SizesAssumption DEF IInv, StreamTypes, CtxTypes
<1> QED
  BY <1>1 DEF Adjusted, Wrap

\* The history of the windows granted stays one of integers.
LEMMA GrantType ==
  ASSUME NEW g \in [StreamIds -> Int], NEW s, NEW d \in Int
  PROVE  [g EXCEPT ![s] = @ + d] \in [StreamIds -> Int]
<1> DEFINE h == [g EXCEPT ![s] = @ + d]
<1>1. h = [x \in StreamIds |-> IF x = s THEN g[s] + d ELSE g[x]]
  BY Zenon
<1>2. \A x \in StreamIds : g[x] \in Int /\ g[x] + d \in Int
  OBVIOUS
<1> HIDE DEF h
<1>3. h \in [StreamIds -> Int]
  BY <1>1, <1>2
<1> QED
  BY <1>3 DEF h

\* A parameter processed by update_settings keeps the invariant.
LEMMA UpdateIInv ==
  ASSUME IInv, update_settings
  PROVE  IInv'
<1> DEFINE item == Head(items)
<1>0. /\ phase \in {"update", "update_first"} /\ items # <<>> /\ ~SettingRefused(item)
      /\ item \in Items /\ Tail(items) \in Seq(Items)
  <2>1. phase \in {"update", "update_first"} /\ items # <<>> /\ ~SettingRefused(item)
    BY Zenon DEF update_settings, At
  <2>2. items \in Seq(Items)
    BY Zenon DEF IInv, CallTypes
  <2>3. Head(items) \in Items /\ Tail(items) \in Seq(Items)
    BY <2>1, <2>2, TailFacts, Zenon
  <2> QED
    BY <2>1, <2>3, Zenon
<1>1. initial_window_size' \in 0 .. MaxWindow
      /\ stream_window' \in -(MaxWindow + 1) .. MaxWindow
      /\ granted' \in [StreamIds -> Int]
  <2>1. CASE item.id # "window" /\ UNCHANGED <<initial_window_size, stream_window, granted>>
    BY <2>1, SMTT(30) DEF IInv, CtxTypes, StreamTypes, PeerTypes
  <2>2. CASE item.id = "window" /\ initial_window_size' = item.value
    <3>1. item.value \in 0 .. MaxWindow
      BY <1>0, <2>2, SizesAssumption DEF SettingRefused, Items
    <3>2. Adjusted(item.value) \in -(MaxWindow + 1) .. MaxWindow
      BY <3>1, AdjustedType
    <3>3. item.value - initial_window_size \in Int
      BY <3>1, SizesAssumption DEF IInv, CtxTypes
    <3>4. [granted EXCEPT ![stream_id] = @ + (item.value - initial_window_size)]
            \in [StreamIds -> Int]
      BY <3>3, GrantType, Zenon DEF IInv, PeerTypes
    <3>5. stream_window \in -(MaxWindow + 1) .. MaxWindow /\ granted \in [StreamIds -> Int]
      BY SMTT(30) DEF IInv, StreamTypes, PeerTypes
    <3> QED
      BY <2>2, <3>1, <3>2, <3>4, <3>5, Zenon DEF update_settings
  <2> QED
    BY <2>1, <2>2 DEF update_settings
<1>2. CtxTypes'
  <2>1. UNCHANGED <<state, flags, last_opened_stream_id, window_size>>
    BY Zenon DEF update_settings
  <2>2. CtxTypes
    BY Zenon DEF IInv
  <2> QED
    BY <1>1, <2>1, <2>2, Zenon DEF CtxTypes
<1>3. StreamTypes'
  <2>1. UNCHANGED <<stream_id, stream_state, buf, buflen, bufptr>>
    BY Zenon DEF update_settings
  <2>2. StreamTypes
    BY Zenon DEF IInv
  <2> QED
    BY <1>1, <2>1, <2>2, Zenon DEF StreamTypes
<1>4. Written'
  BY SameWrite, SMTT(30) DEF IInv, update_settings
<1>5. PeerTypes'
  BY <1>1 DEF IInv, PeerTypes, update_settings, peerVars
<1>6. CallTypes'
  <2>1. items' \in Seq(Items) /\ known' \in BOOLEAN
    BY <1>0, SMTT(30) DEF update_settings
  <2> QED
    BY <2>1, SMTT(30) DEF IInv, CallTypes, update_settings
<1>7. SockTypes'
  BY SMTT(30) DEF IInv, SockTypes, sockVars, update_settings
<1>8. SettingsTimed' /\ ReadsWhileOpen' /\ Control'
  BY <1>0 DEF IInv, SettingsTimed, ReadsWhileOpen, Control, update_settings, sockVars,
              writeVars
<1> QED
  BY <1>2, <1>3, <1>4, <1>5, <1>6, <1>7, <1>8, SMTT(30) DEF IInv

\* A parameter refused by update_settings keeps the invariant.
LEMMA UpdateErrorIInv ==
  ASSUME IInv, update_settings_error
  PROVE  IInv'
<1>0. /\ items' = <<>> /\ known' = FALSE /\ phase \in {"update", "update_first"}
      /\ UNCHANGED <<last_opened_stream_id, streamVars, inbuf, timer, written, peerVars,
                     granted>>
  BY Zenon DEF update_settings_error, At
<1>1. StreamTypes' /\ PeerTypes'
  BY <1>0, SameStream, SamePeer DEF IInv
<1>2. CallTypes'
  <2>1. items' \in Seq(Items)
    BY <1>0, EmptyFacts
  <2> QED
    BY <1>0, <2>1, Zenon DEF IInv, CallTypes
<1>3. CASE http2_error(queue, 0) /\ phase' = "receiving"
  <2>1. CtxTypes'
    BY <1>0, <1>3, ErrorKeeps, SMTT(30) DEF IInv, CtxTypes, States
  <2>2. SockTypes'
    BY <1>0, <1>3, ErrorKeeps, SMTT(30) DEF IInv, SockTypes, Phases, ReadCallbacks
  <2>3. SettingsTimed' /\ ReadsWhileOpen' /\ Control'
    BY <1>0, <1>3, ErrorKeeps DEF IInv, SettingsTimed, ReadsWhileOpen, Control, streamVars
  <2> QED
    BY <1>1, <1>2, <1>3, <2>1, <2>2, <2>3, ErrorKeeps, SMTT(30) DEF IInv
<1>4. CASE /\ phase = "update_first"
           /\ state' = "READY" /\ flags' = flags \cap {"GOAWAY_SENT"}
           /\ read_cb' = "none"
           /\ failed' = "event_read: event"
           /\ phase' = "close"
           /\ UNCHANGED <<wlen, queue, in_use, resp, lost, sock, wopen, window_size,
                          initial_window_size>>
  <2>1. CtxTypes'
    BY <1>0, <1>4, Zenon DEF IInv, CtxTypes, States
  <2>2. SockTypes'
    BY <1>0, <1>4, Zenon DEF IInv, SockTypes, Phases
  <2>3. Written'
    BY <1>4, Zenon DEF IInv, Written, WriteTypes, PoolConserved
  <2>4. SettingsTimed' /\ ReadsWhileOpen' /\ Control'
    BY <1>0, <1>4, Zenon DEF IInv, SettingsTimed, ReadsWhileOpen, Control, streamVars
  <2> QED
    BY <1>1, <1>2, <2>1, <2>2, <2>3, <2>4 DEF IInv
<1> QED
  BY <1>3, <1>4, Zenon DEF update_settings_error

\* The end of update_settings keeps the invariant.
LEMMA UpdateEndIInv ==
  ASSUME IInv, update_settings_end
  PROVE  IInv'
<1>0. /\ phase \in {"update", "update_first"} /\ failed = "none" /\ known' = FALSE
      /\ UNCHANGED <<flags, last_opened_stream_id, window_size, initial_window_size,
                     streamVars, sock, wopen, inbuf, timer, written, items, peerVars,
                     granted>>
  BY DEF update_settings_end, At
<1>1. \/ /\ phase = "update" /\ phase' = "receiving" /\ UNCHANGED <<state, read_cb>>
      \/ /\ phase = "update_first" /\ phase' = "close"
         /\ state' = "READY" /\ read_cb' = "receiving"
  BY DEF update_settings_end
<1>2. Written' /\ (failed' = "none" => failed = "none")
  <2>1. CASE UNCHANGED writeVars
    BY <2>1, SameWrite DEF IInv, writeVars
  <2>2. CASE event_write(queue, 0, Frame("SETTINGS_ACK", 0, FALSE, 0),
                         "close_on_write_error")
    BY <2>2, AnswerKeeps, Zenon DEF SentKinds, Callbacks
  <2> QED
    BY <2>1, <2>2, Zenon DEF update_settings_end
<1>3. CtxTypes'
  BY <1>0, <1>1 DEF IInv, CtxTypes, States
<1>4. StreamTypes' /\ PeerTypes'
  BY <1>0, SameStream, SamePeer DEF IInv
<1>5. CallTypes'
  BY <1>0, ZenonT(40) DEF IInv, CallTypes
<1>6. SockTypes'
  BY <1>0, <1>1, SMTT(30) DEF IInv, SockTypes, Phases, ReadCallbacks
<1>7. SettingsTimed' /\ ReadsWhileOpen' /\ Control'
  BY <1>0, <1>1, <1>2 DEF IInv, SettingsTimed, ReadsWhileOpen, Control, streamVars
<1> QED
  BY <1>2, <1>3, <1>4, <1>5, <1>6, <1>7, SMTT(30) DEF IInv

\* handle_goaway_frame keeps the invariant.
LEMMA GoawayIInv ==
  ASSUME IInv, handle_goaway_frame
  PROVE  IInv'
<1> DEFINE f == Head(inbuf)
<1>0. phase = "receiving" /\ inbuf # <<>> /\ failed = "none"
  BY HandlingFrame, Zenon DEF handle_goaway_frame
<1>1. CASE Refuse
  BY <1>0, <1>1, RefuseKeeps
<1>2. CASE http2_close_immediate /\ Continue /\ UNCHANGED <<writeVars, granted, notHandled>>
  <2>1. CtxTypes' /\ StreamTypes' /\ Written' /\ PeerTypes'
    BY <1>2, ImmediateKeeps, SameWrite, SamePeer DEF IInv, notHandled
  <2>2. CallTypes'
    BY <1>0, <1>2, TailCall DEF IInv, Continue, notHandled
  <2>3. SockTypes'
    BY <1>2, ZenonT(40) DEF IInv, SockTypes, http2_close_immediate, Continue, notHandled, Phases,
                ReadCallbacks
  <2>4. SettingsTimed' /\ ReadsWhileOpen' /\ Control'
    BY <1>0, <1>2 DEF IInv, SettingsTimed, ReadsWhileOpen, Control, http2_close_immediate,
                      Continue, notHandled, writeVars
  <2> QED
    BY <2>1, <2>2, <2>3, <2>4 DEF IInv
<1>3. CASE /\ Continue
           /\ UNCHANGED <<ctxVars, streamVars, sockVars, writeVars, granted, notHandled>>
  BY <1>0, <1>3, SkipKeeps DEF Continue
<1>4. CASE /\ flags' = flags \cup {"GOAWAY_RECV"}
           /\ stream_state' = IF stream_id > f.arg THEN "CLOSED" ELSE stream_state
           /\ state' = "CLOSING"
           /\ \/ /\ read_cb # "none"
                 /\ read_cb' = "receiving"
                 /\ event_write(queue, 0, Frame("GOAWAY", 0, FALSE, 0),
                                "close_on_goaway_sent")
              \/ /\ read_cb = "none"
                 /\ failed' = "event_read: event"
                 /\ UNCHANGED <<read_cb, wlen, queue, in_use, resp, lost>>
           /\ Continue
           /\ UNCHANGED <<last_opened_stream_id, window_size, initial_window_size,
                          stream_id, stream_window, buf, buflen, bufptr, sock, wopen,
                          granted, notHandled>>
  <2>1. Written'
    <3>1. CASE event_write(queue, 0, Frame("GOAWAY", 0, FALSE, 0), "close_on_goaway_sent")
      BY <3>1, AnswerKeeps, Zenon DEF SentKinds, Callbacks
    <3>2. CASE /\ failed' = "event_read: event"
               /\ UNCHANGED <<read_cb, wlen, queue, in_use, resp, lost>>
      BY <3>2, Zenon DEF IInv, Written, WriteTypes, PoolConserved
    <3> QED
      BY <1>4, <3>1, <3>2, Zenon
  <2>2. CtxTypes'
    BY <1>4, Zenon DEF IInv, CtxTypes, States, Flags
  <2>3. StreamTypes'
    BY <1>4, Zenon DEF IInv, StreamTypes
  <2>4. PeerTypes'
    BY <1>4, SamePeer, Zenon DEF IInv, notHandled
  <2>5. CallTypes'
    BY <1>0, <1>4, TailCall, Zenon DEF IInv, Continue, notHandled
  <2>6. SockTypes'
    BY <1>4, Zenon DEF IInv, SockTypes, Continue, notHandled, Phases, ReadCallbacks
  <2>7. SettingsTimed' /\ ReadsWhileOpen' /\ Control'
    BY <1>0, <1>4, ZenonT(40) DEF IInv, SettingsTimed, ReadsWhileOpen, Control, Continue, notHandled
  <2> QED
    BY <2>1, <2>2, <2>3, <2>4, <2>5, <2>6, <2>7 DEF IInv
<1> QED
  BY <1>1, <1>2, <1>3, <1>4, Zenon DEF handle_goaway_frame

\* handle_ping_frame keeps the invariant.
LEMMA PingIInv ==
  ASSUME IInv, handle_ping_frame
  PROVE  IInv'
<1>0. phase = "receiving" /\ inbuf # <<>> /\ failed = "none"
  BY HandlingFrame DEF handle_ping_frame
<1>1. CASE Refuse
  BY <1>0, <1>1, RefuseKeeps
<1>2. CASE /\ \/ UNCHANGED writeVars
              \/ event_write(queue, 0, Frame("PING", 0, FALSE, 0), "close_on_write_error")
           /\ Continue
           /\ UNCHANGED <<ctxVars, streamVars, sockVars, granted, notHandled>>
  <2>1. Written'
    BY <1>2, AnswerKeeps, SameWrite, Zenon DEF SentKinds, Callbacks, IInv
  <2>2. CtxTypes' /\ StreamTypes' /\ PeerTypes'
    BY <1>2, SameCtx, SameStream, SamePeer, SMTT(30) DEF IInv, notHandled
  <2>3. CallTypes'
    BY <1>0, <1>2, TailCall DEF IInv, Continue, notHandled
  <2>4. SockTypes'
    BY <1>2, SMTT(30) DEF IInv, SockTypes, sockVars, Continue, notHandled, Phases, ReadCallbacks
  <2>5. SettingsTimed' /\ ReadsWhileOpen' /\ Control'
    <3>1. SettingsTimed /\ ReadsWhileOpen /\ Control
      BY Zenon DEF IInv
    <3>2. /\ phase' = "receiving" /\ sock' = sock /\ read_cb' = read_cb /\ wopen' = wopen
          /\ state' = state /\ flags' = flags /\ timer' = timer
          /\ stream_id' = stream_id /\ last_opened_stream_id' = last_opened_stream_id
      BY <1>2, Zenon DEF Continue, notHandled, ctxVars, streamVars, sockVars
    <3>3. stream_id' = last_opened_stream_id'
      BY <3>1, <3>2, Zenon DEF Control
    <3> QED
      BY <1>0, <3>1, <3>2, <3>3, ReceivingControl, Zenon
  <2> QED
    BY <2>1, <2>2, <2>3, <2>4, <2>5 DEF IInv
<1> QED
  BY <1>1, <1>2, Zenon DEF handle_ping_frame

\* handle_rst_stream_frame keeps the invariant.
LEMMA ResetIInv ==
  ASSUME IInv, handle_rst_stream_frame
  PROVE  IInv'
<1> DEFINE f == Head(inbuf)
<1>0. phase = "receiving" /\ inbuf # <<>> /\ failed = "none"
  BY HandlingFrame DEF handle_rst_stream_frame
<1>1. CASE Refuse
  BY <1>0, <1>1, RefuseKeeps
<1>2. CASE /\ stream_state' = "CLOSED"
           /\ resp' = [resp EXCEPT ![f.sid] = IF @ = "broken" THEN @ ELSE "reset"]
           /\ Continue
           /\ UNCHANGED <<ctxVars, stream_id, stream_window, buf, buflen, bufptr, sockVars,
                          wlen, queue, in_use, failed, lost, granted, notHandled>>
  <2>1. resp' \in [StreamIds -> Answers]
    BY <1>2, ZenonT(40) DEF IInv, Written, WriteTypes, Answers
  <2>2. Written'
    BY <1>2, <2>1, Zenon DEF IInv, Written, WriteTypes, PoolConserved
  <2>3. CtxTypes' /\ PeerTypes'
    BY <1>2, SameCtx, SamePeer, SMTT(30) DEF IInv, notHandled
  <2>4. StreamTypes'
    BY <1>2 DEF IInv, StreamTypes
  <2>5. CallTypes'
    BY <1>0, <1>2, TailCall, SMTT(30) DEF IInv, Continue, notHandled
  <2>6. SockTypes'
    BY <1>2, SMTT(30) DEF IInv, SockTypes, sockVars, Continue, notHandled, Phases, ReadCallbacks
  <2>7. SettingsTimed' /\ ReadsWhileOpen' /\ Control'
    BY <1>0, <1>2 DEF IInv, SettingsTimed, ReadsWhileOpen, Control, Continue, notHandled,
                      ctxVars, sockVars
  <2> QED
    BY <2>2, <2>3, <2>4, <2>5, <2>6, <2>7, SMTT(30) DEF IInv
<1> QED
  BY <1>1, <1>2 DEF handle_rst_stream_frame

\* handle_window_update_frame keeps the invariant: no window leaves its range.
LEMMA WindowUpdateIInv ==
  ASSUME IInv, handle_window_update_frame
  PROVE  IInv'
<1> DEFINE f  == Head(inbuf)
           sw == stream_window + f.arg
<1>0. phase = "receiving" /\ inbuf # <<>> /\ failed = "none"
  BY HandlingFrame, Zenon DEF handle_window_update_frame
<1>1. f.sid \in StreamIds \cup {0} /\ f.arg \in Nat
  BY <1>0, HeadFrame, SMTT(30) DEF IInv
<1>2. CASE Refuse
  BY <1>0, <1>2, RefuseKeeps
<1>3. CASE /\ ~(window_size + f.arg > MaxWindow)
           /\ window_size' = window_size + f.arg
           /\ Continue
           /\ UNCHANGED <<state, flags, last_opened_stream_id, initial_window_size,
                          streamVars, sockVars, writeVars, granted, notHandled>>
  <2>1. window_size' \in 0 .. MaxWindow
    <3>1. ASSUME NEW w \in Nat, NEW a \in Nat, NEW m \in Nat, ~(w + a > m)
          PROVE  w + a \in 0 .. m
      BY <3>1
    <3>2. window_size \in Nat /\ MaxWindow \in Nat
      BY SizesAssumption DEF IInv, CtxTypes
    <3> QED
      BY <1>1, <1>3, <3>1, <3>2, Zenon
  <2>2. CtxTypes'
    BY <1>3, <2>1, SMTT(30) DEF IInv, CtxTypes
  <2>3. /\ inbuf' = Tail(inbuf) /\ phase' = "receiving"
        /\ UNCHANGED <<state, flags, timer, last_opened_stream_id>>
        /\ UNCHANGED callVars /\ UNCHANGED peerVars
        /\ UNCHANGED streamVars /\ UNCHANGED sockVars /\ UNCHANGED writeVars /\ UNCHANGED granted
    BY <1>3, Zenon DEF Continue, notHandled
  <2>4. StreamTypes' /\ PeerTypes' /\ Written'
    BY <2>3, SameStream, SamePeer, SameWrite, Zenon DEF IInv
  <2>5. CallTypes'
    BY <1>0, <2>3, TailCall, Zenon DEF IInv
  <2>6. SockTypes'
    BY <2>3, SMTT(30) DEF IInv, SockTypes, sockVars, Phases, ReadCallbacks
  <2>7. SettingsTimed' /\ ReadsWhileOpen' /\ Control'
    <3>1. SettingsTimed /\ ReadsWhileOpen /\ Control
      BY Zenon DEF IInv
    <3>2. /\ phase' = "receiving" /\ sock' = sock /\ read_cb' = read_cb /\ wopen' = wopen
          /\ state' = state /\ flags' = flags /\ timer' = timer /\ failed' = failed
          /\ stream_id' = stream_id /\ last_opened_stream_id' = last_opened_stream_id
      BY <2>3, Zenon DEF streamVars, sockVars, writeVars
    <3>3. stream_id' = last_opened_stream_id'
      BY <3>1, <3>2, Zenon DEF Control
    <3> QED
      BY <1>0, <3>1, <3>2, <3>3, ReceivingControl, Zenon
  <2> QED
    BY <2>2, <2>4, <2>5, <2>6, <2>7, Zenon DEF IInv
<1>4. CASE http2_stream_error(stream_id)
  <2>1. stream_id \in StreamIds \cup {0}
    BY DEF IInv, StreamTypes
  <2> QED
    BY <1>0, <1>4, <2>1, StreamErrorKeeps
<1>5. CASE /\ sw \in 0 .. MaxWindow
           /\ http2_continue_send(queue, 0, sw)
           /\ granted' = Charge([granted EXCEPT ![f.sid] = @ + f.arg])
           /\ Continue
           /\ UNCHANGED <<state, flags, last_opened_stream_id, initial_window_size, stream_id,
                          stream_state, sockVars, notHandled>>
  <2>1. Taken(queue, 0) /\ sw \in -(MaxWindow + 1) .. MaxWindow
    <3>1. Taken(queue, 0)
      BY TakenQueue DEF IInv
    <3>2. MaxWindow \in Nat
      BY SizesAssumption
    <3>3. ASSUME NEW m \in Nat, NEW x \in 0 .. m PROVE x \in -(m + 1) .. m
      BY SMTT(30)
    <3> HIDE DEF sw
    <3> QED
      BY <1>5, <3>1, <3>2, <3>3, Zenon
  <2> HIDE DEF sw
  <2>2. /\ Written' /\ (failed' = "none" => failed = "none")
        /\ window_size' \in 0 .. MaxWindow
        /\ stream_window' \in -(MaxWindow + 1) .. MaxWindow
        /\ buf' \in {"empty", "block", "cut", "body"}
        /\ buflen' \in 0 .. StreamBufSize /\ bufptr' \in Nat
    BY <1>5, <2>1, SendKeeps, Zenon
  <2>3. CtxTypes' /\ StreamTypes'
    <3>1. UNCHANGED <<state, flags, last_opened_stream_id, initial_window_size, stream_id,
                      stream_state>>
      BY <1>5, Zenon
    <3>2. CtxTypes /\ StreamTypes
      BY Zenon DEF IInv
    <3>3. CtxTypes'
      BY <2>2, <3>1, <3>2, Zenon DEF CtxTypes
    <3>4. StreamTypes'
      BY <2>2, <3>1, <3>2, Zenon DEF StreamTypes
    <3> QED
      BY <3>3, <3>4
  <2>4. granted' \in [StreamIds -> Int]
    <3>1. [granted EXCEPT ![f.sid] = @ + f.arg] \in [StreamIds -> Int]
      BY <1>1, GrantType DEF IInv, PeerTypes
    <3>2. buflen \in Int /\ buflen' \in Int
      BY <2>2, SizesAssumption DEF IInv, StreamTypes
    <3> QED
      BY <1>5, <3>1, <3>2, ChargeType, Zenon
  <2>5. PeerTypes'
    BY <1>5, <2>4, ZenonT(40) DEF IInv, PeerTypes, peerVars, notHandled
  <2>6. /\ inbuf' = Tail(inbuf) /\ phase' = "receiving"
        /\ UNCHANGED <<state, flags, timer, last_opened_stream_id, stream_id>>
        /\ UNCHANGED callVars /\ UNCHANGED sockVars
    BY <1>5, Zenon DEF Continue, notHandled
  <2>7. CallTypes'
    BY <1>0, <2>6, TailCall, Zenon DEF IInv
  <2>8. SockTypes'
    BY <2>6, SMTT(30) DEF IInv, SockTypes, sockVars, Phases, ReadCallbacks
  <2>9. SettingsTimed' /\ ReadsWhileOpen' /\ Control'
    <3>1. SettingsTimed /\ ReadsWhileOpen /\ Control
      BY Zenon DEF IInv
    <3>2. /\ sock' = sock /\ read_cb' = read_cb /\ wopen' = wopen
          /\ state' = state /\ flags' = flags /\ timer' = timer
          /\ stream_id' = stream_id /\ last_opened_stream_id' = last_opened_stream_id
      BY <2>6, Zenon DEF sockVars
    <3>3. stream_id' = last_opened_stream_id'
      BY <3>1, <3>2, Zenon DEF Control
    <3> QED
      BY <1>0, <2>2, <2>6, <3>1, <3>2, <3>3, ReceivingControl, Zenon
  <2> QED
    BY <2>2, <2>3, <2>5, <2>7, <2>8, <2>9, Zenon DEF IInv
<1> QED
  BY <1>2, <1>3, <1>4, <1>5, Zenon DEF handle_window_update_frame

----------------------------------------------------------------------------
(* Requests *)

\* What handling a part of a request may do, apart from the stream's state,
\* id, window and bufptr.
Handled ==
  /\ Written'
  /\ state' \in {state, "CLOSING"}
  /\ flags' \subseteq Flags
  /\ "WAITING_SETTINGS_ACK" \in flags' => "WAITING_SETTINGS_ACK" \in flags
  /\ buflen' \in 0 .. StreamBufSize /\ buf' \in {"empty", "block", "cut", "body"}
  /\ UNCHANGED <<sock, wopen, window_size, initial_window_size>>
  /\ read_cb' \in {read_cb, "none"}
  /\ phase' \in {"receiving", "close"}
  /\ inbuf' = Tail(inbuf) \/ inbuf' = <<>>
  /\ failed' = "none" => failed = "none" /\ (state' = state \/ sock = "CONNECTED")

\* The arguments with which the handlers call each other.
Arguments(fl, bl, holds, id) ==
  /\ fl \subseteq Flags /\ ("WAITING_SETTINGS_ACK" \in fl => "WAITING_SETTINGS_ACK" \in flags)
  /\ bl \in 0 .. StreamBufSize /\ holds \in {"empty", "block", "cut", "body"}
  /\ id \in StreamIds \cup {0}

\* An error met in the handling of a header block.
LEMMA ErrorHandled ==
  ASSUME IInv, failed = "none", http2_error(queue, 0), Continue \/ Discard,
         NEW bl \in 0 .. StreamBufSize, NEW holds \in {"empty", "block", "cut", "body"},
         buflen' = bl, buf' = holds
  PROVE  Handled
  BY ErrorKeeps DEF Handled, Continue, Discard

\* A handler that goes on with the batch and leaves the socket alone.
LEMMA GoesOnHandled ==
  ASSUME failed = "none", Written', Continue,
         UNCHANGED <<state, sockVars, window_size, initial_window_size>>,
         buflen' \in 0 .. StreamBufSize, buf' \in {"empty", "block", "cut", "body"},
         flags' \subseteq Flags,
         "WAITING_SETTINGS_ACK" \in flags' => "WAITING_SETTINGS_ACK" \in flags
  PROVE  Handled
<1>1. UNCHANGED <<sock, wopen, window_size, initial_window_size>> /\ read_cb' = read_cb /\ state' = state
  BY Zenon DEF sockVars
<1>2. inbuf' = Tail(inbuf) /\ phase' = "receiving"
  BY Zenon DEF Continue
<1> QED
  BY <1>1, <1>2, Zenon DEF Handled

\* handle_end_stream, whether it answers or refuses the request.
LEMMA EndStreamHandled ==
  ASSUME IInv, failed = "none", NEW fl, NEW bl, NEW holds, NEW id,
         Arguments(fl, bl, holds, id),
         \/ handle_end_stream(fl, bl, holds, id, Discard)
         \/ handle_end_stream(fl, bl, holds, id, Continue)
  PROVE  Handled
<1>1. CASE http2_error(queue, 0) /\ buflen' = bl /\ buf' = holds /\ (Discard \/ Continue)
  BY <1>1, ErrorHandled, SMTT(30) DEF Arguments
<1>2. CASE EndStreamAnswers(fl, holds, id)
  <2>1. PICK n \in Bodies :
          /\ buflen' = n /\ buf' = "body"
          /\ event_write(queue, 0, Frame("HEADERS", id, n = 0, 0),
                         "on_stream_send_complete")
    BY <1>2 DEF EndStreamAnswers
  <2>2. (n = 0) \in BOOLEAN /\ n \in 0 .. StreamBufSize
    BY SizesAssumption
  <2>3. Written'
    BY <2>1, <2>2, AnswerKeeps, Zenon DEF SentKinds, Callbacks, Arguments
  <2>4. /\ flags' = fl /\ Continue
        /\ UNCHANGED <<state, sockVars, window_size, initial_window_size>>
    BY <1>2, Zenon DEF EndStreamAnswers
  <2>5. buflen' \in 0 .. StreamBufSize /\ buf' \in {"empty", "block", "cut", "body"}
    BY <2>1, <2>2, Zenon
  <2>6. flags' \subseteq Flags /\ ("WAITING_SETTINGS_ACK" \in flags' => "WAITING_SETTINGS_ACK" \in flags)
    BY <2>4, Zenon DEF Arguments
  <2> QED
    BY <2>3, <2>4, <2>5, <2>6, GoesOnHandled, Zenon
<1> QED
  BY <1>1, <1>2 DEF handle_end_stream, EndStreamFails

\* handle_header_block, whose buffer never takes more than it holds.
LEMMA BlockHandled ==
  ASSUME IInv, failed = "none", NEW f \in Frames, NEW fl, NEW bl, NEW holds, NEW id,
         NEW st \in {"CLOSED", "OPEN", "HALF_CLOSED_REMOTE"},
         Arguments(fl, bl, holds, id),
         handle_header_block(f, fl, st, bl, holds, id)
  PROVE  Handled /\ stream_state' \in {"CLOSED", "OPEN", "HALF_CLOSED_REMOTE"}
<1> DEFINE copylen == Min(f.arg, StreamBufSize - bl)
           trailer == "WAITING_TRAILERS" \in fl
           fl2     == fl \ ((IF "END_STREAM" \in f.flags THEN {"WAITING_END_STREAM"} ELSE {})
                       \cup (IF "END_HEADERS" \in f.flags THEN {"WAITING_END_HEADERS"} ELSE {}))
           bl2     == IF trailer THEN bl ELSE bl + copylen
           holds2  == IF trailer THEN holds
                      ELSE IF copylen < f.arg \/ holds = "cut" THEN "cut" ELSE "block"
<1>1. f.arg \in Nat
  BY PeerAssumption, Zenon DEF RecvFrames
<1>2. CASE /\ http2_error(queue, 0)
           /\ stream_state' = st /\ buflen' = bl /\ buf' = holds
           /\ Discard
  BY <1>2, ErrorHandled, SMTT(30) DEF Arguments
<1>3. CASE /\ copylen > 0
           /\ stream_state' = IF "END_STREAM" \in f.flags THEN "HALF_CLOSED_REMOTE" ELSE st
           /\ \/ /\ Waiting(fl2)
                 /\ flags' = fl2 /\ buflen' = bl2 /\ buf' = holds2
                 /\ Continue
                 /\ UNCHANGED <<state, sockVars, writeVars, window_size, initial_window_size>>
              \/ /\ ~Waiting(fl2)
                 /\ handle_end_stream(fl2, bl2, holds2, id, Discard)
  <2>1. Arguments(fl2, bl2, holds2, id)
    <3>1. fl2 \subseteq Flags
          /\ ("WAITING_SETTINGS_ACK" \in fl2 => "WAITING_SETTINGS_ACK" \in flags)
      BY DEF Arguments
    <3>2. bl2 \in 0 .. StreamBufSize
      <4>1. ASSUME NEW s \in Nat, NEW b \in 0 .. s, NEW a \in Nat
            PROVE  Min(a, s - b) > 0 => b + Min(a, s - b) \in 0 .. s
        BY SMTT(30) DEF Min
      <4>2. StreamBufSize \in Nat /\ bl \in 0 .. StreamBufSize
        BY SizesAssumption, SMTT(30) DEF Arguments
      <4> QED
        BY <1>1, <1>3, <4>1, <4>2, Zenon
    <3>3. holds2 \in {"empty", "block", "cut", "body"}
      BY SMTT(30) DEF Arguments
    <3>4. id \in StreamIds \cup {0}
      BY Zenon DEF Arguments
    <3> HIDE DEF fl2, bl2, holds2
    <3> QED
      BY <3>1, <3>2, <3>3, <3>4, Zenon DEF Arguments
  <2>2. stream_state' \in {"CLOSED", "OPEN", "HALF_CLOSED_REMOTE"}
    BY <1>3, Zenon
  <2> HIDE DEF fl2, bl2, holds2
  <2>3. CASE /\ flags' = fl2 /\ buflen' = bl2 /\ buf' = holds2
             /\ Continue
             /\ UNCHANGED <<state, sockVars, writeVars, window_size, initial_window_size>>
    <3>1. Written'
      BY <2>3, SameWrite, SMTT(30) DEF IInv
    <3>2. buflen' \in 0 .. StreamBufSize /\ buf' \in {"empty", "block", "cut", "body"}
      BY <2>1, <2>3, Zenon DEF Arguments
    <3>3. flags' \subseteq Flags /\ ("WAITING_SETTINGS_ACK" \in flags' => "WAITING_SETTINGS_ACK" \in flags)
      BY <2>1, <2>3, Zenon DEF Arguments
    <3>4. Continue /\ UNCHANGED <<state, sockVars, window_size, initial_window_size>>
      BY <2>3, Zenon
    <3> QED
      BY <2>2, <3>1, <3>2, <3>3, <3>4, GoesOnHandled, Zenon
  <2>4. CASE handle_end_stream(fl2, bl2, holds2, id, Discard)
    BY <2>1, <2>2, <2>4, EndStreamHandled, SMTT(30)
  <2> QED
    BY <1>3, <2>3, <2>4, ZenonT(40)
<1> QED
  BY <1>2, <1>3, Zenon DEF handle_header_block

\* What follows for the connection.
LEMMA HandledKeeps ==
  ASSUME IInv, Handled, phase = "receiving", inbuf # <<>>,
         stream_state' \in {"CLOSED", "OPEN", "HALF_CLOSED_REMOTE"},
         stream_id' \in StreamIds \cup {0}, last_opened_stream_id' = stream_id',
         stream_window' \in -(MaxWindow + 1) .. MaxWindow, bufptr' \in Nat,
         granted' \in [StreamIds -> Int], UNCHANGED notHandled
  PROVE  IInv'
<1>1. CtxTypes'
  BY SMTT(30) DEF IInv, CtxTypes, Handled, States
<1>2. StreamTypes'
  BY DEF StreamTypes, Handled
<1>3. PeerTypes'
  BY DEF IInv, PeerTypes, notHandled, peerVars
<1>4. CallTypes'
  BY TailCall, SMTT(30) DEF IInv, Handled, notHandled
<1>5. SockTypes'
  <2>1. SockTypes
    BY Zenon DEF IInv
  <2>2. /\ sock' = sock /\ wopen' = wopen /\ timer' = timer
        /\ read_cb' \in {read_cb, "none"} /\ phase' \in {"receiving", "close"}
    BY Zenon DEF Handled, notHandled
  <2>3. phase' \in Phases
    BY <2>2, Zenon DEF Phases, ReadCallbacks
  <2>4. /\ sock \in {"CONNECTED", "CLOSING", "CLOSED"} /\ wopen \in BOOLEAN
        /\ timer \in {"on", "off"} /\ read_cb \in ReadCallbacks \cup {"none"}
    BY <2>1, Zenon DEF SockTypes
  <2>5. read_cb' \in ReadCallbacks \cup {"none"}
    BY <2>2, <2>4, Zenon
  <2>6. sock' \in {"CONNECTED", "CLOSING", "CLOSED"} /\ wopen' \in BOOLEAN /\ timer' \in {"on", "off"}
    BY <2>2, <2>4, Zenon
  <2> QED
    BY <2>3, <2>5, <2>6, Zenon DEF SockTypes
<1>6. SettingsTimed' /\ ReadsWhileOpen' /\ Control'
  <2>1. SettingsTimed /\ ReadsWhileOpen /\ Control
    BY Zenon DEF IInv
  <2>2. /\ sock' = sock /\ wopen' = wopen /\ timer' = timer /\ state' \in {state, "CLOSING"}
        /\ read_cb' \in {read_cb, "none"} /\ phase' \in {"receiving", "close"}
        /\ "WAITING_SETTINGS_ACK" \in flags' => "WAITING_SETTINGS_ACK" \in flags
        /\ failed' = "none" => failed = "none" /\ (state' = state \/ sock = "CONNECTED")
    BY Zenon DEF Handled, notHandled
  <2>3. SettingsTimed'
    BY <2>1, <2>2, Zenon DEF SettingsTimed
  <2>4. ReadsWhileOpen'
    BY <2>1, <2>2, Zenon DEF ReadsWhileOpen
  <2>5. sock # "CLOSED" /\ (failed = "none" => (state = "CLOSED" <=> sock # "CONNECTED"))
    BY <2>1, Zenon DEF Control
  <2>6. phase' \notin {"free", "waiting_for_preface", "waiting_for_settings", "update_first"}
    BY <2>2
  <2>7. failed' = "none" => (state' = "CLOSED" <=> sock' # "CONNECTED")
    BY <2>2, <2>5
  <2> QED
    BY <2>2, <2>3, <2>4, <2>5, <2>6, <2>7, Zenon DEF Control
<1>7. Written'
  BY Zenon DEF Handled
<1> QED
  BY <1>1, <1>2, <1>3, <1>4, <1>5, <1>6, <1>7, Zenon DEF IInv

\* The same for the stream that is already open.
LEMMA HandledSameStream ==
  ASSUME IInv, Handled, phase = "receiving", inbuf # <<>>,
         stream_state' \in {"CLOSED", "OPEN", "HALF_CLOSED_REMOTE"},
         UNCHANGED <<last_opened_stream_id, stream_id, stream_window, bufptr, granted,
                     notHandled>>
  PROVE  IInv'
<1>1. /\ stream_id' \in StreamIds \cup {0} /\ last_opened_stream_id' = stream_id'
      /\ stream_window' \in -(MaxWindow + 1) .. MaxWindow /\ bufptr' \in Nat
      /\ granted' \in [StreamIds -> Int]
  BY SMTT(30) DEF IInv, StreamTypes, PeerTypes, Control
<1> QED
  BY <1>1, HandledKeeps, SMTT(30)

\* handle_data_frame, whatever handle_end_stream returns.
LEMMA DataIInv ==
  ASSUME IInv, handle_data_frame
  PROVE  IInv'
<1> DEFINE f  == Head(inbuf)
           fl == IF "END_STREAM" \in f.flags THEN flags \ {"WAITING_END_STREAM"} ELSE flags
<1>1. phase = "receiving" /\ phase # "free" /\ failed = "none" /\ inbuf # <<>>
  BY HandlingFrame, Zenon DEF handle_data_frame
<1>2. f \in Frames /\ f.sid \in StreamIds \cup {0}
  BY <1>1, HeadFrame DEF IInv
<1>3. CASE Refuse
  BY <1>1, <1>3, RefuseKeeps
<1>4. CASE http2_stream_error(f.sid)
  BY <1>1, <1>2, <1>4, StreamErrorKeeps, SMTT(30)
<1>5. CASE /\ stream_state' = IF "END_STREAM" \in f.flags THEN "HALF_CLOSED_REMOTE"
                              ELSE stream_state
           /\ \/ /\ flags' = fl
                 /\ Continue
                 /\ UNCHANGED <<state, sockVars, writeVars, window_size, initial_window_size,
                                buf, buflen>>
              \/ handle_end_stream(fl, buflen, buf, stream_id, Continue)
           /\ UNCHANGED <<last_opened_stream_id, stream_id, stream_window, bufptr, granted,
                          notHandled>>
  <2>1. Arguments(fl, buflen, buf, stream_id)
    BY SMTT(30) DEF Arguments, IInv, CtxTypes, StreamTypes
  <2> HIDE DEF fl
  <2>2. stream_state' \in {"CLOSED", "OPEN", "HALF_CLOSED_REMOTE"}
    <3>1. stream_state \in {"CLOSED", "OPEN", "HALF_CLOSED_REMOTE"}
      BY Zenon DEF IInv, StreamTypes
    <3>2. stream_state' = "HALF_CLOSED_REMOTE" \/ stream_state' = stream_state
      BY <1>5, Zenon
    <3> QED BY <3>1, <3>2, Zenon
  <2> HIDE DEF f
  <2>3. CASE /\ flags' = fl
             /\ Continue
             /\ UNCHANGED <<state, sockVars, writeVars, window_size, initial_window_size,
                            buf, buflen>>
    <3>1. Written'
      <4>1. Written /\ UNCHANGED writeVars
        BY <2>3, Zenon DEF IInv
      <4> QED BY <4>1, SameWrite, Zenon
    <3>2. Handled
      BY <1>1, <2>1, <2>3, <3>1, SMTT(30) DEF Handled, Arguments, Continue, sockVars, writeVars
    <3> QED
      BY <1>1, <1>5, <2>2, <3>2, HandledSameStream, ZenonT(30)
  <2>4. CASE handle_end_stream(fl, buflen, buf, stream_id, Continue)
    <3>1. Handled
      BY <1>1, <2>1, <2>4, EndStreamHandled, ZenonT(30)
    <3> QED
      BY <1>1, <1>5, <2>2, <3>1, HandledSameStream, ZenonT(30)
  <2> QED
    BY <1>5, <2>3, <2>4, ZenonT(40)
<1> QED
  BY <1>3, <1>4, <1>5, ZenonT(40) DEF handle_data_frame

\* handle_continuation_frame.
LEMMA ContinuationIInv ==
  ASSUME IInv, handle_continuation_frame
  PROVE  IInv'
<1> DEFINE f == Head(inbuf)
<1>1. phase = "receiving" /\ phase # "free" /\ failed = "none" /\ inbuf # <<>>
  BY HandlingFrame, SMTT(30) DEF handle_continuation_frame
<1>2. f \in Frames
  BY <1>1, HeadFrame, SMTT(30) DEF IInv
<1>3. CASE Refuse
  BY <1>1, <1>3, RefuseKeeps
<1>4. CASE /\ handle_header_block(f, flags, stream_state, buflen, buf, stream_id)
           /\ UNCHANGED <<last_opened_stream_id, stream_id, stream_window, bufptr, granted,
                          notHandled>>
  <2>1. Arguments(flags, buflen, buf, stream_id)
        /\ stream_state \in {"CLOSED", "OPEN", "HALF_CLOSED_REMOTE"}
    BY SMTT(30) DEF Arguments, IInv, CtxTypes, StreamTypes
  <2>2. Handled /\ stream_state' \in {"CLOSED", "OPEN", "HALF_CLOSED_REMOTE"}
    BY <1>1, <1>2, <1>4, <2>1, BlockHandled, SMTT(30)
  <2> QED
    BY <1>1, <1>4, <2>2, HandledSameStream, SMTT(30)
<1> QED
  BY <1>3, <1>4, SMTT(30) DEF handle_continuation_frame

\* handle_headers_frame: trailers of the open stream, or a new stream.
LEMMA HeadersIInv ==
  ASSUME IInv, handle_headers_frame
  PROVE  IInv'
<1> DEFINE f   == Head(inbuf)
           fl1 == flags \cup {"WAITING_TRAILERS", "WAITING_END_HEADERS"}
           fl2 == flags \cup {"WAITING_END_HEADERS", "WAITING_END_STREAM"}
<1>1. phase = "receiving" /\ phase # "free" /\ failed = "none" /\ inbuf # <<>>
  BY HandlingFrame, Zenon DEF handle_headers_frame
<1>2. f \in Frames /\ f.sid \in StreamIds \cup {0}
  BY <1>1, HeadFrame DEF IInv
<1>3. CASE /\ Continue
           /\ UNCHANGED <<ctxVars, streamVars, sockVars, writeVars, granted, notHandled>>
  BY <1>1, <1>3, SkipKeeps, SMTT(30) DEF Continue
<1>4. CASE Refuse
  BY <1>1, <1>4, RefuseKeeps
<1>5. CASE http2_stream_error(f.sid)
  BY <1>1, <1>2, <1>5, StreamErrorKeeps
<1>6. CASE /\ handle_header_block(f, fl1, stream_state, buflen, buf, stream_id)
           /\ UNCHANGED <<last_opened_stream_id, stream_id, stream_window, bufptr,
                          granted, notHandled>>
  <2>1. Arguments(fl1, buflen, buf, stream_id)
        /\ stream_state \in {"CLOSED", "OPEN", "HALF_CLOSED_REMOTE"}
    BY SMTT(30) DEF Arguments, IInv, CtxTypes, StreamTypes, Flags
  <2> HIDE DEF f, fl1
  <2>2. Handled /\ stream_state' \in {"CLOSED", "OPEN", "HALF_CLOSED_REMOTE"}
    BY <1>1, <1>2, <1>6, <2>1, BlockHandled, SMTT(30)
  <2> QED
    BY <1>1, <1>6, <2>2, HandledSameStream, SMTT(30)
<1>7. CASE /\ ~HeadersRefused(f)
           /\ OpenStream(f.sid)
           /\ \/ /\ http2_error(queue, 0)
                 /\ stream_state' = "OPEN" /\ buf' = "empty" /\ buflen' = 0
                 /\ Discard
              \/ handle_header_block(f, fl2, "OPEN", 0, "empty", f.sid)
           /\ UNCHANGED notHandled
  <2>1. f.sid \in StreamIds
    BY <1>2, <1>7, SMTT(30) DEF HeadersRefused
  <2>2. Arguments(fl2, 0, "empty", f.sid) /\ 0 \in 0 .. StreamBufSize
    BY <2>1, SizesAssumption, SMTT(30) DEF Arguments, IInv, CtxTypes, StreamTypes, Flags
  <2>3. /\ stream_id' \in StreamIds \cup {0} /\ last_opened_stream_id' = stream_id'
        /\ stream_window' \in -(MaxWindow + 1) .. MaxWindow /\ bufptr' \in Nat
        /\ granted' \in [StreamIds -> Int]
    BY <1>7, <2>1, SizesAssumption, SMTT(30) DEF OpenStream, IInv, CtxTypes, PeerTypes
  <2> HIDE DEF f, fl2
  <2>4. Handled /\ stream_state' \in {"CLOSED", "OPEN", "HALF_CLOSED_REMOTE"}
    <3>1. CASE /\ http2_error(queue, 0)
               /\ stream_state' = "OPEN" /\ buf' = "empty" /\ buflen' = 0
               /\ Discard
      BY <1>1, <2>2, <3>1, ErrorHandled, SMTT(30)
    <3>2. CASE handle_header_block(f, fl2, "OPEN", 0, "empty", f.sid)
      BY <1>1, <1>2, <2>2, <3>2, BlockHandled, SMTT(30)
    <3> QED
      BY <1>7, <3>1, <3>2, SMTT(30)
  <2> QED
    BY <1>1, <1>7, <2>3, <2>4, HandledKeeps, SMTT(30)
<1> QED
  BY <1>3, <1>4, <1>5, <1>6, <1>7, ZenonT(40) DEF handle_headers_frame

----------------------------------------------------------------------------
(* The theorems *)

\* Every step of the loop and of a handler keeps the invariant.
LEMMA NextIInv == IInv /\ [Next]_vars => IInv'
<1> SUFFICES ASSUME IInv, [Next]_vars PROVE IInv'
  OBVIOUS
<1>1. CASE Loop
  <2>1. CASE event_sock_read_end
    BY <2>1, SockCloseKeeps DEF event_sock_read_end, At
  <2>2. CASE event_sock_write_error
    BY <2>2, SockCloseKeeps, SMTT(30) DEF event_sock_write_error, At
  <2> QED
    BY <1>1, <2>1, <2>2, NewClientIInv, CloseIInv, MoveIInv, TimeoutIInv, GracefullyIInv,
       HandleWriteIInv, HandleWriteEndIInv, SMTT(30) DEF Loop
<1>2. CASE Receive
  BY <1>2, PrefaceIInv, FirstSettingsIInv, ReceivingIInv, UpdateIInv, UpdateErrorIInv,
     UpdateEndIInv, IgnoreIInv, PushPromiseIInv, SettingsIInv, GoawayIInv, PingIInv,
     ResetIInv, WindowUpdateIInv, HeadersIInv, ContinuationIInv, DataIInv, SMTT(30) DEF Receive
<1>3. CASE \E f \in Frames : event_sock_read(f)
  BY <1>3, ReadIInv
<1>4. CASE \E n \in 1 .. wlen : event_sock_write(n)
  BY <1>4, WriteIInv
<1>5. CASE UNCHANGED vars
  <2>1. CtxTypes' /\ StreamTypes' /\ Written' /\ CallTypes' /\ PeerTypes'
    BY <1>5, SameCtx, SameStream, SameWrite, SameCall, SamePeer, Zenon DEF IInv, vars
  <2>2. SockTypes' /\ SettingsTimed' /\ ReadsWhileOpen' /\ Control'
    BY <1>5 DEF IInv, vars, ctxVars, streamVars, sockVars, writeVars, SockTypes,
                SettingsTimed, ReadsWhileOpen, Control
  <2> QED
    BY <2>1, <2>2, SMTT(30) DEF IInv
<1> QED
  BY <1>1, <1>2, <1>3, <1>4, <1>5 DEF Next

\* The invariant holds in every reachable state.
LEMMA Invariant == Spec => []IInv
<1>1. Init => IInv
  BY InitIInv
<1>2. IInv /\ [Next]_vars => IInv'
  BY NextIInv
<1> QED
  BY <1>1, <1>2, PTL DEF Spec

\* Whatever a peer sends, every field of the connection keeps the range of
\* its type: the buffers are never overrun and no window leaves its 32 bits.
THEOREM TypeCorrect == Spec => []TypeOK
<1>1. IInv => TypeOK
  BY DEF IInv, Written, TypeOK
<1> QED
  BY <1>1, Invariant, PTL

\* No operation of the loop's pool is leaked or given back twice, and a slot
\* goes back to its lists clean, whatever the peer sends and whenever its
\* socket fails.
THEOREM PoolAndSlots == Spec => [](PoolConserved /\ ReleasedClean)
<1>1. IInv => PoolConserved /\ ReleasedClean
  <2> SUFFICES ASSUME IInv PROVE PoolConserved /\ ReleasedClean
    OBVIOUS
  <2>1. PoolConserved /\ Control
    BY DEF IInv, Written
  <2>2. ASSUME phase = "free" PROVE queue = <<>> /\ in_use = 0
    <3>1. queue = <<>> /\ in_use = Len(queue)
      BY <2>1, <2>2 DEF Control, PoolConserved
    <3>2. Len(<<>>) = 0
      BY EmptyFacts
    <3> QED
      BY <3>1, <3>2
  <2> QED
    BY <2>1, <2>2 DEF Control, ReleasedClean
<1> QED
  BY <1>1, Invariant, PTL

\* The wait for the acknowledgement of the settings is always timed.
THEOREM SettingsAreTimed == Spec => []SettingsTimed
<1>1. IInv => SettingsTimed
  BY DEF IInv
<1> QED
  BY <1>1, Invariant, PTL

\* Frames are only read from a connection that can still be answered.
THEOREM ReadingIsOpen == Spec => []ReadsWhileOpen
<1>1. IInv => ReadsWhileOpen
  BY SMTT(30) DEF IInv
<1> QED
  BY <1>1, Invariant, PTL

----------------------------------------------------------------------------
(* What a step may never do *)

\* What a step of a connection in use does to the states: the socket is not
\* connected again, and the context only moves towards its end, except while
\* the preface and the first settings are read.
Forward ==
  /\ failed = "none"
  /\ sock' = "CONNECTED" => sock = "CONNECTED"
  /\ \/ state' \in {state, "CLOSING", "CLOSED"}
     \/ phase \in {"waiting_for_preface", "update_first"}

\* A step that leaves the state and the socket alone.
LEMMA SameForward ==
  ASSUME failed = "none", state' = state, sock' = sock
  PROVE  Forward
  BY Zenon DEF Forward

\* A step that closes, or goes on to close, the connection.
LEMMA ClosingForward ==
  ASSUME failed = "none", state' \in {"CLOSING", "CLOSED"}, sock' # "CONNECTED" \/ sock' = sock
  PROVE  Forward
  BY Zenon DEF Forward

\* The steps of the loop go forward.
LEMMA LoopForward ==
  ASSUME IInv, Loop, phase # "free"
  PROVE  Forward
<1> USE DEF Forward, At, ctxVars, streamVars, sockVars
<1>1. CASE http2_new_client
  BY <1>1, SMTT(30) DEF http2_new_client
<1>2. CASE event_loop_close
  <2>1. failed = "none" /\ state' = state
    BY <1>2, Zenon DEF event_loop_close
  <2>2. sock' = "CLOSED" \/ sock' = sock
    BY <1>2, Zenon DEF event_loop_close
  <2> QED
    BY <2>1, <2>2, Zenon
<1>3. CASE on_settings_timeout
  BY <1>3, ZenonT(40) DEF on_settings_timeout, http2_error
<1>4. CASE event_loop_timers \/ event_sock_read_none \/ event_sock_write_none
           \/ event_loop_pending
  <2>1. CASE event_loop_timers
    BY <2>1, SMTT(30) DEF event_loop_timers
  <2>2. CASE event_sock_read_none
    BY <2>2, SMTT(30) DEF event_sock_read_none
  <2>3. CASE event_sock_write_none
    BY <2>3, SMTT(30) DEF event_sock_write_none
  <2>4. CASE event_loop_pending
    BY <2>4, SMTT(30) DEF event_loop_pending
  <2> QED
    BY <1>4, <2>1, <2>2, <2>3, <2>4, Zenon
<1>5. CASE http2_close_gracefully
  <2>1. failed = "none" /\ state' = "CLOSING" /\ sock' = sock
    BY <1>5, Zenon DEF http2_close_gracefully
  <2> QED
    BY <2>1, ClosingForward, Zenon
<1>6. CASE event_sock_read_end \/ event_sock_write_error
  <2>1. failed = "none" /\ event_sock_close
    BY <1>6, Zenon DEF event_sock_read_end, event_sock_write_error
  <2>2. CASE http2_close_immediate
    <3>1. state' = "CLOSED" /\ sock' = "CLOSING"
      BY <2>2, Zenon DEF http2_close_immediate
    <3>2. sock' # "CONNECTED" /\ state' \in {"CLOSING", "CLOSED"}
      BY <3>1
    <3> QED
      BY <2>1, <3>1, <3>2, ClosingForward, Zenon
  <2>3. CASE UNCHANGED <<ctxVars, streamVars, sock, read_cb>>
    BY <2>1, <2>3, SMTT(30)
  <2> QED
    BY <2>1, <2>2, <2>3, Zenon DEF event_sock_close
<1>7. CASE event_sock_handle_write
  <2>1. failed = "none"
    BY <1>7, Zenon DEF event_sock_handle_write
  <2>2. CASE http2_close_immediate
    <3>1. state' = "CLOSED" /\ sock' = "CLOSING"
      BY <2>2, Zenon DEF http2_close_immediate
    <3>2. sock' # "CONNECTED" /\ state' \in {"CLOSING", "CLOSED"}
      BY <3>1
    <3> QED
      BY <2>1, <3>1, <3>2, ClosingForward, Zenon
  <2>3. CASE UNCHANGED <<state, sockVars>>
    BY <2>1, <2>3, SameForward, Zenon
  <2>4. http2_close_immediate \/ UNCHANGED <<state, sockVars>>
    BY <1>7, Zenon DEF event_sock_handle_write
  <2> QED
    BY <2>2, <2>3, <2>4, Zenon
<1>8. CASE event_sock_handle_write_end
  <2>1. failed = "none" /\ UNCHANGED <<ctxVars, streamVars, sockVars>>
    BY <1>8, Zenon DEF event_sock_handle_write_end
  <2>2. state' = state /\ sock' = sock
    BY <2>1, Zenon
  <2> QED
    BY <2>1, <2>2, SameForward, Zenon
<1> QED
  BY <1>1, <1>2, <1>3, <1>4, <1>5, <1>6, <1>7, <1>8, Zenon DEF Loop

\* A header block leaves the socket alone and at most closes the connection.
LEMMA BlockForward ==
  ASSUME IInv, failed = "none", NEW f, NEW fl, NEW st, NEW bl, NEW holds, NEW id,
         handle_header_block(f, fl, st, bl, holds, id)
  PROVE  state' \in {state, "CLOSING"} /\ sock' = sock
  BY ZenonT(40) DEF handle_header_block, handle_end_stream, EndStreamFails, EndStreamAnswers,
         http2_error, sockVars

\* The handlers go forward.
LEMMA ReceiveForward ==
  ASSUME IInv, Receive
  PROVE  Forward
<1> USE DEF Forward, At, ctxVars, streamVars, sockVars
<1>1. CASE waiting_for_preface
  BY <1>1, Zenon DEF waiting_for_preface, http2_close_immediate
<1>2. CASE waiting_for_settings
  BY <1>2, Zenon DEF waiting_for_settings, Refuse, http2_error
<1>3. CASE receiving
  BY <1>3, ZenonT(40) DEF receiving, Refuse, http2_error
<1>4. CASE update_settings \/ update_settings_error \/ update_settings_end
  BY <1>4, Zenon DEF update_settings, update_settings_error, update_settings_end, http2_error
<1>5. CASE ignore_frame \/ push_promise
  BY <1>5, ZenonT(40) DEF ignore_frame, push_promise, Handling, http2_error
<1>6. CASE handle_settings_frame \/ handle_ping_frame
  BY <1>6, Zenon DEF handle_settings_frame, handle_ping_frame, Handling, Refuse, http2_error
<1>7. CASE handle_goaway_frame
  BY <1>7, ZenonT(40) DEF handle_goaway_frame, Handling, Refuse, http2_error, http2_close_immediate
<1>8. CASE handle_rst_stream_frame
  BY <1>8, Zenon DEF handle_rst_stream_frame, Handling, Refuse, http2_error
<1>9. CASE handle_window_update_frame
  BY <1>9, Zenon DEF handle_window_update_frame, Handling, Refuse, http2_error, http2_stream_error
<1>10. CASE handle_continuation_frame
  BY <1>10, BlockForward, ZenonT(40) DEF handle_continuation_frame, Handling, Refuse, http2_error
<1>11. CASE handle_data_frame
  BY <1>11, Zenon DEF handle_data_frame, Handling, Refuse, http2_error, http2_stream_error,
               handle_end_stream, EndStreamFails, EndStreamAnswers
<1>12. CASE handle_headers_frame
  <2> DEFINE f == Head(inbuf)
  <2>1. failed = "none" /\ inbuf # <<>>
    BY <1>12, HandlingFrame, Zenon DEF handle_headers_frame
  <2>2. CASE ~HeadersRefused(f) /\ f.sid > last_opened_stream_id /\ OpenStream(f.sid)
             /\ (\/ http2_error(queue, 0)
                 \/ handle_header_block(
                      f, flags \cup {"WAITING_END_HEADERS", "WAITING_END_STREAM"},
                      "OPEN", 0, "empty", f.sid))
    <3>1. state' \in {state, "CLOSING"} /\ sock' = sock
      BY <2>1, <2>2, BlockForward, Zenon DEF http2_error
    <3> QED
      BY <2>1, <3>1
  <2>3. CASE /\ handle_header_block(
                  f, flags \cup {"WAITING_TRAILERS", "WAITING_END_HEADERS"},
                  stream_state, buflen, buf, stream_id)
             /\ UNCHANGED stream_id
    BY <2>1, <2>3, BlockForward
  <2>4. CASE UNCHANGED <<ctxVars, streamVars, sockVars>> \/ Refuse
             \/ http2_stream_error(f.sid)
    BY <2>1, <2>4, Zenon DEF Refuse, http2_error, http2_stream_error
  <2> QED
    BY <1>12, <2>2, <2>3, <2>4, ZenonT(40) DEF handle_headers_frame
<1> QED
  BY <1>1, <1>2, <1>3, <1>4, <1>5, <1>6, <1>7, <1>8, <1>9, <1>10, <1>11, <1>12, Zenon DEF Receive

\* Every step of a connection in use goes forward.
LEMMA NextForward ==
  ASSUME IInv, Next, phase # "free"
  PROVE  Forward
<1>1. ASSUME NEW f \in Frames, event_sock_read(f) PROVE Forward
  <2>1. failed = "none" /\ UNCHANGED <<ctxVars, streamVars, sockVars>>
    BY <1>1, Zenon DEF event_sock_read, At
  <2>2. state' = state /\ sock' = sock
    BY <2>1, Zenon DEF ctxVars, streamVars, sockVars
  <2> QED
    BY <2>1, <2>2, SameForward, Zenon
<1>2. ASSUME NEW n \in 1 .. wlen, event_sock_write(n) PROVE Forward
  BY <1>2 DEF event_sock_write, Forward, At, ctxVars, streamVars, sockVars
<1> QED
  BY <1>1, <1>2, LoopForward, ReceiveForward, SMTT(30) DEF Next

\* In a free slot only http2_new_client can act.
LEMMA FreeStep ==
  ASSUME IInv, Next, phase = "free"
  PROVE  failed = "none"
<1>1. CASE Receive
  BY <1>1, ReceiveForward, SMTT(30) DEF Forward
<1>2. CASE ~Receive
  BY <1>2, Zenon DEF Next, Loop, At, http2_new_client, event_loop_close, on_settings_timeout,
              event_loop_timers, http2_close_gracefully, event_sock_read_end,
              event_sock_read_none, event_sock_write_none, event_sock_write_error,
              event_sock_handle_write, event_sock_handle_write_end, event_loop_pending,
              event_sock_read, event_sock_write
<1> QED
  BY <1>1, <1>2

\* A connection that is closing is never used for requests again.
THEOREM ClosingStays == Spec => ClosingIsFinal
<1>1. ASSUME IInv, IInv', Next, state = "CLOSING", read_cb \in {"receiving", "none"}
      PROVE  state' \in {"CLOSING", "CLOSED"}
  <2>1. CASE phase = "free"
    <3>1. failed = "none"
      BY <1>1, <2>1, FreeStep
    <3> QED
      BY <1>1, <2>1, <3>1 DEF IInv, Control
  <2>2. CASE phase # "free"
    <3>1. Forward
      BY <1>1, <2>2, NextForward, SMTT(30)
    <3>2. phase \notin {"waiting_for_preface", "update_first"}
      BY <1>1, SMTT(30) DEF IInv, Control
    <3> QED
      BY <1>1, <3>1, <3>2 DEF Forward
  <2> QED
    BY <2>1, <2>2, SMTT(30)
<1>2. ASSUME IInv, IInv', Next, state = "CLOSED", phase # "free", failed' = "none"
      PROVE  state' = "CLOSED"
  <2>1. failed = "none" /\ (sock' = "CONNECTED" => sock = "CONNECTED")
    BY <1>2, NextForward DEF Forward
  <2> QED
    BY <1>2, <2>1 DEF IInv, Control
<1>3. IInv /\ IInv' /\ [Next]_vars =>
        [/\ state = "CLOSING" /\ read_cb \in {"receiving", "none"}
              => state' \in {"CLOSING", "CLOSED"}
         /\ state = "CLOSED" /\ phase # "free" /\ failed' = "none"
              => state' = "CLOSED"]_vars
  BY <1>1, <1>2
<1> QED
  BY <1>3, Invariant, PTL DEF Spec, ClosingIsFinal

----------------------------------------------------------------------------
(* The closer of a connection that is no longer read *)

\* A GOAWAY that ends the connection is queued in q, or one was lost (l).
Closer(q, l) ==
  "GOAWAY" \in l \/ \E i \in 1 .. Len(q) : q[i].cb = "close_on_goaway_sent"

\* A step that leaves the socket and its reads alone and takes no closer away.
Leaves ==
  /\ sock' = sock /\ read_cb' = read_cb
  /\ failed' = "none" => failed = "none" /\ (Closer(queue, lost) => Closer(queue', lost'))

\* A step after which the socket is read or closing, or has its closer.
Settles ==
  failed' = "none" => sock' # "CONNECTED" \/ read_cb' # "none" \/ Closer(queue', lost')

\* Both kinds of steps are harmless.
LEMMA CloserKept ==
  ASSUME CloserQueued, Leaves \/ Settles
  PROVE  CloserQueued'
  BY Zenon DEF CloserQueued, Leaves, Settles, Closer

\* What is in the queue stays there when an operation is added, and the
\* operation is there, too.
LEMMA AppendCloser ==
  ASSUME NEW q, NEW S, q \in Seq(S), NEW op \in S, NEW l, NEW k, l \subseteq k
  PROVE  /\ Closer(q, l) => Closer(Append(q, op), k)
         /\ op.cb = "close_on_goaway_sent" => Closer(Append(q, op), k)
<1> DEFINE r == Append(q, op)
<1>1. /\ Len(r) = Len(q) + 1 /\ r[Len(q) + 1] = op /\ \A i \in 1 .. Len(q) : r[i] = q[i]
  BY AppendFacts
<1>2. Len(q) \in Nat
  BY LenFacts, Zenon
<1> HIDE DEF r
<1>3. Len(q) + 1 \in 1 .. Len(r) /\ \A i \in 1 .. Len(q) : i \in 1 .. Len(r)
  BY <1>1, <1>2
<1>4. "GOAWAY" \in l => "GOAWAY" \in k
  OBVIOUS
<1>5. (\E i \in 1 .. Len(q) : q[i].cb = "close_on_goaway_sent")
        => \E i \in 1 .. Len(r) : r[i].cb = "close_on_goaway_sent"
  BY <1>1, <1>3, Zenon
<1>6. op.cb = "close_on_goaway_sent"
        => \E i \in 1 .. Len(r) : r[i].cb = "close_on_goaway_sent"
  BY <1>1, <1>3, Zenon
<1> QED
  BY <1>4, <1>5, <1>6, Zenon DEF Closer, r

\* event_write never takes a closer away; the GOAWAY of http2_error is one,
\* or is lost.
LEMMA WriteCloser ==
  ASSUME NEW q \in Seq(Op), NEW rel, NEW fr, NEW cb, event_write(q, rel, fr, cb)
  PROVE  failed' = "none" =>
           /\ Closer(q, lost) => Closer(queue', lost')
           /\ fr.kind = "GOAWAY" /\ cb = "close_on_goaway_sent" => Closer(queue', lost')
<1> DEFINE n  == Min(IF wopen THEN WriteSize - wlen ELSE 0, fr.size)
           op == [cb |-> cb, bytes |-> n, kind |-> fr.kind, sid |-> fr.sid, es |-> fr.es]
<1>1. CASE failed' = "event_write: state" \/ failed' = "event_write: op"
  BY <1>1, Zenon
<1>2. CASE queue' = q /\ lost' = lost \cup {fr.kind}
  <2>1. lost \subseteq lost' /\ fr.kind \in lost'
    BY <1>2, Zenon
  <2> QED
    BY <1>2, <2>1, Zenon DEF Closer
<1>3. CASE queue' = Append(q, op)
           /\ lost' = IF n < fr.size THEN lost \cup {fr.kind} ELSE lost
  <2>1. lost \subseteq lost'
    BY <1>3, Zenon
  <2>2. op.cb = cb
    BY Zenon
  <2> HIDE DEF op, n
  <2>3. PICK S : q \in Seq(S) /\ op \in S
    <3>1. q \in Seq(Op \cup {op}) /\ op \in Op \cup {op}
      OBVIOUS
    <3> QED
      BY <3>1, Zenon
  <2> QED
    BY <1>3, <2>1, <2>2, <2>3, AppendCloser
<1> QED
  BY <1>1, <1>2, <1>3, Zenon DEF event_write

\* http2_error hands the connection to the callback of its GOAWAY.
LEMMA ErrorSettles ==
  ASSUME IInv, http2_error(queue, 0)
  PROVE  Settles
<1>1. queue \in Seq(Op) /\ Frame("GOAWAY", 0, FALSE, 0).kind = "GOAWAY"
  BY Zenon DEF IInv, Written, WriteTypes, Frame
<1>2. event_write(queue, 0, Frame("GOAWAY", 0, FALSE, 0), "close_on_goaway_sent")
  BY Zenon DEF http2_error
<1> QED
  BY <1>1, <1>2, WriteCloser, Zenon DEF Settles

\* A handler that writes another frame, or none, and reads on.
LEMMA WriteLeaves ==
  ASSUME IInv, failed = "none", sock' = sock, read_cb' = read_cb,
         \/ UNCHANGED writeVars
         \/ UNCHANGED <<queue, lost>>
         \/ \E fr, cb : event_write(queue, 0, fr, cb)
         \/ \E sw : http2_continue_send(queue, 0, sw)
  PROVE  Leaves
<1>1. queue \in Seq(Op)
  BY Zenon DEF IInv, Written, WriteTypes
<1>2. CASE UNCHANGED <<queue, lost>>
  BY <1>2, Zenon DEF Leaves
<1>3. ASSUME NEW fr, NEW cb, event_write(queue, 0, fr, cb) PROVE Leaves
  BY <1>1, <1>3, WriteCloser, Zenon DEF Leaves
<1>4. ASSUME NEW sw, http2_continue_send(queue, 0, sw) PROVE Leaves
  BY <1>2, <1>3, <1>4, Zenon DEF http2_continue_send, NoWrite
<1> QED
  BY <1>2, <1>3, <1>4, Zenon DEF writeVars

\* The end of a request, and a header block.
LEMMA BlockCloser ==
  ASSUME IInv, failed = "none", NEW f, NEW fl, NEW st, NEW bl, NEW holds, NEW id,
         handle_header_block(f, fl, st, bl, holds, id)
  PROVE  Leaves \/ Settles
<1>1. CASE http2_error(queue, 0)
  BY <1>1, ErrorSettles, Zenon
<1>2. CASE UNCHANGED <<sock, read_cb>> /\ (UNCHANGED writeVars
             \/ \E fr, cb : event_write(queue, 0, fr, cb))
  BY <1>2, WriteLeaves, Zenon
<1> QED
  BY <1>1, <1>2, ZenonT(40) DEF handle_header_block, handle_end_stream, EndStreamFails,
     EndStreamAnswers, sockVars

\* The handlers of frames.
LEMMA ReceiveCloser ==
  ASSUME IInv, Receive
  PROVE  Leaves \/ Settles
<1> USE DEF At, ctxVars, streamVars, sockVars
<1>1. CASE failed = "none" /\ (http2_error(queue, 0) \/ http2_close_immediate
                               \/ read_cb' # "none" \/ failed' # "none")
  BY <1>1, ErrorSettles, Zenon DEF Settles, http2_close_immediate
<1>2. CASE /\ failed = "none" /\ UNCHANGED <<sock, read_cb>>
           /\ \/ UNCHANGED writeVars \/ UNCHANGED <<queue, lost>>
              \/ \E fr, cb : event_write(queue, 0, fr, cb)
              \/ \E sw : http2_continue_send(queue, 0, sw)
  BY <1>2, WriteLeaves, Zenon
<1>3. CASE waiting_for_preface \/ waiting_for_settings \/ receiving
  <2>1. CASE waiting_for_preface
    BY <2>1, <1>1, <1>2, Zenon DEF waiting_for_preface
  <2>2. CASE waiting_for_settings
    BY <2>2, <1>1, <1>2, Zenon DEF waiting_for_settings, Refuse
  <2>3. CASE receiving
    BY <2>3, <1>1, <1>2, Zenon DEF receiving, Refuse
  <2> QED
    BY <1>3, <2>1, <2>2, <2>3, Zenon
<1>4. CASE update_settings \/ update_settings_error \/ update_settings_end
  BY <1>1, <1>2, <1>4, ZenonT(40) DEF update_settings, update_settings_error,
     update_settings_end
<1>5. CASE ignore_frame \/ push_promise
  BY <1>1, <1>2, <1>5, Zenon DEF ignore_frame, push_promise, Handling
<1>6. CASE handle_settings_frame \/ handle_ping_frame
  BY <1>1, <1>2, <1>6, ZenonT(40) DEF handle_settings_frame, handle_ping_frame, Handling, Refuse
<1>7. CASE handle_goaway_frame
  BY <1>1, <1>2, <1>7, ZenonT(40) DEF handle_goaway_frame, Handling, Refuse
<1>8. CASE handle_rst_stream_frame \/ handle_window_update_frame
  BY <1>1, <1>2, <1>8, ZenonT(40) DEF handle_rst_stream_frame, handle_window_update_frame,
     Handling, Refuse, http2_stream_error
<1>9. CASE handle_continuation_frame
  BY <1>1, <1>2, <1>9, BlockCloser, ZenonT(40) DEF handle_continuation_frame, Handling, Refuse
<1>10. CASE handle_data_frame
  BY <1>1, <1>2, <1>10, ZenonT(40) DEF handle_data_frame, Handling, Refuse,
     http2_stream_error, handle_end_stream, EndStreamFails, EndStreamAnswers
<1>11. CASE handle_headers_frame
  BY <1>1, <1>2, <1>11, BlockCloser, ZenonT(40) DEF handle_headers_frame, Handling, Refuse,
     http2_stream_error
<1> QED
  BY <1>3, <1>4, <1>5, <1>6, <1>7, <1>8, <1>9, <1>10, <1>11, Zenon DEF Receive

\* The callback of the oldest operation (event_sock_handle_write) only takes
\* the closer out of the queue when it is the closer.
LEMMA NotifyCloser ==
  ASSUME IInv, event_sock_handle_write
  PROVE  Leaves \/ Settles
<1> DEFINE q == Tail(queue)
<1>1. failed = "none" /\ queue # <<>> /\ queue \in Seq(Op)
  BY Zenon DEF event_sock_handle_write, At, IInv, Written, WriteTypes
<1>2. q \in Seq(Op) /\ Len(q) = Len(queue) - 1 /\ Len(queue) \in Nat
      /\ Head(queue) = queue[1] /\ \A i \in 1 .. Len(queue) - 1 : q[i] = queue[i + 1]
  BY <1>1
<1>3. CASE Head(queue).cb = "close_on_goaway_sent"
  <2>1. http2_close_immediate
    BY <1>3 DEF event_sock_handle_write
  <2> QED
    BY <2>1, Zenon DEF http2_close_immediate, Settles
<1>4. CASE Head(queue).cb # "close_on_goaway_sent"
  <2> HIDE DEF q
  <2>1. Closer(queue, lost) => Closer(q, lost)
    <3>1. ASSUME NEW i \in 1 .. Len(queue), queue[i].cb = "close_on_goaway_sent"
          PROVE  \E j \in 1 .. Len(q) : q[j].cb = "close_on_goaway_sent"
      <4>1. i # 1
        BY <1>2, <1>4, <3>1, Zenon
      <4>2. i - 1 \in 1 .. Len(q) /\ (i - 1) + 1 = i /\ i - 1 \in 1 .. Len(queue) - 1
        BY <1>2, <4>1
      <4>3. q[i - 1] = queue[i]
        BY <1>2, <4>2
      <4> QED
        BY <3>1, <4>2, <4>3, Zenon
    <3> QED
      BY <3>1, Zenon DEF Closer
  <2>2. UNCHANGED sockVars /\ (NoWrite(q, 1)
          \/ \E fr, cb : event_write(q, 1, fr, cb))
    BY <1>4, ZenonT(40) DEF event_sock_handle_write, on_settings_sent,
       on_stream_send_complete, http2_continue_send, q
  <2>3. failed' = "none" => (Closer(q, lost) => Closer(queue', lost'))
    BY <1>2, <2>2, WriteCloser, Zenon DEF NoWrite
  <2> QED
    BY <1>1, <2>1, <2>2, <2>3, Zenon DEF Leaves, sockVars
<1> QED
  BY <1>3, <1>4, Zenon

\* An operation that is written in part keeps its callback.
LEMMA NotifyEndCloser ==
  ASSUME IInv, event_sock_handle_write_end
  PROVE  Leaves
<1>1. failed = "none" /\ failed' = failed /\ lost' = lost /\ UNCHANGED sockVars
      /\ queue \in Seq(Op)
  BY Zenon DEF event_sock_handle_write_end, At, IInv, Written, WriteTypes
<1>2. CASE queue' = queue
  BY <1>1, <1>2, Zenon DEF Leaves, sockVars
<1>3. CASE queue # <<>>
           /\ queue' = <<[Head(queue) EXCEPT !.bytes = @ - written]>> \o Tail(queue)
  <2> DEFINE op == [Head(queue) EXCEPT !.bytes = @ - written]
  <2>1. op.cb = queue[1].cb
    BY <1>1, <1>3 DEF Op
  <2> HIDE DEF op
  <2>2. queue' = <<op>> \o Tail(queue)
    BY <1>3 DEF op
  <2>3. Len(queue') = Len(queue) /\ queue'[1] = op
        /\ \A i \in 2 .. Len(queue) : queue'[i] = queue[i]
    BY <1>1, <1>3, <2>2
  <2>4. \A i \in 1 .. Len(queue) : i = 1 \/ i \in 2 .. Len(queue)
    BY <1>1
  <2>5. \A i \in 1 .. Len(queue) : queue'[i].cb = queue[i].cb
    BY <2>1, <2>3, <2>4, Zenon
  <2>6. Closer(queue, lost) => Closer(queue', lost')
    BY <1>1, <2>3, <2>5, Zenon DEF Closer
  <2> QED
    BY <1>1, <2>6, Zenon DEF Leaves, sockVars
<1> QED
  BY <1>2, <1>3, Zenon DEF event_sock_handle_write_end

\* The steps of the loop.
LEMMA LoopCloser ==
  ASSUME IInv, Loop
  PROVE  Leaves \/ Settles
<1> USE DEF At, sockVars
<1>1. CASE http2_new_client
  BY <1>1 DEF http2_new_client, Fresh, Settles
<1>2. CASE event_loop_close
  BY <1>2, Zenon DEF event_loop_close, Leaves, Settles, writeVars
<1>3. CASE on_settings_timeout
  BY <1>3, ErrorSettles, Zenon DEF on_settings_timeout
<1>4. CASE event_loop_timers \/ event_sock_read_none \/ event_sock_write_none
           \/ event_loop_pending
  BY <1>4, Zenon DEF event_loop_timers, event_sock_read_none, event_sock_write_none,
     event_loop_pending, Leaves, writeVars
<1>5. CASE http2_close_gracefully
  <2>1. failed = "none" /\ sock' = sock /\ read_cb' = read_cb
        /\ \E fr, cb : event_write(queue, 0, fr, cb)
    BY <1>5, Zenon DEF http2_close_gracefully
  <2> QED
    BY <2>1, WriteLeaves, Zenon
<1>6. CASE event_sock_read_end \/ event_sock_write_error
  <2>1. failed = "none" /\ event_sock_close
    BY <1>6, Zenon DEF event_sock_read_end, event_sock_write_error
  <2> QED
    BY <2>1, Zenon DEF event_sock_close, http2_close_immediate, Leaves, Settles
<1> QED
  BY <1>1, <1>2, <1>3, <1>4, <1>5, <1>6, NotifyCloser, NotifyEndCloser, Zenon DEF Loop

\* For all sizes and any peer: a connection that is no longer read, and whose
\* socket is not closed, is closed by the callback of a GOAWAY in its queue,
\* or a GOAWAY found no room (http2_error, event_write, close_on_goaway_sent).
THEOREM CloserStays == Spec => []CloserQueued
<1>1. Init => CloserQueued
  BY DEF Init, CloserQueued
<1>2. ASSUME IInv, CloserQueued, [Next]_vars PROVE CloserQueued'
  <2>1. CASE Loop \/ Receive
    BY <1>2, <2>1, LoopCloser, ReceiveCloser, CloserKept, Zenon
  <2>2. ASSUME NEW f \in Frames, event_sock_read(f) PROVE CloserQueued'
    BY <1>2, <2>2, Zenon DEF event_sock_read, At, sockVars, writeVars, CloserQueued
  <2>3. ASSUME NEW n \in 1 .. wlen, event_sock_write(n) PROVE CloserQueued'
    BY <1>2, <2>3, Zenon DEF event_sock_write, At, sockVars, CloserQueued
  <2>4. CASE UNCHANGED vars
    BY <1>2, <2>4, Zenon DEF vars, sockVars, writeVars, CloserQueued
  <2> QED
    BY <1>2, <2>1, <2>2, <2>3, <2>4, Zenon DEF Next
<1>3. IInv /\ CloserQueued /\ [Next]_vars => CloserQueued'
  BY <1>2
<1> QED
  BY <1>1, <1>3, Invariant, PTL DEF Spec
=============================================================================
