-------------------------- MODULE Http2Peer_proofs --------------------------
(***************************************************************************)
(* Proofs about a connection whose peer follows the protocol (Conforming): *)
(* the window of a stream is the one the peer granted it, and requests are *)
(* answered in order.                                                      *)
(***************************************************************************)
EXTENDS Http2Answers_proofs

----------------------------------------------------------------------------
(* The order of what is read *)

\* A frame that opens a stream or enlarges the window of one.
Names(f) == f.type \in {"HEADERS", "WINDOW_UPDATE"} /\ f.sid # 0

\* The frames of q name streams from low to high, in order.
InOrder(q, low, high) ==
  /\ low <= high
  /\ \A i \in 1 .. Len(q) : Names(q[i]) => low <= q[i].sid /\ q[i].sid <= high
  /\ \A i, j \in 1 .. Len(q) : i < j /\ Names(q[i]) /\ Names(q[j]) => q[i].sid <= q[j].sid

\* What the peer sent and the server has not handled yet names no stream
\* before the one in hand.
OInv == failed = "none" => InOrder(inbuf, stream_id, peer.sid)

\* Stream identifiers are numbers.
LEMMA IdNat ==
  ASSUME NEW x \in StreamIds \cup {0}
  PROVE  x \in Nat
<1>1. StreamIds \subseteq Nat \ {0}
  BY PeerAssumption, Zenon
<1> QED
  BY <1>1

\* Frames name streams by numbers.
LEMMA FrameIds ==
  ASSUME NEW q \in Seq(Frames)
  PROVE  Len(q) \in Nat /\ \A i \in 1 .. Len(q) : q[i] \in Frames /\ q[i].sid \in Nat
<1>1. Len(q) \in Nat /\ \A i \in 1 .. Len(q) : q[i] \in Frames
  BY LenFacts
<1>2. \A f \in Frames : f.sid \in Nat
  <2>1. \A f \in RecvFrames : f.sid \in StreamIds \cup {0}
    BY DEF RecvFrames
  <2> QED
    BY <2>1, IdNat, PeerAssumption, Zenon
<1> QED
  BY <1>1, <1>2

\* An empty batch is in order.
LEMMA OrderEmpty ==
  ASSUME NEW low, NEW high, low <= high
  PROVE  InOrder(<<>>, low, high)
  BY DEF InOrder

\* Handling the first frame of a batch, which may open a stream.
LEMMA OrderTail ==
  ASSUME NEW q \in Seq(Frames), q # <<>>, NEW low \in Nat, NEW high \in Nat,
         InOrder(q, low, high)
  PROVE  /\ InOrder(Tail(q), low, high)
         /\ Names(Head(q)) => /\ InOrder(Tail(q), Head(q).sid, high)
                              /\ low <= Head(q).sid /\ Head(q).sid <= high
<1>1. /\ Len(q) \in Nat /\ Len(q) >= 1 /\ Len(Tail(q)) = Len(q) - 1 /\ Head(q) = q[1]
      /\ \A i \in 1 .. Len(Tail(q)) : Tail(q)[i] = q[i + 1]
  BY TailFacts, LenFacts
<1>2. \A i \in 1 .. Len(Tail(q)) : i + 1 \in 1 .. Len(q) /\ 1 < i + 1
  BY <1>1
<1>3. 1 \in 1 .. Len(q)
  BY <1>1
<1>4. \A i, j \in 1 .. Len(Tail(q)) : i < j => i + 1 < j + 1
  BY <1>1
<1>5. /\ low <= high
      /\ \A i \in 1 .. Len(q) : Names(q[i]) => low <= q[i].sid /\ q[i].sid <= high
      /\ \A i, j \in 1 .. Len(q) :
           i < j /\ Names(q[i]) /\ Names(q[j]) => q[i].sid <= q[j].sid
  BY Zenon DEF InOrder
<1>6. /\ \A i \in 1 .. Len(Tail(q)) :
           Names(Tail(q)[i]) => low <= Tail(q)[i].sid /\ Tail(q)[i].sid <= high
      /\ \A i, j \in 1 .. Len(Tail(q)) :
           i < j /\ Names(Tail(q)[i]) /\ Names(Tail(q)[j])
             => Tail(q)[i].sid <= Tail(q)[j].sid
  BY <1>1, <1>2, <1>4, <1>5, Zenon
<1>7. ASSUME Names(Head(q))
      PROVE  /\ low <= Head(q).sid /\ Head(q).sid <= high
             /\ \A i \in 1 .. Len(Tail(q)) :
                  Names(Tail(q)[i]) => Head(q).sid <= Tail(q)[i].sid
  BY <1>1, <1>2, <1>3, <1>5, <1>7, Zenon
<1> QED
  BY <1>5, <1>6, <1>7, Zenon DEF InOrder

\* A frame at the end of the batch names the newest stream of the peer.
LEMMA OrderAppend ==
  ASSUME NEW q \in Seq(Frames), NEW f \in Frames, NEW low \in Nat, NEW high \in Nat,
         NEW new \in Nat, InOrder(q, low, high), high <= new, Names(f) => f.sid = new
  PROVE  InOrder(Append(q, f), low, new)
<1>1. /\ Len(Append(q, f)) = Len(q) + 1 /\ Append(q, f)[Len(q) + 1] = f
      /\ \A i \in 1 .. Len(q) : Append(q, f)[i] = q[i]
  BY AppendFacts
<1>2. Len(q) \in Nat /\ \A i \in 1 .. Len(q) : q[i].sid \in Nat
  BY FrameIds
<1>3. /\ low <= high
      /\ \A i \in 1 .. Len(q) : Names(q[i]) => low <= q[i].sid /\ q[i].sid <= high
      /\ \A i, j \in 1 .. Len(q) :
           i < j /\ Names(q[i]) /\ Names(q[j]) => q[i].sid <= q[j].sid
  BY Zenon DEF InOrder
<1>4. low <= new
  BY <1>3
<1>5. ASSUME NEW i \in 1 .. Len(q) + 1, Names(Append(q, f)[i])
      PROVE  low <= Append(q, f)[i].sid /\ Append(q, f)[i].sid <= new
  <2>1. CASE i \in 1 .. Len(q)
    BY <1>1, <1>2, <1>3, <1>5, <2>1
  <2>2. CASE i = Len(q) + 1
    BY <1>1, <1>4, <1>5, <2>2
  <2> QED
    BY <1>2, <2>1, <2>2
<1>6. ASSUME NEW i \in 1 .. Len(q) + 1, NEW j \in 1 .. Len(q) + 1, i < j,
             Names(Append(q, f)[i]), Names(Append(q, f)[j])
      PROVE  Append(q, f)[i].sid <= Append(q, f)[j].sid
  <2>1. i \in 1 .. Len(q)
    BY <1>2, <1>6
  <2>2. CASE j \in 1 .. Len(q)
    BY <1>1, <1>3, <1>6, <2>1, <2>2, Zenon
  <2>3. CASE j = Len(q) + 1
    <3>1. Append(q, f)[j].sid = new
      BY <1>1, <1>6, <2>3, Zenon
    <3> QED
      BY <1>5, <1>6, <3>1
  <2> QED
    BY <1>2, <2>2, <2>3
<1> QED
  BY <1>1, <1>4, <1>5, <1>6, Zenon DEF InOrder

\* The batch and the peer's newest stream are what they are said to be.
LEMMA BatchTypes ==
  ASSUME IInv
  PROVE  inbuf \in Seq(Frames) /\ stream_id \in Nat /\ peer.sid \in Nat
<1>1. inbuf \in Seq(Frames) /\ peer.sid \in StreamIds \cup {0}
  BY DEF IInv, CallTypes, PeerTypes, PeerStates
<1> QED
  BY <1>1, IdNat, Identifiers, Zenon

\* How a handler takes a frame, and opens a stream.
LEMMA ClassMoves ==
  ASSUME IInv, Class, failed' = "none"
  PROVE  /\ peer' = peer
         /\ \/ /\ stream_id' = stream_id
               /\ inbuf' = inbuf \/ (inbuf # <<>> /\ inbuf' = Tail(inbuf)) \/ inbuf' = <<>>
            \/ /\ inbuf # <<>> /\ Head(inbuf).type = "HEADERS"
               /\ Head(inbuf).sid > stream_id /\ stream_id' = Head(inbuf).sid
               /\ inbuf' = Tail(inbuf) \/ inbuf' = <<>>
<1>1. CASE Greets \/ Starts
  <2>1. inbuf # <<>>
    BY <1>1 DEF Greets, Starts, IInv, Control
  <2> QED
    BY <1>1, <2>1, Zenon DEF Greets, Starts, streamVars
<1>2. CASE Ends \/ Calm \/ Readies
  BY <1>2, Zenon DEF Ends, Calm, Readies, streamVars, Takes
<1>3. CASE \/ \E sid \in StreamIds : Resets(sid)
           \/ Enlarges(Head(inbuf)) \/ Further(Head(inbuf)) \/ Trailers(Head(inbuf))
  BY <1>3, Zenon DEF Resets, Enlarges, Further, Trailers, Asks, Takes
<1>4. CASE OpensAndEnds(Head(inbuf)) \/ Opening(Head(inbuf))
  BY <1>4, Zenon DEF OpensAndEnds, Opening, OpenStream, Asks, Takes
<1> QED
  BY <1>1, <1>2, <1>3, <1>4, Zenon DEF Class

\* Every handler keeps the batch in order.
LEMMA ClassOrder ==
  ASSUME IInv, OInv, Class
  PROVE  OInv'
<1> SUFFICES ASSUME failed' = "none" PROVE InOrder(inbuf', stream_id', peer'.sid)
  BY DEF OInv
<1>1. InOrder(inbuf, stream_id, peer.sid)
  BY Zenon DEF OInv, Class, Between
<1>2. /\ inbuf \in Seq(Frames) /\ stream_id \in Nat /\ peer.sid \in Nat
      /\ stream_id <= peer.sid
  BY <1>1, BatchTypes, Zenon DEF InOrder
<1>3. peer' = peer
  BY ClassMoves, Zenon
<1>4. CASE /\ stream_id' = stream_id
           /\ inbuf' = inbuf \/ (inbuf # <<>> /\ inbuf' = Tail(inbuf)) \/ inbuf' = <<>>
  BY <1>1, <1>2, <1>3, <1>4, OrderTail, OrderEmpty, Zenon
<1>5. CASE /\ inbuf # <<>> /\ Head(inbuf).type = "HEADERS"
           /\ Head(inbuf).sid > stream_id /\ stream_id' = Head(inbuf).sid
           /\ inbuf' = Tail(inbuf) \/ inbuf' = <<>>
  <2>1. Head(inbuf).sid # 0
    BY <1>2, <1>5, Identifiers
  <2>2. Names(Head(inbuf))
    BY <1>5, <2>1 DEF Names
  <2> QED
    BY <1>1, <1>2, <1>3, <1>5, <2>2, OrderTail, OrderEmpty, Zenon
<1> QED
  BY <1>4, <1>5, ClassMoves, Zenon

\* A peer that follows the protocol opens streams in increasing order, and
\* enlarges the window of its newest stream only.
LEMMA PeerOrder ==
  ASSUME IInv, NEW f \in Frames, PeerMaySend(f)
  PROVE  /\ peer.sid <= PeerSends(peer, f).sid
         /\ Names(f) => f.sid = PeerSends(peer, f).sid
<1>1. peer \in PeerStates /\ peer.sid \in Nat
  BY BatchTypes DEF IInv, PeerTypes
<1>2. CASE f.type = "HEADERS"
  <2>1. f.sid >= peer.sid
    <3>1. f.sid > peer.sid \/ f.sid = peer.sid
      BY <1>2 DEF PeerMaySend
    <3>2. f \in RecvFrames
      BY PeerAssumption, Zenon
    <3>3. f.sid \in StreamIds \cup {0}
      BY <3>2 DEF RecvFrames
    <3>4. f.sid \in Nat
      BY <3>3, IdNat
    <3> QED
      BY <1>1, <3>1, <3>4
  <2>2. PeerSends(peer, f).sid = f.sid
    BY <1>1, <1>2, Zenon DEF PeerSends, PeerStates
  <2> QED
    BY <1>1, <2>1, <2>2
<1>3. CASE f.type # "HEADERS"
  <2>1. PeerSends(peer, f).sid = peer.sid
    BY <1>1, <1>3, SMTT(30) DEF PeerSends, PeerStates
  <2>2. Names(f) => f.sid = peer.sid
    BY <1>3, Zenon DEF Names, PeerMaySend
  <2> QED
    BY <1>1, <2>1, <2>2
<1> QED
  BY <1>2, <1>3

\* The steps of the loop keep it.
LEMMA LoopOrder ==
  ASSUME IInv, Conforming, OInv,
         \/ http2_new_client \/ event_loop_close \/ event_loop_timers
         \/ event_sock_read_end \/ event_sock_read_none
         \/ event_sock_write_none \/ event_sock_write_error
         \/ event_sock_handle_write \/ event_sock_handle_write_end
         \/ event_loop_pending
         \/ \E f \in Frames : event_sock_read(f)
         \/ \E n \in 1 .. wlen : event_sock_write(n)
         \/ UNCHANGED vars
  PROVE  OInv'
<1>1. CASE http2_new_client
  <2>1. inbuf' = <<>> /\ stream_id' = 0 /\ peer'.sid = 0 /\ 0 <= 0
    BY <1>1 DEF http2_new_client, Fresh
  <2> QED
    BY <2>1, OrderEmpty, Zenon DEF OInv
<1>2. CASE event_sock_read_end \/ event_sock_write_error
  <2>1. inbuf' = <<>> /\ stream_id' = stream_id /\ peer' = peer /\ failed = "none"
    BY <1>2 DEF event_sock_read_end, event_sock_write_error, event_sock_close, At,
                http2_close_immediate, streamVars, peerVars
  <2>2. stream_id <= peer.sid
    BY <2>1, Zenon DEF OInv, InOrder
  <2> QED
    BY <2>1, <2>2, OrderEmpty, Zenon DEF OInv
<1>3. ASSUME NEW f \in Frames, event_sock_read(f) PROVE OInv'
  <2>1. /\ inbuf' = Append(inbuf, f) /\ stream_id' = stream_id /\ failed = "none"
        /\ PeerMaySend(f) /\ peer' = PeerSends(peer, f)
    BY <1>3 DEF event_sock_read, At, streamVars
  <2>2. InOrder(inbuf, stream_id, peer.sid)
    BY <2>1, Zenon DEF OInv
  <2>3. /\ peer.sid <= peer'.sid
        /\ Names(f) => f.sid = peer'.sid
    BY <2>1, PeerOrder, Zenon
  <2>4. inbuf \in Seq(Frames) /\ stream_id \in Nat /\ peer.sid \in Nat
    BY BatchTypes, Zenon
  <2>5. peer'.sid \in Nat
    <3>1. IInv'
      BY <1>3, ReadIInv
    <3>2. peer' \in PeerStates
      BY <3>1 DEF IInv, PeerTypes
    <3>3. peer'.sid \in StreamIds \cup {0}
      BY <3>2 DEF PeerStates
    <3> QED
      BY <3>3, IdNat
  <2>6. InOrder(Append(inbuf, f), stream_id, peer'.sid)
    BY <2>2, <2>3, <2>4, <2>5, OrderAppend, Zenon
  <2> QED
    BY <2>1, <2>6, Zenon DEF OInv
<1>4. CASE \/ event_loop_close \/ event_loop_timers \/ event_sock_read_none
           \/ event_sock_write_none \/ event_loop_pending
           \/ event_sock_handle_write \/ event_sock_handle_write_end
           \/ \E n \in 1 .. wlen : event_sock_write(n)
           \/ UNCHANGED vars
  <2>1. CASE UNCHANGED vars
    BY <2>1, Zenon DEF vars, streamVars, peerVars, writeVars, OInv
  <2>2. CASE event_sock_handle_write
    <3>1. inbuf' = inbuf /\ stream_id' = stream_id /\ peer' = peer /\ failed = "none"
      BY <2>2, Zenon DEF event_sock_handle_write, At, http2_close_immediate, streamVars,
                         peerVars
    <3> QED
      BY <3>1, Zenon DEF OInv
  <2>3. CASE \/ event_loop_close \/ event_loop_timers \/ event_sock_read_none
             \/ event_sock_write_none \/ event_loop_pending \/ event_sock_handle_write_end
             \/ \E n \in 1 .. wlen : event_sock_write(n)
    <3>1. inbuf' = inbuf /\ stream_id' = stream_id /\ peer' = peer /\ failed = "none"
      BY <2>3, Zenon
      DEF event_loop_close, event_loop_timers, event_sock_read_none, event_sock_write_none,
          event_loop_pending, event_sock_handle_write_end, event_sock_write, streamVars,
          peerVars, At
    <3> QED
      BY <3>1, Zenon DEF OInv
  <2> QED
    BY <1>4, <2>1, <2>2, <2>3
<1> QED
  BY <1>1, <1>2, <1>3, <1>4

----------------------------------------------------------------------------
(* The windows that the peer grants *)

\* What the peer grants a stream fits the signed 32-bit field that holds it: a
\* peer may not raise a window above the largest one.
GrantsInRange == \A s \in StreamIds : granted[s] \in -(MaxWindow + 1) .. MaxWindow

\* The inductive invariant about windows.
GInv == failed = "none" => WindowMatchesGrant

\* A sum that fits does not wrap.
LEMMA WrapFits ==
  ASSUME NEW x \in -(MaxWindow + 1) .. MaxWindow
  PROVE  Wrap(x) = x
  BY SizesAssumption DEF Wrap

\* http2_continue_send takes what it sends from the window and from the grant.
LEMMA SendCharges ==
  ASSUME IInv, stream_id \in StreamIds, NEW q, NEW rel, NEW sw \in Int,
         http2_continue_send(q, rel, sw),
         NEW g \in [StreamIds -> Int], g[stream_id] = sw,
         granted' = Charge(g), stream_id' = stream_id
  PROVE  stream_window' = granted'[stream_id']
<1>1. stream_window' = sw - (buflen - buflen')
  BY SendEffect, Zenon
<1>2. granted' = [g EXCEPT ![stream_id] = @ - (buflen - buflen')]
  BY Zenon DEF Charge
<1>3. granted'[stream_id] = g[stream_id] - (buflen - buflen')
  BY <1>2
<1> QED
  BY <1>1, <1>3, Zenon

\* Every handler keeps the window that of the grant.
LEMMA ClassGrants ==
  ASSUME IInv, KInv, OInv, GInv, GrantsInRange', Class
  PROVE  GInv'
<1> SUFFICES ASSUME failed' = "none", stream_state' # "CLOSED"
             PROVE  stream_window' = granted'[stream_id']
  BY DEF GInv, WindowMatchesGrant
<1>1. /\ failed = "none" /\ Unopened
      /\ stream_state # "CLOSED" => stream_window = granted[stream_id]
  BY Zenon DEF Class, Between, GInv, WindowMatchesGrant, KInv
<1>2. granted \in [StreamIds -> Int] /\ initial_window_size \in Int
  BY SizesAssumption DEF IInv, PeerTypes, CtxTypes
<1>3. stream_state # "CLOSED" => stream_id \in StreamIds
  BY <1>1, Identifiers DEF Unopened
<1>4. CASE /\ UNCHANGED <<stream_id, stream_window, granted>>
           /\ stream_state' # "CLOSED" => stream_state # "CLOSED"
  BY <1>1, <1>4, Zenon
<1>5. CASE inbuf # <<>> /\ OpenStream(Head(inbuf).sid) /\ Head(inbuf).sid > stream_id
  <2> DEFINE id == Head(inbuf).sid
  <2>1. id \in StreamIds
    BY <1>5, Identifiers
  <2>2. /\ stream_id' = id /\ stream_window' = initial_window_size
        /\ granted' = [granted EXCEPT ![id] = initial_window_size]
    BY <1>5, Zenon DEF OpenStream
  <2> QED
    BY <1>2, <2>1, <2>2, Zenon
<1>6. CASE Adjusts /\ stream_id' = stream_id
  <2>1. PICK value \in 0 .. MaxWindow :
          /\ stream_state # "CLOSED"
          /\ stream_window' = Adjusted(value)
          /\ granted' = [granted EXCEPT ![stream_id] = @ + (value - initial_window_size)]
    BY <1>6, Zenon DEF Adjusts
  <2> DEFINE x == granted[stream_id] + (value - initial_window_size)
  <2>2. stream_id \in StreamIds /\ stream_window = granted[stream_id]
    BY <1>1, <1>3, <2>1, Zenon
  <2>3. granted'[stream_id] = x
    BY <1>2, <2>1, <2>2, Zenon
  <2>4. x \in -(MaxWindow + 1) .. MaxWindow
    BY <2>2, <2>3, Zenon DEF GrantsInRange
  <2>5. stream_window' = Wrap(x)
    BY <2>1, <2>2, Zenon DEF Adjusted
  <2> HIDE DEF x
  <2> QED
    BY <1>6, <2>3, <2>4, <2>5, WrapFits, Zenon
<1>7. CASE Enlarges(Head(inbuf))
  <2> DEFINE f == Head(inbuf)
  <2>1. /\ inbuf # <<>> /\ f.type = "WINDOW_UPDATE" /\ f.sid # 0 /\ f.sid <= stream_id
        /\ http2_continue_send(queue, 0, stream_window + f.arg)
        /\ granted' = Charge([granted EXCEPT ![f.sid] = @ + f.arg])
        /\ stream_id' = stream_id /\ stream_state' = stream_state
    BY <1>7, Zenon DEF Enlarges, Takes
  <2>2. f.sid = stream_id
    <3>1. InOrder(inbuf, stream_id, peer.sid)
      BY <1>1, Zenon DEF OInv
    <3>2. Names(f)
      BY <2>1 DEF Names
    <3>3. stream_id <= f.sid
      BY <2>1, <3>1, <3>2, BatchTypes, OrderTail, Zenon
    <3>4. f.sid \in Nat /\ stream_id \in Nat
      BY <2>1, Identifiers
    <3> QED
      BY <2>1, <3>3, <3>4
  <2>3. /\ stream_id \in StreamIds /\ stream_window = granted[stream_id]
        /\ f.arg \in Int /\ stream_window \in Int
    BY <1>1, <1>3, <2>1, Identifiers, StreamWindow
  <2> DEFINE g == [granted EXCEPT ![stream_id] = @ + f.arg]
             sw == stream_window + f.arg
  <2>4. g \in [StreamIds -> Int] /\ g[stream_id] = sw /\ sw \in Int
    BY <1>2, <2>3
  <2>5. http2_continue_send(queue, 0, sw) /\ granted' = Charge(g)
    BY <2>1, <2>2, Zenon
  <2> HIDE DEF g, sw
  <2> QED
    BY <2>1, <2>3, <2>4, <2>5, SendCharges, Zenon
<1>8. CASE OpensAndEnds(Head(inbuf)) \/ Opening(Head(inbuf))
  BY <1>5, <1>8, Zenon DEF OpensAndEnds, Opening, Asks, Takes
<1>9. CASE \/ Ends \/ Calm \/ Greets \/ Starts \/ Readies
           \/ Further(Head(inbuf)) \/ Trailers(Head(inbuf))
  <2>1. CASE Ends \/ Calm \/ Greets \/ Starts \/ Readies
    BY <1>4, <1>6, <2>1, Zenon DEF Ends, Calm, Greets, Starts, Readies, streamVars
  <2>2. CASE Further(Head(inbuf)) \/ Trailers(Head(inbuf))
    <3>1. /\ UNCHANGED <<stream_id, stream_window, granted>>
          /\ stream_state # "CLOSED"
      BY <2>2 DEF Further, Trailers
    <3> QED
      BY <1>4, <3>1
  <2> QED
    BY <1>9, <2>1, <2>2
<1>10. ASSUME NEW sid \in StreamIds, Resets(sid)
       PROVE  stream_window' = granted'[stream_id']
  <2>1. /\ UNCHANGED <<stream_id, stream_window, granted>>
        /\ stream_state' # "CLOSED" => stream_state # "CLOSED"
    BY <1>10 DEF Resets
  <2> QED
    BY <1>4, <2>1
<1> QED
  BY <1>7, <1>8, <1>9, <1>10, Zenon DEF Class

\* The steps of the loop keep it too.
LEMMA LoopGrants ==
  ASSUME IInv, KInv, GInv,
         \/ http2_new_client \/ event_loop_close \/ event_loop_timers
         \/ event_sock_read_end \/ event_sock_read_none
         \/ event_sock_write_none \/ event_sock_write_error
         \/ event_sock_handle_write \/ event_sock_handle_write_end
         \/ event_loop_pending
         \/ \E f \in Frames : event_sock_read(f)
         \/ \E n \in 1 .. wlen : event_sock_write(n)
  PROVE  GInv'
<1>1. CASE UNCHANGED <<streamVars, granted>> /\ failed = "none"
  BY <1>1, Zenon DEF streamVars, GInv, WindowMatchesGrant
<1>2. CASE stream_state' = "CLOSED"
  BY <1>2 DEF GInv, WindowMatchesGrant
<1>3. CASE http2_new_client
  BY <1>2, <1>3 DEF http2_new_client, Fresh
<1>4. CASE event_sock_read_end \/ event_sock_write_error
  BY <1>1, <1>2, <1>4, Zenon
  DEF event_sock_read_end, event_sock_write_error, event_sock_close, At,
      http2_close_immediate
<1>5. CASE event_sock_handle_write
  <2> DEFINE q == Tail(queue)
  <2>0. failed = "none"
    BY <1>5, Zenon DEF event_sock_handle_write, At
  <2>1. CASE UNCHANGED <<streamVars, granted>>
    BY <1>1, <2>0, <2>1
  <2>2. CASE http2_close_immediate
    BY <1>2, <2>2 DEF http2_close_immediate
  <2>3. CASE on_stream_send_complete(q) /\ stream_id' = stream_id
    <3>1. CASE stream_state' = "CLOSED"
      BY <1>2, <3>1
    <3>2. CASE /\ http2_continue_send(q, 1, stream_window) /\ granted' = Charge(granted)
               /\ stream_state' = stream_state
      <4>1. ASSUME stream_state # "CLOSED" PROVE stream_window' = granted'[stream_id']
        <5>1. stream_id \in StreamIds /\ stream_window = granted[stream_id]
          BY <2>0, <4>1, Identifiers DEF GInv, WindowMatchesGrant, KInv, Unopened
        <5>2. granted \in [StreamIds -> Int]
          BY DEF IInv, PeerTypes
        <5> QED
          BY <2>3, <3>2, <5>1, <5>2, SendCharges, StreamWindow, Zenon
      <4> QED
        BY <3>2, <4>1 DEF GInv, WindowMatchesGrant
    <3> QED
      BY <2>3, <3>1, <3>2, Zenon DEF on_stream_send_complete
  <2> QED
    BY <1>5, <2>1, <2>2, <2>3, Zenon DEF event_sock_handle_write
<1>6. CASE \/ event_loop_close \/ event_loop_timers \/ event_sock_read_none
           \/ event_sock_write_none \/ event_loop_pending \/ event_sock_handle_write_end
           \/ \E n \in 1 .. wlen : event_sock_write(n)
           \/ \E f \in Frames : event_sock_read(f)
  <2>1. UNCHANGED <<streamVars, granted>> /\ failed = "none"
    BY <1>6, Zenon
    DEF event_loop_close, event_loop_timers, event_sock_read_none, event_sock_write_none,
        event_loop_pending, event_sock_handle_write_end, event_sock_write, event_sock_read, At
  <2> QED
    BY <1>1, <2>1
<1> QED
  BY <1>3, <1>4, <1>5, <1>6

----------------------------------------------------------------------------
(* Theorem: windows are those that were granted *)

\* For all sizes, the window of an open stream is what a peer that follows the
\* protocol granted that stream, by SETTINGS and WINDOW_UPDATE, less the DATA
\* sent on it, as long as what it grants fits a window: no update meant for
\* another stream is taken (http2.c:586-643), and none is lost when a stream
\* is opened, when the initial size changes or when a write is cut short.
THEOREM WindowMatchesGrantThm ==
  ASSUME Conforming
  PROVE  Spec /\ []GrantsInRange => [](AssertionsHold => WindowMatchesGrant)
<1>1. Init => OInv /\ GInv
  <2> SUFFICES ASSUME Init PROVE OInv /\ GInv
    OBVIOUS
  <2>1. inbuf = <<>> /\ stream_id = 0 /\ peer.sid = 0 /\ 0 <= 0 /\ stream_state = "CLOSED"
    BY DEF Init
  <2> QED
    BY <2>1, OrderEmpty, Zenon DEF OInv, GInv, WindowMatchesGrant
<1>2. IInv /\ Receiving /\ KInv /\ OInv /\ GInv /\ GrantsInRange' /\ [Next]_vars
        => OInv' /\ GInv'
  <2> SUFFICES ASSUME IInv, Receiving, KInv, OInv, GInv, GrantsInRange', [Next]_vars
               PROVE  OInv' /\ GInv'
    OBVIOUS
  <2>1. CASE UNCHANGED vars
    <3>1. OInv'
      BY <2>1, LoopOrder
    <3>2. UNCHANGED <<streamVars, granted, failed>>
      BY <2>1, Zenon DEF vars, writeVars
    <3> QED
      BY <3>1, <3>2, Zenon DEF GInv, WindowMatchesGrant, streamVars
  <2>2. CASE Receive \/ on_settings_timeout \/ http2_close_gracefully
    BY <2>2, Classified, ClassOrder, ClassGrants, Zenon
  <2> QED
    BY <2>1, <2>2, LoopOrder, LoopGrants, Zenon DEF Next, Loop
<1>3. GInv => (AssertionsHold => WindowMatchesGrant)
  BY DEF GInv, AssertionsHold
<1> QED
  BY <1>1, <1>2, <1>3, ReceivingInvariant, StreamsInvariant, PTL DEF Spec

----------------------------------------------------------------------------
(* What the server has heard of the peer *)

\* The streams of the queued operations whose callback goes on with an answer.
Pending(q) ==
  {q[i].sid : i \in {j \in 1 .. Len(q) : q[j].cb = "on_stream_send_complete"}}

\* Some frame of a batch opens a stream.
Asking(q) == \E i \in 1 .. Len(q) : q[i].type = "HEADERS"

\* At most one does.
AskingOnce(q) ==
  \A i, j \in 1 .. Len(q) : q[i].type = "HEADERS" /\ q[j].type = "HEADERS" => i = j

\* What a peer without habits may send next, by what it has sent.
MayFollow(p, f) ==
  CASE f.type = "HEADERS" -> f.sid > p.sid /\ p.tx \in {"idle", "done"}
    [] f.type = "CONTINUATION" -> p.tx = "block" /\ "END_STREAM" \notin f.flags
    [] f.type = "DATA" -> p.tx = "body"
    [] f.type = "WINDOW_UPDATE" -> f.sid # 0 => p.tx = "done"
    [] f.type = "PREFACE" -> p.tx = "start"
    [] f.type = "SETTINGS" -> p.tx \notin {"start", "block"}
    [] OTHER -> f.type # "RST_STREAM"

\* tr is how the peer came to p by sending q.
Replays(tr, q, p) ==
  /\ tr \in Seq(PeerStates) /\ Len(tr) = Len(q) + 1 /\ tr[Len(q) + 1] = p
  /\ \A i \in 1 .. Len(q) :
       MayFollow(tr[i], q[i]) /\ tr[i + 1] = PeerSends(tr[i], q[i])

\* The place of the peer, as the flags of the context tell it.
PlaceOf(sid, fl) ==
  IF sid = 0 THEN "idle"
  ELSE IF "WAITING_END_HEADERS" \in fl THEN "block"
  ELSE IF "WAITING_END_STREAM" \in fl THEN "body" ELSE "done"

\* The frames handled so far are those that brought the peer to p.
Heard(p) ==
  /\ p.sid = stream_id
  /\ read_cb = "waiting_for_preface" => p.tx = "start"
  /\ read_cb = "waiting_for_settings" =>
       p.tx = IF phase = "update_first" THEN "idle" ELSE "preface"
  /\ read_cb = "receiving" =>
       /\ p.tx = PlaceOf(stream_id, flags)
       /\ p.tx = "block" => (p.es <=> "WAITING_END_STREAM" \notin flags)

\* An operation at the end of a queue.
LEMMA PendingAppend ==
  ASSUME NEW q \in Seq(Op), NEW op \in Op
  PROVE  Pending(Append(q, op)) =
           Pending(q) \cup (IF op.cb = "on_stream_send_complete" THEN {op.sid} ELSE {})
<1>1. /\ Len(Append(q, op)) = Len(q) + 1 /\ Append(q, op)[Len(q) + 1] = op
      /\ \A i \in 1 .. Len(q) : Append(q, op)[i] = q[i]
      /\ Len(q) \in Nat
  BY AppendFacts, LenFacts
<1>2. 1 .. Len(q) + 1 = (1 .. Len(q)) \cup {Len(q) + 1}
  BY <1>1
<1> QED
  BY <1>1, <1>2, SMTT(30) DEF Pending

\* The operation at the head of a queue is taken out.
LEMMA PendingTail ==
  ASSUME NEW q \in Seq(Op), q # <<>>
  PROVE  /\ Pending(Tail(q)) \subseteq Pending(q)
         /\ Head(q).cb = "on_stream_send_complete" => Head(q).sid \in Pending(q)
<1>1. /\ Len(q) \in Nat /\ Len(q) >= 1 /\ Len(Tail(q)) = Len(q) - 1 /\ Head(q) = q[1]
      /\ \A i \in 1 .. Len(Tail(q)) : Tail(q)[i] = q[i + 1]
  BY TailFacts, LenFacts
<1>2. ASSUME NEW i \in 1 .. Len(Tail(q)) PROVE i + 1 \in 1 .. Len(q)
  BY <1>1
<1>3. 1 \in 1 .. Len(q)
  BY <1>1
<1> QED
  BY <1>1, <1>2, <1>3, ZenonT(30) DEF Pending

\* It is put back in part.
LEMMA PendingPart ==
  ASSUME NEW q \in Seq(Op), q # <<>>, NEW n
  PROVE  Pending(<<[Head(q) EXCEPT !.bytes = n]>> \o Tail(q)) \subseteq Pending(q)
<1> DEFINE x == [Head(q) EXCEPT !.bytes = n]
           r == <<x>> \o Tail(q)
<1>1. /\ Len(q) \in Nat /\ Len(q) >= 1 /\ Len(Tail(q)) = Len(q) - 1 /\ Head(q) = q[1]
      /\ \A i \in 1 .. Len(Tail(q)) : Tail(q)[i] = q[i + 1]
      /\ Head(q) \in Op /\ Tail(q) \in Seq(Op)
  BY TailFacts, LenFacts
<1>2. x.cb = Head(q).cb /\ x.sid = Head(q).sid
  BY <1>1 DEF Op
<1> HIDE DEF x
<1>3. Len(r) = Len(q) /\ r[1] = x /\ \A i \in 2 .. Len(q) : r[i] = q[i]
  BY <1>1
<1> HIDE DEF r
<1>4. ASSUME NEW i \in 1 .. Len(r) PROVE r[i].cb = q[i].cb /\ r[i].sid = q[i].sid
  BY <1>1, <1>2, <1>3
<1>5. Pending(r) \subseteq Pending(q)
  BY <1>3, <1>4, Zenon DEF Pending
<1> QED
  BY <1>5 DEF r, x

\* An empty queue and an empty batch.
LEMMA PendingEmpty == Pending(<<>>) = {} /\ ~Asking(<<>>) /\ AskingOnce(<<>>)
  BY DEF Pending, Asking, AskingOnce

\* The first frame of a batch is handled.
LEMMA AskingTail ==
  ASSUME NEW q \in Seq(Frames), q # <<>>, AskingOnce(q)
  PROVE  /\ AskingOnce(Tail(q))
         /\ Asking(Tail(q)) => Asking(q) /\ Head(q).type # "HEADERS"
         /\ Head(q).type = "HEADERS" => Asking(q)
<1>1. /\ Len(q) \in Nat /\ Len(q) >= 1 /\ Len(Tail(q)) = Len(q) - 1 /\ Head(q) = q[1]
      /\ \A i \in 1 .. Len(Tail(q)) : Tail(q)[i] = q[i + 1]
  BY TailFacts, LenFacts
<1>2. /\ \A i \in 1 .. Len(Tail(q)) : i + 1 \in 1 .. Len(q) /\ i + 1 # 1
      /\ \A i, j \in 1 .. Len(Tail(q)) : i + 1 = j + 1 => i = j
      /\ 1 \in 1 .. Len(q)
  BY <1>1
<1> QED
  BY <1>1, <1>2, Zenon DEF Asking, AskingOnce

\* A frame is added to a batch.
LEMMA AskingAppend ==
  ASSUME NEW q \in Seq(Frames), NEW f \in Frames, AskingOnce(q),
         f.type = "HEADERS" => ~Asking(q)
  PROVE  /\ AskingOnce(Append(q, f))
         /\ Asking(Append(q, f)) => Asking(q) \/ f.type = "HEADERS"
<1>1. /\ Len(Append(q, f)) = Len(q) + 1 /\ Append(q, f)[Len(q) + 1] = f
      /\ \A i \in 1 .. Len(q) : Append(q, f)[i] = q[i]
      /\ Len(q) \in Nat
  <2>1. Len(q) \in Nat
    BY LenFacts, Zenon
  <2>2. Len(Append(q, f)) = Len(q) + 1 /\ Append(q, f)[Len(q) + 1] = f
    BY AppendFacts, Zenon
  <2>3. \A i \in 1 .. Len(q) : Append(q, f)[i] = q[i]
    BY AppendFacts
  <2> QED
    BY <2>1, <2>2, <2>3
<1>2. \A i \in 1 .. Len(q) + 1 : i \in 1 .. Len(q) \/ i = Len(q) + 1
  BY <1>1
<1> QED
  BY <1>1, <1>2, Zenon DEF Asking, AskingOnce

\* Sending takes the peer from one of its states to another.
LEMMA PeerSendsType ==
  ASSUME NEW p \in PeerStates, NEW f \in Frames
  PROVE  PeerSends(p, f) \in PeerStates
<1>1. f \in RecvFrames
  BY PeerAssumption, Zenon
<1>2. f.sid \in StreamIds \cup {0}
  BY <1>1 DEF RecvFrames
<1>3. ASSUME NEW t \in {"start", "preface", "idle", "block", "body", "done"},
             NEW s \in StreamIds \cup {0}, NEW e \in BOOLEAN
      PROVE  /\ [p EXCEPT !.tx = t] \in PeerStates
             /\ [p EXCEPT !.acked = TRUE] \in PeerStates
             /\ [p EXCEPT !.tx = t, !.sid = s, !.es = e] \in PeerStates
  BY Zenon DEF PeerStates
<1>4. ASSUME NEW e
      PROVE  AfterBlock(f, e) \in {"start", "preface", "idle", "block", "body", "done"}
  BY DEF AfterBlock
<1>5. /\ {"preface", "idle", "done"}
           \subseteq {"start", "preface", "idle", "block", "body", "done"}
      /\ ("END_STREAM" \in f.flags) \in BOOLEAN
  OBVIOUS
<1>6. ASSUME f.type = "HEADERS" PROVE PeerSends(p, f) \in PeerStates
  <2> DEFINE e == "END_STREAM" \in f.flags
             t == AfterBlock(f, e)
             s == f.sid
  <2>1. PeerSends(p, f) = [p EXCEPT !.tx = t, !.sid = s, !.es = e]
    BY <1>6 DEF PeerSends
  <2>2. /\ t \in {"start", "preface", "idle", "block", "body", "done"}
        /\ s \in StreamIds \cup {0} /\ e \in BOOLEAN
    BY <1>2, <1>4, <1>5, Zenon
  <2> HIDE DEF t, s, e
  <2>3. [p EXCEPT !.tx = t, !.sid = s, !.es = e] \in PeerStates
    BY <2>2, Zenon DEF PeerStates
  <2> QED
    BY <2>1, <2>3, Zenon
<1>7. ASSUME f.type # "HEADERS"
      PROVE  PeerSends(p, f) \in {p, [p EXCEPT !.tx = "preface"], [p EXCEPT !.tx = "idle"],
                                  [p EXCEPT !.tx = "done"], [p EXCEPT !.acked = TRUE],
                                  [p EXCEPT !.tx = AfterBlock(f, p.es)]}
  BY <1>7 DEF PeerSends
<1>8. /\ [p EXCEPT !.tx = "preface"] \in PeerStates /\ [p EXCEPT !.tx = "idle"] \in PeerStates
      /\ [p EXCEPT !.tx = "done"] \in PeerStates /\ [p EXCEPT !.acked = TRUE] \in PeerStates
      /\ [p EXCEPT !.tx = AfterBlock(f, p.es)] \in PeerStates
  BY <1>2, <1>3, <1>4, <1>5, Zenon
<1> QED
  BY <1>6, <1>7, <1>8, Zenon

\* With nothing left to handle, the peer is where it has been heard to be.
LEMMA ReplaysEmpty ==
  ASSUME NEW p \in PeerStates
  PROVE  \E tr : Replays(tr, <<>>, p) /\ tr[1] = p
<1>1. Replays(<<p>>, <<>>, p) /\ <<p>>[1] = p
  BY DEF Replays
<1> QED
  BY <1>1, Zenon

\* The first frame is handled.
LEMMA ReplaysTail ==
  ASSUME NEW q \in Seq(Frames), q # <<>>, NEW p, NEW tr, Replays(tr, q, p)
  PROVE  /\ MayFollow(tr[1], Head(q)) /\ tr[1] \in PeerStates
         /\ Replays(Tail(tr), Tail(q), p)
         /\ Tail(tr)[1] = PeerSends(tr[1], Head(q))
<1>1. /\ Len(q) \in Nat /\ Len(q) >= 1 /\ Len(Tail(q)) = Len(q) - 1 /\ Head(q) = q[1]
      /\ \A i \in 1 .. Len(Tail(q)) : Tail(q)[i] = q[i + 1]
  BY TailFacts, LenFacts
<1>2. /\ tr \in Seq(PeerStates) /\ Len(tr) = Len(q) + 1 /\ tr[Len(q) + 1] = p
      /\ \A i \in 1 .. Len(q) :
           MayFollow(tr[i], q[i]) /\ tr[i + 1] = PeerSends(tr[i], q[i])
  BY Zenon DEF Replays
<1>3. tr # <<>>
  BY <1>1, <1>2
<1>4. /\ Tail(tr) \in Seq(PeerStates) /\ Len(Tail(tr)) = Len(q)
      /\ \A i \in 1 .. Len(q) : Tail(tr)[i] = tr[i + 1]
  <2>1. /\ Tail(tr) \in Seq(PeerStates) /\ Len(Tail(tr)) = Len(tr) - 1
        /\ \A i \in 1 .. Len(Tail(tr)) : Tail(tr)[i] = tr[i + 1]
    BY <1>2, <1>3, TailFacts, SMTT(30)
  <2>2. Len(Tail(tr)) = Len(q)
    BY <1>1, <1>2, <2>1
  <2> QED
    BY <2>1, <2>2, Zenon
<1>5. tr[1] \in PeerStates /\ MayFollow(tr[1], Head(q)) /\ 1 \in 1 .. Len(q)
  <2>1. 1 \in 1 .. Len(q) /\ 1 \in 1 .. Len(tr)
    BY <1>1, <1>2
  <2> QED
    BY <1>1, <1>2, <2>1, LenFacts, SMTT(30)
<1>6. Tail(tr)[1] = PeerSends(tr[1], Head(q))
  <2>1. Tail(tr)[1] = tr[1 + 1] /\ tr[1 + 1] = PeerSends(tr[1], q[1])
    BY <1>2, <1>4, <1>5, Zenon
  <2> QED
    BY <1>1, <2>1, Zenon
<1>7. Len(Tail(tr)) = Len(Tail(q)) + 1 /\ Tail(tr)[Len(Tail(q)) + 1] = p
  <2>1. Len(Tail(q)) + 1 = Len(q) /\ Len(q) \in 1 .. Len(q)
    BY <1>1
  <2>2. Tail(tr)[Len(q)] = p
    BY <1>2, <1>4, <2>1, Zenon
  <2> QED
    BY <1>4, <2>1, <2>2
<1>8. ASSUME NEW i \in 1 .. Len(Tail(q))
      PROVE  /\ MayFollow(Tail(tr)[i], Tail(q)[i])
             /\ Tail(tr)[i + 1] = PeerSends(Tail(tr)[i], Tail(q)[i])
  <2>1. i \in 1 .. Len(q) /\ i + 1 \in 1 .. Len(q)
    BY <1>1
  <2>2. /\ Tail(tr)[i] = tr[i + 1] /\ Tail(tr)[i + 1] = tr[(i + 1) + 1]
        /\ Tail(q)[i] = q[i + 1]
    BY <1>1, <1>4, <2>1, Zenon
  <2> QED
    BY <1>2, <2>1, <2>2, Zenon
<1> QED
  BY <1>4, <1>5, <1>6, <1>7, <1>8, Zenon DEF Replays

\* The peer sends one frame more.
LEMMA ReplaysAppend ==
  ASSUME NEW q \in Seq(Frames), NEW f \in Frames, NEW p \in PeerStates, NEW tr,
         Replays(tr, q, p), MayFollow(p, f)
  PROVE  \E new : Replays(new, Append(q, f), PeerSends(p, f)) /\ new[1] = tr[1]
<1> DEFINE p2  == PeerSends(p, f)
           new == Append(tr, p2)
<1>1. /\ Len(Append(q, f)) = Len(q) + 1 /\ Append(q, f)[Len(q) + 1] = f
      /\ \A i \in 1 .. Len(q) : Append(q, f)[i] = q[i]
      /\ Len(q) \in Nat
  BY AppendFacts, LenFacts
<1>2. /\ tr \in Seq(PeerStates) /\ Len(tr) = Len(q) + 1 /\ tr[Len(q) + 1] = p
      /\ \A i \in 1 .. Len(q) :
           MayFollow(tr[i], q[i]) /\ tr[i + 1] = PeerSends(tr[i], q[i])
  BY Zenon DEF Replays
<1>3. p2 \in PeerStates
  BY PeerSendsType
<1>4. /\ new \in Seq(PeerStates) /\ Len(new) = (Len(q) + 1) + 1
      /\ new[(Len(q) + 1) + 1] = p2
      /\ \A i \in 1 .. Len(q) + 1 : new[i] = tr[i]
  <2>1. /\ new \in Seq(PeerStates) /\ Len(new) = Len(tr) + 1 /\ new[Len(tr) + 1] = p2
        /\ \A i \in 1 .. Len(tr) : new[i] = tr[i]
    BY <1>2, <1>3, AppendFacts, SMTT(30)
  <2> QED
    BY <1>2, <2>1, Zenon
<1> HIDE DEF new
<1>5. ASSUME NEW i \in 1 .. Len(q) + 1
      PROVE  /\ MayFollow(new[i], Append(q, f)[i])
             /\ new[i + 1] = PeerSends(new[i], Append(q, f)[i])
  <2>1. CASE i \in 1 .. Len(q)
    <3>1. i + 1 \in 1 .. Len(q) + 1
      BY <1>1, <2>1
    <3> QED
      BY <1>1, <1>2, <1>4, <2>1, <3>1, Zenon
  <2>2. CASE i = Len(q) + 1
    BY <1>1, <1>2, <1>4, <2>2, Zenon
  <2> QED
    BY <1>1, <2>1, <2>2
<1>6. 1 \in 1 .. Len(q) + 1
  BY <1>1
<1>7. Replays(new, Append(q, f), p2) /\ new[1] = tr[1]
  BY <1>1, <1>4, <1>5, <1>6, Zenon DEF Replays
<1> QED
  BY <1>7, Zenon

----------------------------------------------------------------------------
(* Answers in order *)

\* The connection is in use, or will be.
Live == read_cb # "none" /\ (read_cb = "receiving" => state = "READY")

\* No stream has been reset, by the server or by the peer.
NoReset == \A s \in StreamIds : resp[s] # "reset"

\* The frames of a batch that open a stream open one after id.
Newer(q, id) == \A i \in 1 .. Len(q) : q[i].type = "HEADERS" => q[i].sid > id

\* Answers are in order, and will be: callbacks go on with the answer of the
\* stream in hand only, a stream whose request is being received has no answer
\* yet, and the peer has asked for no other before this one is answered.
Orderly ==
  /\ AnswersInOrder /\ "WAITING_TRAILERS" \notin flags
  /\ Pending(queue) \subseteq {stream_id} \ {0}
  /\ stream_id # 0 /\ Waiting(flags) => Pending(queue) = {} /\ resp[stream_id] = "none"
  /\ Asking(inbuf) => Pending(queue) = {} /\ (stream_id = 0 \/ resp[stream_id] = "ended")
  /\ AskingOnce(inbuf) /\ Newer(inbuf, stream_id)
  /\ stream_id # 0 /\ stream_state = "CLOSED" => buflen = 0

\* The batch takes the peer from where it has been heard to be to where it is.
Followed == \E tr : Replays(tr, inbuf, peer) /\ Heard(tr[1])

\* The peer has opened a stream unless it is still about to open the first.
Opened == peer.sid = 0 <=> peer.tx \in {"start", "preface", "idle"}

\* The inductive invariant about a peer that follows the protocol.
JInv == failed = "none" /\ Live => Orderly /\ Followed /\ Opened

\* A connection that is ready is being read.
ReadyReads == failed = "none" /\ state = "READY" => read_cb = "receiving"

\* What the invariants say of a connection in use.
LEMMA InHand ==
  ASSUME IInv, KInv, JInv, failed = "none", Live, lost = {}
  PROVE  /\ Orderly /\ Followed /\ Opened /\ Later /\ Unopened
         /\ stream_id # 0 => /\ Progress
                             /\ read_cb \notin {"waiting_for_preface", "waiting_for_settings"}
<1>1. Orderly /\ Followed /\ Opened /\ Later /\ Unopened
  BY Zenon DEF JInv, KInv
<1>2. Sound
  BY <1>1 DEF Sound, Orderly
<1>3. ASSUME stream_id # 0
      PROVE  read_cb \notin {"waiting_for_preface", "waiting_for_settings"}
  BY <1>1, <1>3 DEF Unopened
<1>4. ASSUME stream_id # 0, read_cb = "receiving" PROVE Progress
  BY <1>2, <1>4 DEF KInv, Live
<1>5. read_cb \in {"waiting_for_preface", "waiting_for_settings", "receiving"}
  BY DEF IInv, SockTypes, ReadCallbacks, Live
<1> QED
  BY <1>1, <1>3, <1>4, <1>5

\* The first frame is handled: what is left asks for no more than before.
LEMMA NewerTail ==
  ASSUME NEW q \in Seq(Frames), q # <<>>, NEW id, Newer(q, id)
  PROVE  /\ Newer(Tail(q), id)
         /\ Head(q).type = "HEADERS" => Head(q).sid > id
<1>1. /\ Len(q) \in Nat /\ Len(q) >= 1 /\ Len(Tail(q)) = Len(q) - 1 /\ Head(q) = q[1]
      /\ \A i \in 1 .. Len(Tail(q)) : Tail(q)[i] = q[i + 1]
  BY TailFacts, LenFacts
<1>2. /\ \A i \in 1 .. Len(Tail(q)) : i + 1 \in 1 .. Len(q)
      /\ 1 \in 1 .. Len(q)
  BY <1>1
<1> QED
  BY <1>1, <1>2, Zenon DEF Newer

\* A frame that opens a stream after id is added to a batch.
LEMMA NewerAppend ==
  ASSUME NEW q \in Seq(Frames), NEW f \in Frames, NEW id, Newer(q, id),
         f.type = "HEADERS" => f.sid > id
  PROVE  Newer(Append(q, f), id)
<1>1. /\ Len(Append(q, f)) = Len(q) + 1 /\ Append(q, f)[Len(q) + 1] = f
      /\ \A i \in 1 .. Len(q) : Append(q, f)[i] = q[i]
      /\ Len(q) \in Nat
  BY AppendFacts, LenFacts
<1>2. \A i \in 1 .. Len(q) + 1 : i \in 1 .. Len(q) \/ i = Len(q) + 1
  BY <1>1
<1> QED
  BY <1>1, <1>2, Zenon DEF Newer

\* A batch that opens no stream.
LEMMA NotAsking ==
  ASSUME NEW q, ~Asking(q)
  PROVE  AskingOnce(q) /\ \A id : Newer(q, id)
  BY Zenon DEF Asking, AskingOnce, Newer

\* The queue is one of operations.
LEMMA QueueType ==
  ASSUME IInv
  PROVE  queue \in Seq(Op) /\ resp \in [StreamIds -> Answers]
  BY Zenon DEF IInv, Written, WriteTypes

\* A step that leaves the stream and its answer alone.
LEMMA QuietOrderly ==
  ASSUME IInv, Orderly,
         UNCHANGED <<stream_id, stream_state, buflen, resp>>,
         \/ flags' \cap RequestFlags = flags \cap RequestFlags
         \/ flags' \subseteq flags /\ stream_id = 0,
         Pending(queue') \subseteq Pending(queue),
         inbuf' = inbuf \/ (inbuf # <<>> /\ inbuf' = Tail(inbuf))
  PROVE  Orderly'
<1>1. /\ "WAITING_TRAILERS" \in flags' => "WAITING_TRAILERS" \in flags
      /\ stream_id # 0 /\ Waiting(flags') => Waiting(flags)
  BY DEF RequestFlags, Waiting
<1>2. /\ Asking(inbuf') => Asking(inbuf)
      /\ AskingOnce(inbuf') /\ Newer(inbuf', stream_id)
  <2>1. AskingOnce(inbuf) /\ Newer(inbuf, stream_id) /\ inbuf \in Seq(Frames)
    BY BatchTypes, Zenon DEF Orderly
  <2> QED
    BY <2>1, AskingTail, NewerTail, Zenon
<1>3. Pending(queue) = {} => Pending(queue') = {}
  OBVIOUS
<1>4. AnswersInOrder'
  BY Zenon DEF Orderly, AnswersInOrder
<1>5. Pending(queue') \subseteq {stream_id} \ {0}
  BY DEF Orderly
<1> QED
  BY <1>1, <1>2, <1>3, <1>4, <1>5, Zenon DEF Orderly

\* A frame about the connection asks no callback to go on with an answer.
LEMMA SaysPending ==
  ASSUME IInv, Says, failed' = "none"
  PROVE  resp' = resp /\ Pending(queue') = Pending(queue)
<1>1. /\ resp' = resp
      /\ \/ queue' = queue
         \/ \E op \in Op : /\ queue' = Append(queue, op)
                           /\ op.cb # "on_stream_send_complete"
  BY SaysEffect, Zenon
<1>2. ASSUME NEW op \in Op, op.cb # "on_stream_send_complete"
      PROVE  Pending(Append(queue, op)) = Pending(queue)
  <2>1. Pending(Append(queue, op)) =
          Pending(queue) \cup (IF op.cb = "on_stream_send_complete" THEN {op.sid} ELSE {})
    BY PendingAppend, QueueType, Zenon
  <2> QED
    BY <1>2, <2>1
<1>3. Pending(queue') = Pending(queue)
  <2>1. CASE queue' = queue
    BY <2>1, Zenon
  <2>2. ASSUME NEW op \in Op, queue' = Append(queue, op),
               op.cb # "on_stream_send_complete"
        PROVE  Pending(queue') = Pending(queue)
    BY <1>2, <2>2, Zenon
  <2> QED
    BY <1>1, <2>1, <2>2, Zenon
<1> QED
  BY <1>1, <1>3

\* A frame that goes on with an answer asks its callback to.
LEMMA SentPending ==
  ASSUME NEW q \in Seq(Op), NEW fr \in SentFrames, Sent(q, fr, "on_stream_send_complete")
  PROVE  Pending(queue') = Pending(q) \cup {fr.sid}
<1>1. PICK n \in Nat \ {0} :
        queue' = Append(q, [cb |-> "on_stream_send_complete", bytes |-> n,
                            kind |-> fr.kind, sid |-> fr.sid, es |-> fr.es])
  BY Zenon DEF Sent
<1> DEFINE op == [cb |-> "on_stream_send_complete", bytes |-> n, kind |-> fr.kind,
                  sid |-> fr.sid, es |-> fr.es]
<1>2. op \in Op /\ op.cb = "on_stream_send_complete" /\ op.sid = fr.sid
  BY DEF Op, SentFrames, Callbacks
<1>3. queue' = Append(q, op)
  BY <1>1
<1> HIDE DEF op
<1>4. Pending(queue') = Pending(q) \cup (IF op.cb = "on_stream_send_complete"
                                         THEN {op.sid} ELSE {})
  BY <1>2, <1>3, PendingAppend, Zenon
<1> QED
  BY <1>2, <1>4

\* A part of a request, or its last part and the HEADERS of the answer.
LEMMA AskOrderly ==
  ASSUME IInv, failed' = "none", lost' = {}, AnswersInOrder,
         NEW f, NEW fl, NEW st, Asks(f, fl, st, stream_id'), stream_id' \in StreamIds,
         Pending(queue) = {}, resp[stream_id'] = "none", ~Asking(inbuf'),
         "WAITING_TRAILERS" \notin fl, st # "CLOSED"
  PROVE  Orderly'
<1> DEFINE id == stream_id'
<1>1. /\ "WAITING_TRAILERS" \notin flags' /\ stream_state' # "CLOSED"
      /\ AskingOnce(inbuf') /\ Newer(inbuf', id)
  <2>1. /\ flags' = fl \ Completed(f)
        /\ stream_state' = IF "END_STREAM" \in f.flags THEN "HALF_CLOSED_REMOTE" ELSE st
    BY Zenon DEF Asks
  <2>2. "WAITING_TRAILERS" \notin flags' /\ stream_state' # "CLOSED"
    BY <2>1
  <2> QED
    BY <2>2, NotAsking, Zenon
<1>2. id \in StreamIds \cup {0} /\ id # 0
  BY PeerAssumption, Zenon
<1>3. CASE Waiting(flags') /\ UNCHANGED writeVars
  <2>1. resp' = resp /\ queue' = queue
    BY <1>3, Zenon DEF writeVars
  <2>2. Pending(queue') = {} /\ AnswersInOrder' /\ resp'[id] = "none"
    BY <2>1, Zenon DEF AnswersInOrder
  <2> QED
    BY <1>1, <2>2 DEF Orderly
<1>4. ASSUME ~Waiting(flags'), NEW n \in Bodies,
             event_write(queue, 0, Frame("HEADERS", id, n = 0, 0),
                         "on_stream_send_complete")
      PROVE  Orderly'
  <2> DEFINE fr == Frame("HEADERS", id, n = 0, 0)
  <2>1. fr.kind = "HEADERS" /\ fr.sid = id
    BY DEF Frame
  <2>2. "HEADERS" \in SentKinds /\ (n = 0) \in BOOLEAN /\ 0 \in Nat
    BY DEF SentKinds
  <2>3. fr \in SentFrames
    BY <1>2, <2>2, FrameType, Zenon
  <2>4. event_write(queue, 0, fr, "on_stream_send_complete")
    BY <1>4
  <2> HIDE DEF fr
  <2>5. Sent(queue, fr, "on_stream_send_complete")
    BY <2>3, <2>4, WriteEffect, Zenon
  <2>6. /\ \A s \in StreamIds : s # id => resp'[s] = resp[s]
        /\ resp'[id] = Follow(resp[id], fr)
    BY <2>1, <2>3, <2>5, SentKeeps, Zenon
  <2>7. Follow(resp[id], fr) # "broken"
    BY <2>1 DEF Follow
  <2>8. AnswersInOrder'
    BY <2>6, <2>7, Zenon DEF AnswersInOrder
  <2>9. Pending(queue') = {id}
    <3>1. Pending(queue') = Pending(queue) \cup {fr.sid}
      BY <2>3, <2>5, QueueType, SentPending, Zenon
    <3> QED
      BY <2>1, <3>1
  <2>10. Pending(queue') \subseteq {id} \ {0}
    BY <1>2, <2>9
  <2> QED
    BY <1>1, <1>4, <2>8, <2>10, Zenon DEF Orderly
<1> QED
  BY <1>3, <1>4, Zenon DEF Asks

\* http2_continue_send goes on with the answer of the stream in hand.
LEMMA SendOrderly ==
  ASSUME IInv, Orderly, failed' = "none", lost' = {},
         NEW q \in Seq(Op), Pending(q) \subseteq Pending(queue),
         NEW rel, NEW sw \in Int, http2_continue_send(q, rel, sw),
         UNCHANGED <<flags, stream_id, stream_state>>, stream_id \in StreamIds,
         buflen > 0 => /\ ~Waiting(flags) /\ resp[stream_id] = "headers"
                       /\ stream_state # "CLOSED",
         inbuf' = inbuf \/ (inbuf # <<>> /\ inbuf' = Tail(inbuf))
  PROVE  Orderly'
<1>1. CASE Unsent(q) /\ UNCHANGED <<lost, buf, buflen>>
  <2>1. queue' = q /\ resp' = resp /\ Pending(queue') \subseteq Pending(queue)
    BY <1>1, Zenon DEF Unsent
  <2> QED
    BY <1>1, <2>1, QuietOrderly, Zenon
<1>2. ASSUME NEW len \in 1 .. buflen,
             Frame("DATA", stream_id, buflen = len, len) \in SentFrames,
             Sent(q, Frame("DATA", stream_id, buflen = len, len),
                  "on_stream_send_complete")
      PROVE  Orderly'
  <2> DEFINE fr == Frame("DATA", stream_id, buflen = len, len)
  <2>1. fr.kind = "DATA" /\ fr.sid = stream_id
    BY DEF Frame
  <2>2. fr \in SentFrames /\ Sent(q, fr, "on_stream_send_complete")
    BY <1>2
  <2> HIDE DEF fr
  <2>3. ~Waiting(flags) /\ resp[stream_id] = "headers" /\ stream_state # "CLOSED"
    <3>1. buflen > 0
      BY <1>2, StreamWindow
    <3> QED
      BY <3>1
  <2>4. /\ \A s \in StreamIds : s # stream_id => resp'[s] = resp[s]
        /\ resp'[stream_id] = Follow(resp[stream_id], fr)
    BY <2>1, <2>2, SentKeeps, Zenon
  <2>5. Follow(resp[stream_id], fr) # "broken"
    BY <2>1, <2>3 DEF Follow
  <2>6. AnswersInOrder'
    BY <2>4, <2>5, Zenon DEF AnswersInOrder, Orderly
  <2>7. Pending(queue') \subseteq {stream_id} \ {0}
    <3>1. Pending(queue') = Pending(q) \cup {fr.sid}
      BY <2>2, SentPending, Zenon
    <3>2. stream_id # 0
      BY PeerAssumption, Zenon
    <3> QED
      BY <2>1, <3>1, <3>2, SMTT(30) DEF Orderly
  <2>8. ~Asking(inbuf')
    <3>1. ~Asking(inbuf)
      <4>1. stream_id # 0 /\ resp[stream_id] # "ended"
        BY <2>3, PeerAssumption, Zenon
      <4> QED
        BY <4>1, Zenon DEF Orderly
    <3>2. inbuf \in Seq(Frames) /\ AskingOnce(inbuf)
      BY BatchTypes, Zenon DEF Orderly
    <3> QED
      BY <3>1, <3>2, AskingTail, Zenon
  <2> QED
    BY <2>3, <2>6, <2>7, <2>8, NotAsking, Zenon DEF Orderly
<1> QED
  BY <1>1, <1>2, SendEffect, Zenon

\* The peer is still where it was heard to be.
LEMMA FollowedStays ==
  ASSUME Followed, inbuf' = inbuf, peer' = peer,
         \A p : Heard(p) => Heard(p)'
  PROVE  Followed'
  BY Zenon DEF Followed

\* The next frame is handled.
LEMMA FollowedTakes ==
  ASSUME IInv, Followed, inbuf # <<>>, inbuf' = Tail(inbuf), peer' = peer,
         \A p \in PeerStates : \A x :
           Heard(p) /\ MayFollow(p, Head(inbuf)) /\ x = PeerSends(p, Head(inbuf))
             => Heard(x)'
  PROVE  Followed'
<1>1. PICK tr : Replays(tr, inbuf, peer) /\ Heard(tr[1])
  BY Zenon DEF Followed
<1>2. inbuf \in Seq(Frames)
  BY BatchTypes, Zenon
<1>3. /\ MayFollow(tr[1], Head(inbuf)) /\ tr[1] \in PeerStates
      /\ Replays(Tail(tr), Tail(inbuf), peer)
      /\ Tail(tr)[1] = PeerSends(tr[1], Head(inbuf))
  BY <1>1, <1>2, ReplaysTail, Zenon
<1>4. Replays(Tail(tr), inbuf', peer') /\ Heard(Tail(tr)[1])'
  BY <1>1, <1>3, Zenon
<1> QED
  BY <1>4, Zenon DEF Followed

\* A frame that changes nothing of a request leaves the peer where it is.
LEMMA PassingSends ==
  ASSUME NEW p \in PeerStates, NEW f, Passing(f), p.tx # "preface"
  PROVE  /\ PeerSends(p, f).tx = p.tx /\ PeerSends(p, f).sid = p.sid
         /\ PeerSends(p, f).es = p.es
<1>1. PeerSends(p, f) = p \/ PeerSends(p, f) = [p EXCEPT !.acked = TRUE]
  BY DEF PeerSends, Passing
<1> QED
  BY <1>1 DEF PeerStates

\* What is known of the peer while frames are being received.
LEMMA HeardReceiving ==
  ASSUME NEW p, Heard(p), read_cb = "receiving"
  PROVE  /\ p.sid = stream_id /\ p.tx = PlaceOf(stream_id, flags)
         /\ p.tx = "block" => (p.es <=> "WAITING_END_STREAM" \notin flags)
         /\ p.tx # "preface"
<1>1. PlaceOf(stream_id, flags) # "preface"
  BY DEF PlaceOf
<1> QED
  BY <1>1, Zenon DEF Heard

\* The flags about a request say where the peer is.
LEMMA PlaceKeeps ==
  ASSUME flags' \cap RequestFlags = flags \cap RequestFlags
  PROVE  /\ \A id : PlaceOf(id, flags') = PlaceOf(id, flags)
         /\ "WAITING_END_STREAM" \in flags' <=> "WAITING_END_STREAM" \in flags
<1>1. /\ "WAITING_END_STREAM" \in flags' <=> "WAITING_END_STREAM" \in flags
      /\ "WAITING_END_HEADERS" \in flags' <=> "WAITING_END_HEADERS" \in flags
  BY DEF RequestFlags
<1> QED
  BY <1>1, Zenon DEF PlaceOf

\* A connection that is in use after a step of a handler was so before it.
LEMMA LiveBefore ==
  ASSUME IInv, Class, failed' = "none", Live'
  PROVE  failed = "none" /\ Live /\ ~Ends /\ ~OpensAndEnds(Head(inbuf))
<1>1. failed = "none"
  BY Zenon DEF Class, Between
<1>2. ASSUME state' \in {"CLOSING", "CLOSED"}, read_cb' \in {"none", "receiving"} PROVE FALSE
  BY <1>2 DEF Live
<1>3. ~Ends
  BY <1>2, Zenon DEF Ends
<1>4. ~OpensAndEnds(Head(inbuf))
  <2> SUFFICES ASSUME OpensAndEnds(Head(inbuf)) PROVE FALSE
    OBVIOUS
  <2>1. state' = "CLOSING" /\ read_cb' = "none"
    BY Zenon DEF OpensAndEnds
  <2> QED
    BY <1>2, <2>1
<1>5. CASE Calm
  <2>1. read_cb' = read_cb /\ (state' = state \/ state' = "CLOSING")
    BY <1>5, Zenon DEF Calm
  <2> QED
    BY <1>1, <1>3, <1>4, <2>1, SMTT(30) DEF Live
<1>6. CASE Greets \/ Starts \/ Readies
  <2>1. phase \in {"waiting_for_preface", "waiting_for_settings", "update_first"}
    BY <1>6 DEF Greets, Starts, Readies
  <2>2. read_cb \in {"waiting_for_preface", "waiting_for_settings"}
    BY <2>1 DEF IInv, Control
  <2> QED
    BY <1>1, <1>3, <1>4, <2>2, SMTT(30) DEF Live
<1>7. CASE \/ \E sid \in StreamIds : Resets(sid)
           \/ Enlarges(Head(inbuf)) \/ Opening(Head(inbuf)) \/ Further(Head(inbuf))
           \/ Trailers(Head(inbuf))
  <2>1. read_cb' = read_cb /\ state' = state
    BY <1>7, Zenon DEF Resets, Enlarges, Opening, Further, Trailers, Asks, ctxVars
  <2> QED
    BY <1>1, <1>3, <1>4, <2>1, SMTT(30) DEF Live
<1> QED
  BY <1>1, <1>3, <1>4, <1>5, <1>6, <1>7, Zenon DEF Class

\* A frame is handled by receiving, on a connection that is being read.
LEMMA TakesReceiving ==
  ASSUME Receiving, failed = "none", Live, Takes
  PROVE  read_cb = "receiving" /\ inbuf # <<>> /\ inbuf' = Tail(inbuf) /\ state = "READY"
  BY DEF Receiving, Live, Takes

\* A step that leaves the stream alone.
LEMMA CalmFollows ==
  ASSUME IInv, Receiving, Orderly, Followed, Unopened, failed = "none", Live,
         Calm, failed' = "none", Live'
  PROVE  Orderly' /\ Followed'
<1>1. /\ read_cb' = read_cb /\ stream_id' = stream_id /\ stream_state' = stream_state
      /\ buflen' = buflen /\ peer' = peer
      /\ \/ state' = state /\ flags' \cap RequestFlags = flags \cap RequestFlags
         \/ state' = "CLOSING" /\ flags' \subseteq flags
      /\ \/ inbuf' = inbuf /\ (phase' = "update_first" <=> phase = "update_first")
         \/ Takes /\ Passing(Head(inbuf)) /\ phase' # "update_first"
         \/ inbuf' = <<>> /\ read_cb = "none"
  BY Zenon DEF Calm
<1>2. resp' = resp /\ Pending(queue') = Pending(queue)
  BY SaysPending, Zenon DEF Calm
<1>3. read_cb # "none" /\ (read_cb = "receiving" => state' # "CLOSING")
  BY <1>1 DEF Live
<1>4. /\ \/ flags' \cap RequestFlags = flags \cap RequestFlags
         \/ flags' \subseteq flags /\ stream_id = 0
      /\ read_cb = "receiving" => flags' \cap RequestFlags = flags \cap RequestFlags
  <2>1. read_cb \in {"waiting_for_preface", "waiting_for_settings", "receiving"}
    BY <1>3 DEF IInv, SockTypes, ReadCallbacks
  <2> QED
    BY <1>1, <1>3, <2>1 DEF Unopened
<1>5. inbuf' = inbuf \/ (inbuf # <<>> /\ inbuf' = Tail(inbuf))
  BY <1>1, <1>3, Zenon DEF Takes
<1>6. Orderly'
  BY <1>1, <1>2, <1>4, <1>5, QuietOrderly, SMTT(30)
<1>7. CASE inbuf' = inbuf /\ (phase' = "update_first" <=> phase = "update_first")
  <2>1. \A p : Heard(p) => Heard(p)'
    BY <1>1, <1>4, <1>7, PlaceKeeps, Zenon DEF Heard
  <2> QED
    BY <1>1, <1>6, <1>7, <2>1, FollowedStays, Zenon
<1>8. CASE Takes /\ Passing(Head(inbuf))
  <2>1. read_cb = "receiving" /\ inbuf # <<>> /\ inbuf' = Tail(inbuf)
    BY <1>8, TakesReceiving, Zenon
  <2>2. ASSUME NEW p \in PeerStates, NEW x, Heard(p), x = PeerSends(p, Head(inbuf))
        PROVE  Heard(x)'
    <3>1. /\ p.sid = stream_id /\ p.tx = PlaceOf(stream_id, flags)
          /\ p.tx = "block" => (p.es <=> "WAITING_END_STREAM" \notin flags)
          /\ p.tx # "preface"
      BY <2>1, <2>2, HeardReceiving, Zenon
    <3>2. x.tx = p.tx /\ x.sid = p.sid /\ x.es = p.es
      BY <1>8, <2>2, <3>1, PassingSends, Zenon
    <3>3. flags' \cap RequestFlags = flags \cap RequestFlags
      BY <1>4, <2>1, Zenon
    <3>4. /\ PlaceOf(stream_id, flags') = PlaceOf(stream_id, flags)
          /\ "WAITING_END_STREAM" \in flags' <=> "WAITING_END_STREAM" \in flags
      BY <3>3, PlaceKeeps, Zenon
    <3> QED
      BY <1>1, <2>1, <3>1, <3>2, <3>4, SMTT(30) DEF Heard
  <2> QED
    BY <1>1, <1>6, <2>1, <2>2, FollowedTakes, Zenon
<1> QED
  BY <1>1, <1>3, <1>7, <1>8, Zenon

\* The preface and the first SETTINGS frame.
LEMMA GreetingFollows ==
  ASSUME IInv, Orderly, Followed, Unopened, failed = "none", failed' = "none",
         Greets \/ Starts \/ Readies
  PROVE  Orderly' /\ Followed'
<1>1. /\ UNCHANGED <<stream_id, stream_state, buflen, flags, peer>>
      /\ Says
      /\ phase \in {"waiting_for_preface", "waiting_for_settings", "update_first"}
  BY DEF Greets, Starts, Readies, streamVars, ctxVars
<1>2. resp' = resp /\ Pending(queue') = Pending(queue)
  BY <1>1, SaysPending, Zenon
<1>3. /\ phase # "update_first" => read_cb = phase /\ inbuf # <<>>
      /\ phase = "update_first" => read_cb = "waiting_for_settings"
      /\ stream_id = 0
  BY <1>1 DEF IInv, Control, Unopened
<1>4. inbuf' = inbuf \/ (inbuf # <<>> /\ inbuf' = Tail(inbuf))
  BY <1>3 DEF Greets, Starts, Readies
<1>5. Orderly'
  BY <1>1, <1>2, <1>4, QuietOrderly
<1>6. CASE Greets
  <2>1. /\ Head(inbuf).type = "PREFACE" /\ inbuf' = Tail(inbuf) /\ inbuf # <<>>
        /\ read_cb = "waiting_for_preface" /\ read_cb' = "waiting_for_settings"
        /\ phase' # "update_first"
    BY <1>3, <1>6, SMTT(30) DEF Greets
  <2>2. ASSUME NEW p \in PeerStates, NEW x, Heard(p), x = PeerSends(p, Head(inbuf))
        PROVE  Heard(x)'
    <3>1. x = [p EXCEPT !.tx = "preface"]
      BY <2>1, <2>2 DEF PeerSends
    <3>2. x.tx = "preface" /\ x.sid = p.sid
      BY <3>1 DEF PeerStates
    <3> QED
      BY <1>1, <2>1, <2>2, <3>2, SMTT(30) DEF Heard
  <2> QED
    BY <1>1, <1>5, <2>1, <2>2, FollowedTakes, Zenon
<1>7. CASE Starts
  <2>1. /\ Head(inbuf).type = "SETTINGS" /\ Head(inbuf).flags = {}
        /\ inbuf' = Tail(inbuf) /\ inbuf # <<>>
        /\ read_cb = "waiting_for_settings" /\ read_cb' = "waiting_for_settings"
        /\ phase # "update_first" /\ phase' = "update_first"
    BY <1>3, <1>7, SMTT(30) DEF Starts, sockVars
  <2>2. ASSUME NEW p \in PeerStates, NEW x, Heard(p), x = PeerSends(p, Head(inbuf))
        PROVE  Heard(x)'
    <3>1. p.tx = "preface"
      BY <2>1, <2>2 DEF Heard
    <3>2. x = [p EXCEPT !.tx = "idle"]
      BY <2>1, <2>2, <3>1, SMTT(30) DEF PeerSends
    <3>3. x.tx = "idle" /\ x.sid = p.sid
      BY <3>2 DEF PeerStates
    <3>4. x.sid = stream_id' /\ read_cb' = "waiting_for_settings" /\ phase' = "update_first"
      BY <1>1, <2>1, <2>2, <3>3, Zenon DEF Heard
    <3> QED
      BY <3>3, <3>4, Zenon DEF Heard
  <2> QED
    BY <1>1, <1>5, <2>1, <2>2, FollowedTakes, Zenon
<1>8. CASE Readies
  <2>1. /\ inbuf' = inbuf /\ phase = "update_first" /\ read_cb = "waiting_for_settings"
        /\ read_cb' = "receiving"
    BY <1>3, <1>8, SMTT(30) DEF Readies
  <2>2. ASSUME NEW p, Heard(p) PROVE Heard(p)'
    <3>1. p.tx = "idle" /\ p.sid = stream_id
      BY <2>1, <2>2 DEF Heard
    <3>2. PlaceOf(stream_id', flags') = "idle"
      BY <1>1, <1>3 DEF PlaceOf
    <3> QED
      BY <1>1, <2>1, <3>1, <3>2, SMTT(30) DEF Heard
  <2> QED
    BY <1>1, <1>5, <2>1, <2>2, FollowedStays, Zenon
<1> QED
  BY <1>6, <1>7, <1>8, SMTT(30)

\* A stream that is reset has been reset.
LEMMA ResetsDone ==
  ASSUME IInv, AnswersInOrder, failed' = "none", lost' = {}, NEW sid \in StreamIds, Resets(sid)
  PROVE  resp'[sid] = "reset"
<1>1. resp[sid] # "broken" /\ resp \in [StreamIds -> Answers]
  BY QueueType, Zenon DEF AnswersInOrder
<1>2. CASE event_write(queue, 0, Frame("RST_STREAM", sid, FALSE, 0), "close_on_write_error")
  <2> DEFINE fr == Frame("RST_STREAM", sid, FALSE, 0)
  <2>1. fr.kind = "RST_STREAM" /\ fr.sid = sid
    BY DEF Frame
  <2>2. "RST_STREAM" \in SentKinds /\ sid \in StreamIds \cup {0} /\ FALSE \in BOOLEAN
        /\ 0 \in Nat
    BY DEF SentKinds
  <2>3. fr \in SentFrames
    BY <2>2, FrameType, Zenon
  <2>4. event_write(queue, 0, fr, "close_on_write_error")
    BY <1>2, Zenon
  <2> HIDE DEF fr
  <2>5. Sent(queue, fr, "close_on_write_error")
    BY <2>3, <2>4, WriteEffect, Zenon
  <2>6. resp'[sid] = Follow(resp[sid], fr)
    BY <2>1, <2>3, <2>5, SentKeeps, Zenon
  <2> QED
    BY <1>1, <2>1, <2>6, SMTT(30) DEF Follow
<1>3. CASE resp' = [resp EXCEPT ![sid] = IF @ = "broken" THEN @ ELSE "reset"]
  BY <1>1, <1>3
<1> QED
  BY <1>2, <1>3, Zenon DEF Resets

\* The stream in hand, and the frame at the head of the batch.
LEMMA HeadFollows ==
  ASSUME IInv, Followed, read_cb = "receiving", inbuf # <<>>
  PROVE  \E p \in PeerStates :
           /\ MayFollow(p, Head(inbuf))
           /\ p.sid = stream_id /\ p.tx = PlaceOf(stream_id, flags)
           /\ p.tx = "block" => (p.es <=> "WAITING_END_STREAM" \notin flags)
<1>1. PICK tr : Replays(tr, inbuf, peer) /\ Heard(tr[1])
  BY Zenon DEF Followed
<1>2. inbuf \in Seq(Frames)
  BY BatchTypes, Zenon
<1>3. MayFollow(tr[1], Head(inbuf)) /\ tr[1] \in PeerStates
  BY <1>1, <1>2, ReplaysTail, Zenon
<1>4. /\ tr[1].sid = stream_id /\ tr[1].tx = PlaceOf(stream_id, flags)
      /\ tr[1].tx = "block" => (tr[1].es <=> "WAITING_END_STREAM" \notin flags)
  BY <1>1, HeardReceiving, Zenon
<1> QED
  BY <1>3, <1>4, Zenon

\* The peer enlarges the window of the stream in hand, whose request is whole.
LEMMA EnlargesFollows ==
  ASSUME IInv, Receiving, OInv, Orderly, Followed, Later, Unopened, failed = "none", Live,
         stream_id # 0 => Progress, Enlarges(Head(inbuf)), failed' = "none", lost' = {}
  PROVE  Orderly' /\ Followed'
<1> DEFINE f == Head(inbuf)
<1>1. /\ Takes /\ phase' # "update_first"
      /\ f.type = "WINDOW_UPDATE" /\ f.sid # 0 /\ f.sid <= stream_id
      /\ f.sid = stream_id => stream_state # "CLOSED"
      /\ http2_continue_send(queue, 0, stream_window + f.arg)
      /\ UNCHANGED <<state, flags, read_cb, stream_id, stream_state, peer>>
  BY Zenon DEF Enlarges
<1>2. read_cb = "receiving" /\ inbuf # <<>> /\ inbuf' = Tail(inbuf)
  BY <1>1, TakesReceiving, Zenon
<1>3. f.sid = stream_id /\ stream_id # 0 /\ stream_id \in StreamIds
  <2>1. InOrder(inbuf, stream_id, peer.sid)
    BY Zenon DEF OInv
  <2>2. Names(f)
    BY <1>1 DEF Names
  <2>3. stream_id <= f.sid
    BY <1>2, <2>1, <2>2, BatchTypes, OrderTail, Zenon
  <2>4. f.sid \in Nat /\ stream_id \in Nat /\ stream_id \in StreamIds \cup {0}
    BY <1>2, Identifiers
  <2> QED
    BY <1>1, <2>3, <2>4
<1>4. stream_state # "CLOSED" /\ Progress
  BY <1>1, <1>3, SMTT(30)
<1>5. ~Waiting(flags)
  <2>1. PICK p \in PeerStates : MayFollow(p, f) /\ p.tx = PlaceOf(stream_id, flags)
    BY <1>2, HeadFollows, Zenon
  <2>2. p.tx = "done"
    BY <1>1, <2>1 DEF MayFollow
  <2> QED
    BY <1>3, <2>1, <2>2 DEF PlaceOf, Waiting
<1>6. Answered
  BY <1>4, <1>5, SMTT(30) DEF Progress, Asked
<1>7. Orderly'
  <2>1. buflen > 0 => /\ ~Waiting(flags) /\ resp[stream_id] = "headers"
                      /\ stream_state # "CLOSED"
    BY <1>4, <1>5, <1>6, StreamWindow, SMTT(30) DEF Answered
  <2>2. stream_window + f.arg \in Int
    BY <1>2, Identifiers, StreamWindow, SMTT(30)
  <2>3. queue \in Seq(Op) /\ Pending(queue) \subseteq Pending(queue)
    BY QueueType
  <2> QED
    BY <1>1, <1>2, <1>3, <2>1, <2>2, <2>3, SendOrderly, SMTT(30)
<1>8. Followed'
  <2>1. ASSUME NEW p \in PeerStates, NEW x, Heard(p), x = PeerSends(p, f) PROVE Heard(x)'
    <3>1. x = p
      BY <1>1, <2>1, SMTT(30) DEF PeerSends
    <3> QED
      BY <1>1, <1>2, <2>1, <3>1, Zenon DEF Heard
  <2> QED
    BY <1>1, <1>2, <2>1, FollowedTakes, Zenon
<1> QED
  BY <1>7, <1>8

\* The flags after a part of a request are those of where the peer is then.
LEMMA AskHeard ==
  ASSUME NEW p \in PeerStates, NEW f, NEW fl, NEW x, x = PeerSends(p, f),
         flags' = fl \ Completed(f), stream_id' # 0, read_cb' = "receiving",
         \/ /\ f.type = "HEADERS" /\ f.sid = stream_id'
            /\ {"WAITING_END_HEADERS", "WAITING_END_STREAM"} \subseteq fl
         \/ /\ f.type = "CONTINUATION" /\ "END_STREAM" \notin f.flags
            /\ "WAITING_END_HEADERS" \in fl
            /\ p.sid = stream_id' /\ (p.es <=> "WAITING_END_STREAM" \notin fl)
         \/ /\ f.type = "DATA" /\ p.tx = "body" /\ p.sid = stream_id'
            /\ "WAITING_END_HEADERS" \notin fl /\ "WAITING_END_STREAM" \in fl
  PROVE  Heard(x)'
<1> DEFINE eh == "END_HEADERS" \in f.flags
           es == "END_STREAM" \in f.flags
<1>1. CASE f.type = "HEADERS"
  <2>1. /\ f.sid = stream_id'
        /\ {"WAITING_END_HEADERS", "WAITING_END_STREAM"} \subseteq fl
    BY <1>1, SMTT(30)
  <2>2. /\ "WAITING_END_HEADERS" \in flags' <=> ~eh
        /\ "WAITING_END_STREAM" \in flags' <=> ~es
    BY <1>1, <2>1 DEF Completed
  <2>3. x.tx = AfterBlock(f, es) /\ x.sid = f.sid /\ x.es = es
    <3>1. x = [p EXCEPT !.tx = AfterBlock(f, es), !.sid = f.sid, !.es = es]
      BY <1>1, SMTT(30) DEF PeerSends
    <3> QED
      BY <3>1 DEF PeerStates
  <2>4. x.tx = PlaceOf(stream_id', flags')
    BY <2>2, <2>3, SMTT(30) DEF AfterBlock, PlaceOf
  <2>5. x.tx = "block" => (x.es <=> "WAITING_END_STREAM" \notin flags')
    BY <2>2, <2>3, Zenon
  <2>6. x.sid = stream_id'
    BY <2>1, <2>3, Zenon
  <2> QED
    BY <2>4, <2>5, <2>6, Zenon DEF Heard
<1>2. CASE f.type = "CONTINUATION"
  <2>1. /\ "END_STREAM" \notin f.flags /\ "WAITING_END_HEADERS" \in fl
        /\ p.sid = stream_id' /\ (p.es <=> "WAITING_END_STREAM" \notin fl)
    BY <1>2, SMTT(30)
  <2>2. /\ "WAITING_END_HEADERS" \in flags' <=> ~eh
        /\ "WAITING_END_STREAM" \in flags' <=> ~p.es
    BY <1>2, <2>1 DEF Completed
  <2>3. x.tx = AfterBlock(f, p.es) /\ x.sid = p.sid /\ x.es = p.es
    <3>1. x = [p EXCEPT !.tx = AfterBlock(f, p.es)]
      BY <1>2, SMTT(30) DEF PeerSends
    <3> QED
      BY <3>1 DEF PeerStates
  <2>4. x.tx = PlaceOf(stream_id', flags')
    BY <2>2, <2>3, Zenon DEF AfterBlock, PlaceOf
  <2>5. x.tx = "block" => (x.es <=> "WAITING_END_STREAM" \notin flags')
    BY <2>2, <2>3, Zenon
  <2> QED
    BY <2>1, <2>3, <2>4, <2>5 DEF Heard
<1>3. CASE f.type = "DATA"
  <2>1. /\ p.tx = "body" /\ p.sid = stream_id'
        /\ "WAITING_END_HEADERS" \notin fl /\ "WAITING_END_STREAM" \in fl
    BY <1>3, SMTT(30)
  <2>2. /\ "WAITING_END_HEADERS" \notin flags'
        /\ "WAITING_END_STREAM" \in flags' <=> ~es
    BY <1>3, <2>1, SMTT(30) DEF Completed
  <2>3. x.tx = (IF es THEN "done" ELSE "body") /\ x.sid = p.sid
    <3>1. x = IF es THEN [p EXCEPT !.tx = "done"] ELSE p
      BY <1>3, SMTT(30) DEF PeerSends
    <3> QED
      BY <2>1, <3>1 DEF PeerStates
  <2>4. x.tx = PlaceOf(stream_id', flags')
    BY <2>2, <2>3, Zenon DEF PlaceOf
  <2>5. x.tx # "block"
    BY <2>3
  <2> QED
    BY <2>1, <2>3, <2>4, <2>5, SMTT(30) DEF Heard
<1> QED
  BY <1>1, <1>2, <1>3, Zenon

\* A request begins or goes on; it is answered when it is whole.
LEMMA RequestFollows ==
  ASSUME IInv, Receiving, Orderly, Followed, Later, Unopened, failed = "none", Live,
         Opening(Head(inbuf)) \/ Further(Head(inbuf)), failed' = "none", lost' = {}
  PROVE  Orderly' /\ Followed'
<1> DEFINE f == Head(inbuf)
<1>1. Takes /\ read_cb' = read_cb /\ peer' = peer /\ phase' # "update_first"
  BY Zenon DEF Opening, Further, Asks
<1>2. read_cb = "receiving" /\ inbuf # <<>> /\ inbuf' = Tail(inbuf)
  BY <1>1, TakesReceiving, Zenon
<1>3. /\ inbuf \in Seq(Frames) /\ AskingOnce(inbuf) /\ Newer(inbuf, stream_id)
      /\ AnswersInOrder /\ "WAITING_TRAILERS" \notin flags
  BY BatchTypes, Zenon DEF Orderly
<1>4. CASE Opening(f)
  <2> DEFINE fl == flags \cup {"WAITING_END_HEADERS", "WAITING_END_STREAM"}
  <2>1. /\ f.sid > stream_id /\ f.type = "HEADERS" /\ stream_id' = f.sid
        /\ Asks(f, fl, "OPEN", stream_id')
    BY <1>4, Zenon DEF Opening, OpenStream
  <2>2. stream_id' \in StreamIds /\ stream_id' # 0
    <3>1. /\ stream_id \in Nat /\ f.sid \in Nat /\ f.sid \in StreamIds \cup {0}
      BY <1>2, Identifiers, SMTT(30)
    <3>2. f.sid # 0
      BY <2>1, <3>1
    <3> QED
      BY <2>1, <3>1, <3>2, SMTT(30)
  <2>3. resp[stream_id'] = "none"
    BY <2>1, <2>2, Zenon DEF Later
  <2>4. Pending(queue) = {} /\ ~Asking(inbuf')
    <3>1. Asking(inbuf) /\ ~Asking(Tail(inbuf))
      BY <1>2, <1>3, <2>1, AskingTail, Zenon
    <3> QED
      BY <1>2, <3>1, Zenon DEF Orderly
  <2>5. /\ "WAITING_TRAILERS" \notin fl /\ "OPEN" # "CLOSED"
        /\ {"WAITING_END_HEADERS", "WAITING_END_STREAM"} \subseteq fl
    BY <1>3, SMTT(30)
  <2> HIDE DEF fl
  <2>6. Orderly'
    BY <1>3, <2>1, <2>2, <2>3, <2>4, <2>5, AskOrderly, SMTT(30)
  <2>7. flags' = fl \ Completed(f)
    BY <2>1, Zenon DEF Asks
  <2>8. ASSUME NEW p \in PeerStates, NEW x, x = PeerSends(p, f) PROVE Heard(x)'
    <3>1. /\ read_cb' = "receiving" /\ f.type = "HEADERS" /\ f.sid = stream_id'
          /\ {"WAITING_END_HEADERS", "WAITING_END_STREAM"} \subseteq fl
      BY <1>1, <1>2, <2>1, <2>5, Zenon
    <3> QED
      BY <2>2, <2>7, <2>8, <3>1, AskHeard, Zenon
  <2> QED
    BY <1>1, <1>2, <2>6, <2>8, FollowedTakes, Zenon
<1>5. CASE Further(f)
  <2>1. /\ stream_id' = stream_id /\ stream_state # "CLOSED"
        /\ Asks(f, flags, stream_state, stream_id')
        /\ \/ f.type = "CONTINUATION" /\ "WAITING_END_HEADERS" \in flags
           \/ f.type = "DATA" /\ "WAITING_END_HEADERS" \notin flags
    BY <1>5, Zenon DEF Further
  <2>2. stream_id' \in StreamIds /\ stream_id # 0
    BY <2>1, Identifiers, SMTT(30) DEF Unopened
  <2>3. Waiting(flags)
    <3>1. PICK p \in PeerStates : MayFollow(p, f) /\ p.tx = PlaceOf(stream_id, flags)
      BY <1>2, HeadFollows, Zenon
    <3>2. f.type = "DATA" => p.tx = "body"
      BY <3>1 DEF MayFollow
    <3> QED
      BY <2>1, <2>2, <3>1, <3>2, SMTT(30) DEF PlaceOf, Waiting
  <2>4. Pending(queue) = {} /\ resp[stream_id'] = "none" /\ resp[stream_id] # "ended"
    <3>1. Pending(queue) = {} /\ resp[stream_id] = "none"
      BY <2>2, <2>3, Zenon DEF Orderly
    <3> QED
      BY <2>1, <3>1
  <2>5. ~Asking(inbuf')
    <3>1. ~Asking(inbuf)
      BY <2>2, <2>4, Zenon DEF Orderly
    <3> QED
      BY <1>2, <1>3, <3>1, AskingTail, Zenon
  <2>6. Orderly'
    BY <1>3, <2>1, <2>2, <2>4, <2>5, AskOrderly, SMTT(30)
  <2>7. flags' = flags \ Completed(f)
    BY <2>1, Zenon DEF Asks
  <2>8. ASSUME NEW p \in PeerStates, NEW x, Heard(p), MayFollow(p, f), x = PeerSends(p, f)
        PROVE  Heard(x)'
    <3>1. /\ p.sid = stream_id /\ p.tx = PlaceOf(stream_id, flags)
          /\ p.tx = "block" => (p.es <=> "WAITING_END_STREAM" \notin flags)
      BY <1>2, <2>8, HeardReceiving, Zenon
    <3>2. CASE f.type = "CONTINUATION"
      <4>1. p.tx = "block" /\ "END_STREAM" \notin f.flags
        BY <2>8, <3>2, SMTT(30) DEF MayFollow
      <4>2. p.es <=> "WAITING_END_STREAM" \notin flags
        BY <3>1, <4>1, SMTT(30)
      <4>3. "WAITING_END_HEADERS" \in flags
        BY <2>1, <3>2, Zenon
      <4> QED
        BY <1>1, <1>2, <2>1, <2>2, <2>7, <2>8, <3>1, <3>2, <4>1, <4>2, <4>3, AskHeard, Zenon
    <3>3. CASE f.type = "DATA"
      <4>1. p.tx = "body"
        BY <2>8, <3>3, SMTT(30) DEF MayFollow
      <4>2. "WAITING_END_HEADERS" \notin flags /\ "WAITING_END_STREAM" \in flags
        BY <2>1, <2>2, <3>1, <3>3, <4>1, SMTT(30) DEF PlaceOf
      <4> QED
        BY <1>1, <1>2, <2>1, <2>2, <2>7, <2>8, <3>1, <3>3, <4>1, <4>2, AskHeard, ZenonT(30)
    <3> QED
      BY <2>1, <3>2, <3>3, SMTT(30)
  <2> QED
    BY <1>1, <1>2, <2>6, <2>8, FollowedTakes, Zenon
<1> QED
  BY <1>4, <1>5

\* Every handler keeps the invariant.
LEMMA ClassJInv ==
  ASSUME IInv, Receiving, KInv, OInv, JInv, lost = {}, lost' = {}, NoReset', Class
  PROVE  JInv'
<1> SUFFICES ASSUME failed' = "none", Live' PROVE Orderly' /\ Followed' /\ Opened'
  BY Zenon DEF JInv
<1>1. failed = "none" /\ Live /\ ~Ends /\ ~OpensAndEnds(Head(inbuf))
  BY LiveBefore, Zenon
<1>2. /\ Orderly /\ Followed /\ Opened /\ Later /\ Unopened
      /\ stream_id # 0 => Progress
  BY <1>1, InHand, Zenon
<1>3. Opened'
  BY <1>2, ClassMoves, Zenon DEF Opened
<1>4. CASE Calm
  BY <1>1, <1>2, <1>3, <1>4, CalmFollows, Zenon
<1>5. CASE Greets \/ Starts \/ Readies
  BY <1>1, <1>2, <1>3, <1>5, GreetingFollows, Zenon
<1>6. ASSUME NEW sid \in StreamIds, Resets(sid) PROVE FALSE
  <2>1. AnswersInOrder
    BY <1>2, Zenon DEF Orderly
  <2>2. resp'[sid] = "reset"
    BY <1>6, <2>1, ResetsDone, Zenon
  <2> QED
    BY <2>2, Zenon DEF NoReset
<1>7. CASE Enlarges(Head(inbuf))
  BY <1>1, <1>2, <1>3, <1>7, EnlargesFollows, Zenon
<1>8. CASE Opening(Head(inbuf)) \/ Further(Head(inbuf))
  BY <1>1, <1>2, <1>3, <1>8, RequestFollows, Zenon
<1>9. ASSUME Trailers(Head(inbuf)) PROVE FALSE
  <2>1. Takes /\ Head(inbuf).type = "HEADERS" /\ Head(inbuf).sid = stream_id
    BY <1>9, Zenon DEF Trailers, Asks
  <2>2. inbuf # <<>> /\ inbuf \in Seq(Frames) /\ Newer(inbuf, stream_id)
    BY <1>2, <2>1, BatchTypes, Zenon DEF Takes, Orderly
  <2>3. Head(inbuf).sid > stream_id
    BY <2>1, <2>2, NewerTail, Zenon
  <2> QED
    BY <2>1, <2>3, Identifiers
<1> QED
  BY <1>1, <1>4, <1>5, <1>6, <1>7, <1>8, <1>9, Zenon DEF Class

\* A step of the loop that handles no frame and sends none.
LEMMA StillJInv ==
  ASSUME IInv, JInv, failed = "none",
         UNCHANGED <<state, stream_id, stream_state, buflen, read_cb, inbuf, resp, peer>>,
         flags' \cap RequestFlags = flags \cap RequestFlags,
         Pending(queue') \subseteq Pending(queue),
         phase' = "update_first" <=> phase = "update_first"
  PROVE  JInv'
<1> SUFFICES ASSUME failed' = "none", Live' PROVE Orderly' /\ Followed' /\ Opened'
  BY Zenon DEF JInv
<1>1. Orderly /\ Followed /\ Opened
  BY Zenon DEF JInv, Live
<1>2. Orderly'
  BY <1>1, QuietOrderly
<1>3. \A p : Heard(p) => Heard(p)'
  BY PlaceKeeps, Zenon DEF Heard
<1>4. Followed'
  BY <1>1, <1>3, FollowedStays, Zenon
<1> QED
  BY <1>1, <1>2, <1>4, Zenon DEF Opened

\* What a peer without habits sends may follow what it has sent.
LEMMA PeerFollows ==
  ASSUME IInv, Habits = {}, NoReset, NEW f \in Frames, PeerMaySend(f)
  PROVE  /\ MayFollow(peer, f)
         /\ f.type = "HEADERS" => PeerFree /\ f.sid > peer.sid
         /\ f.type # "RST_STREAM"
<1>1. CASE f.type = "HEADERS"
  <2>1. PeerFree /\ f.sid > peer.sid
    BY <1>1, SMTT(30) DEF PeerMaySend
  <2>2. peer.tx \in {"idle", "done"}
    <3>1. peer.sid # 0 => resp[peer.sid] # "reset"
      <4>1. peer.sid \in StreamIds \cup {0}
        BY DEF IInv, PeerTypes, PeerStates
      <4> QED
        BY <4>1, SMTT(30) DEF NoReset
    <3> QED
      BY <2>1, <3>1, SMTT(30) DEF PeerFree
  <2> QED
    BY <1>1, <2>1, <2>2, SMTT(30) DEF MayFollow
<1>2. CASE f.type \in {"CONTINUATION", "DATA", "PREFACE", "SETTINGS", "RST_STREAM"}
  BY <1>2 DEF PeerMaySend, MayFollow
<1>3. CASE f.type = "WINDOW_UPDATE"
  BY <1>3 DEF PeerMaySend, MayFollow
<1>4. CASE f.type \notin {"HEADERS", "CONTINUATION", "DATA", "PREFACE", "SETTINGS",
                          "RST_STREAM", "WINDOW_UPDATE"}
  BY <1>4, SMTT(30) DEF MayFollow
<1> QED
  BY <1>1, <1>2, <1>3, <1>4, SMTT(30)

\* The peer has opened a stream once it has sent HEADERS, and not before.
LEMMA OpenedSends ==
  ASSUME NEW p \in PeerStates, NEW f, MayFollow(p, f), f.type # "RST_STREAM",
         p.sid = 0 <=> p.tx \in {"start", "preface", "idle"},
         f.type = "HEADERS" => f.sid # 0
  PROVE  PeerSends(p, f).sid = 0 <=> PeerSends(p, f).tx \in {"start", "preface", "idle"}
<1>1. CASE f.type = "HEADERS"
  <2>1. PeerSends(p, f).sid = f.sid
        /\ PeerSends(p, f).tx = AfterBlock(f, "END_STREAM" \in f.flags)
    BY <1>1, Zenon DEF PeerSends, PeerStates
  <2> QED
    BY <1>1, <2>1 DEF AfterBlock
<1>2. CASE f.type = "CONTINUATION"
  <2>1. PeerSends(p, f).sid = p.sid /\ PeerSends(p, f).tx = AfterBlock(f, p.es)
    BY <1>2 DEF PeerSends, PeerStates
  <2>2. p.tx = "block"
    BY <1>2 DEF MayFollow
  <2> QED
    BY <2>1, <2>2 DEF AfterBlock
<1>3. CASE f.type = "DATA"
  <2>1. PeerSends(p, f).sid = p.sid /\ PeerSends(p, f).tx \in {"done", p.tx}
    BY <1>3 DEF PeerSends, PeerStates
  <2>2. p.tx = "body"
    BY <1>3 DEF MayFollow
  <2> QED
    BY <2>1, <2>2
<1>4. CASE f.type = "PREFACE"
  <2>1. PeerSends(p, f).sid = p.sid /\ PeerSends(p, f).tx = "preface"
    BY <1>4 DEF PeerSends, PeerStates
  <2>2. p.tx = "start"
    BY <1>4, SMTT(30) DEF MayFollow
  <2> QED
    BY <2>1, <2>2, SMTT(30)
<1>5. CASE f.type \notin {"HEADERS", "CONTINUATION", "DATA", "PREFACE"}
  <2>1. \/ PeerSends(p, f) = p
        \/ PeerSends(p, f) = [p EXCEPT !.acked = TRUE]
        \/ p.tx = "preface" /\ PeerSends(p, f) = [p EXCEPT !.tx = "idle"]
    BY <1>5 DEF PeerSends
  <2>2. /\ PeerSends(p, f).sid = p.sid
        /\ \/ PeerSends(p, f).tx = p.tx
           \/ p.tx = "preface" /\ PeerSends(p, f).tx = "idle"
    BY <2>1 DEF PeerStates
  <2> QED
    BY <2>2
<1> QED
  BY <1>1, <1>2, <1>3, <1>4, <1>5, SMTT(30)

\* A peer that may open a stream has been answered, and has asked for no other.
LEMMA FreeAnswered ==
  ASSUME IInv, OInv, Orderly, Opened, Later, NoReset, failed = "none", PeerFree
  PROVE  /\ ~Asking(inbuf) /\ Pending(queue) = {}
         /\ stream_id = 0 \/ resp[stream_id] = "ended"
<1>1. /\ InOrder(inbuf, stream_id, peer.sid)
      /\ inbuf \in Seq(Frames) /\ stream_id \in Nat /\ peer.sid \in Nat
      /\ Newer(inbuf, stream_id) /\ Pending(queue) \subseteq {stream_id} \ {0}
  BY BatchTypes, Zenon DEF OInv, Orderly
<1>2. stream_id <= peer.sid /\ peer.sid \in StreamIds \cup {0}
  <2>1. peer.sid \in StreamIds \cup {0}
    BY DEF IInv, PeerTypes, PeerStates
  <2> QED
    BY <1>1, <2>1, Zenon DEF InOrder
<1>3. /\ stream_id = peer.sid
      /\ stream_id = 0 \/ resp[stream_id] = "ended"
      /\ stream_id # 0 => \A i \in 1 .. Len(queue) : queue[i].sid # stream_id
  <2>1. CASE peer.tx = "idle"
    <3>1. peer.sid = 0
      BY <2>1, SMTT(30) DEF Opened
    <3> QED
      BY <1>1, <1>2, <3>1, SMTT(30)
  <2>2. CASE /\ peer.sid # 0 /\ resp[peer.sid] = "ended"
             /\ \A i \in 1 .. Len(queue) : queue[i].sid # peer.sid
    <3>1. ~(peer.sid > stream_id)
      <4>1. resp[peer.sid] # "none" /\ peer.sid \in StreamIds
        BY <1>2, <2>2
      <4> QED
        BY <4>1, Zenon DEF Later
    <3>2. stream_id = peer.sid
      BY <1>1, <1>2, <3>1, SMTT(30)
    <3> QED
      BY <2>2, <3>2
  <2>3. CASE peer.sid # 0 /\ resp[peer.sid] = "reset"
    BY <1>2, <2>3, SMTT(30) DEF NoReset
  <2> QED
    BY <2>1, <2>2, <2>3, Zenon DEF PeerFree
<1>4. ~Asking(inbuf)
  <2> SUFFICES ASSUME NEW i \in 1 .. Len(inbuf), inbuf[i].type = "HEADERS" PROVE FALSE
    BY Zenon DEF Asking
  <2>1. inbuf[i].sid > stream_id /\ inbuf[i].sid \in Nat
    BY <1>1, FrameIds, Zenon DEF Newer
  <2>2. Names(inbuf[i])
    BY <1>1, <2>1 DEF Names
  <2>3. inbuf[i].sid <= peer.sid
    BY <1>1, <2>2, Zenon DEF InOrder
  <2> QED
    BY <1>1, <1>3, <2>1, <2>3, SMTT(30)
<1>5. Pending(queue) = {}
  <2>1. stream_id \notin Pending(queue) \/ stream_id = 0
    BY <1>3, Zenon DEF Pending
  <2> QED
    BY <1>1, <2>1
<1> QED
  BY <1>3, <1>4, <1>5

\* The peer sends a frame that may follow those it has sent.
LEMMA ReadJInv ==
  ASSUME IInv, Conforming, Habits = {}, KInv, OInv, JInv, lost = {}, NoReset,
         NEW f \in Frames, event_sock_read(f)
  PROVE  JInv'
<1> SUFFICES ASSUME failed' = "none", Live' PROVE Orderly' /\ Followed' /\ Opened'
  BY Zenon DEF JInv
<1>1. /\ failed = "none" /\ PeerMaySend(f)
      /\ inbuf' = Append(inbuf, f) /\ peer' = PeerSends(peer, f)
      /\ phase # "update_first" /\ phase' # "update_first"
  BY DEF event_sock_read, At
<1>2. /\ UNCHANGED <<state, flags, stream_id, stream_state, buflen, read_cb>>
      /\ UNCHANGED <<queue, resp>>
  BY Zenon DEF event_sock_read, ctxVars, streamVars, sockVars, writeVars
<1>3. Live
  BY <1>2, Zenon DEF Live
<1>4. Orderly /\ Followed /\ Opened /\ Later
  BY <1>1, <1>3, InHand, Zenon
<1>5. /\ MayFollow(peer, f) /\ f.type # "RST_STREAM"
      /\ f.type = "HEADERS" => PeerFree /\ f.sid > peer.sid
  BY <1>1, PeerFollows, Zenon
<1>6. /\ inbuf \in Seq(Frames) /\ stream_id \in Nat /\ peer.sid \in Nat /\ f.sid \in Nat
      /\ peer \in PeerStates /\ stream_id <= peer.sid
  <2>1. f \in RecvFrames
    BY PeerAssumption, Zenon
  <2>2. f.sid \in StreamIds \cup {0}
    BY <2>1 DEF RecvFrames
  <2>3. peer \in PeerStates
    BY DEF IInv, PeerTypes
  <2>4. stream_id <= peer.sid
    BY <1>1, Zenon DEF OInv, InOrder
  <2> QED
    BY <2>2, <2>3, <2>4, IdNat, BatchTypes, Zenon
<1>7. f.type = "HEADERS" => f.sid > stream_id /\ f.sid # 0
  BY <1>5, <1>6
<1>8. f.type = "HEADERS" => /\ ~Asking(inbuf) /\ Pending(queue) = {}
                            /\ stream_id = 0 \/ resp[stream_id] = "ended"
  BY <1>1, <1>4, <1>5, FreeAnswered, Zenon
<1>9. Orderly'
  <2>1. /\ AskingOnce(inbuf) /\ Newer(inbuf, stream_id)
        /\ Asking(inbuf) => /\ Pending(queue) = {}
                            /\ stream_id = 0 \/ resp[stream_id] = "ended"
    BY <1>4, Zenon DEF Orderly
  <2>2. /\ AskingOnce(inbuf')
        /\ Asking(inbuf') => Asking(inbuf) \/ f.type = "HEADERS"
    BY <1>1, <1>6, <1>8, <2>1, AskingAppend, Zenon
  <2>3. Newer(inbuf', stream_id)
    BY <1>1, <1>6, <1>7, <2>1, NewerAppend, Zenon
  <2>4. Asking(inbuf') => /\ Pending(queue) = {}
                          /\ stream_id = 0 \/ resp[stream_id] = "ended"
    BY <1>8, <2>1, <2>2, Zenon
  <2>5. AnswersInOrder'
    BY <1>2, <1>4, Zenon DEF Orderly, AnswersInOrder
  <2> QED
    BY <1>2, <1>4, <2>2, <2>3, <2>4, <2>5, Zenon DEF Orderly
<1>10. Followed'
  <2>1. PICK tr : Replays(tr, inbuf, peer) /\ Heard(tr[1])
    BY <1>4, Zenon DEF Followed
  <2>2. PICK new : Replays(new, inbuf', peer') /\ new[1] = tr[1]
    <3>1. \E new : Replays(new, Append(inbuf, f), PeerSends(peer, f)) /\ new[1] = tr[1]
      BY <1>5, <1>6, <2>1, ReplaysAppend, SMTT(30)
    <3> QED
      BY <1>1, <3>1, Zenon
  <2>3. ASSUME NEW p, Heard(p) PROVE Heard(p)'
    BY <1>1, <1>2, <2>3, Zenon DEF Heard
  <2>4. Heard(new[1])'
    BY <2>1, <2>2, <2>3, Zenon
  <2> QED
    BY <2>2, <2>4, Zenon DEF Followed
<1>11. Opened'
  <2>1. peer.sid = 0 <=> peer.tx \in {"start", "preface", "idle"}
    BY <1>4, Zenon DEF Opened
  <2>2. PeerSends(peer, f).sid = 0
          <=> PeerSends(peer, f).tx \in {"start", "preface", "idle"}
    BY <1>5, <1>6, <1>7, <2>1, OpenedSends, Zenon
  <2> QED
    BY <1>1, <2>2, Zenon DEF Opened
<1> QED
  BY <1>9, <1>10, <1>11

\* The callback of a write goes on with the answer of the stream in hand.
LEMMA NotifyJInv ==
  ASSUME IInv, KInv, JInv, lost = {}, lost' = {}, event_sock_handle_write
  PROVE  JInv'
<1> DEFINE q == Tail(queue)
<1>1. /\ failed = "none" /\ phase' = phase /\ inbuf' = inbuf /\ peer' = peer
      /\ queue # <<>>
  BY Zenon DEF event_sock_handle_write, At, peerVars
<1>2. /\ q \in Seq(Op) /\ Pending(q) \subseteq Pending(queue)
      /\ Head(queue).cb = "on_stream_send_complete" => Head(queue).sid \in Pending(queue)
  BY <1>1, QueueType, PendingTail, TailFacts, Zenon
<1>3. CASE /\ NoWrite(q, 1)
           /\ UNCHANGED <<ctxVars, streamVars, sockVars, timer, granted>>
  <2>1. /\ UNCHANGED <<state, flags, stream_id, stream_state, buflen, read_cb, resp>>
        /\ queue' = q
    BY <1>3 DEF streamVars, ctxVars, sockVars, NoWrite
  <2> QED
    BY <1>1, <1>2, <2>1, StillJInv, SMTT(30)
<1>4. CASE http2_close_immediate
  BY <1>4 DEF http2_close_immediate, JInv, Live
<1>5. CASE /\ on_settings_sent(q)
           /\ UNCHANGED <<state, last_opened_stream_id, window_size, initial_window_size,
                          streamVars, sockVars, granted>>
  <2>1. /\ UNCHANGED <<state, stream_id, stream_state, buflen, read_cb, resp>>
        /\ queue' = q
    BY <1>5 DEF streamVars, sockVars, NoWrite, on_settings_sent
  <2>2. flags' \cap RequestFlags = flags \cap RequestFlags
    BY <1>5 DEF on_settings_sent, RequestFlags
  <2> QED
    BY <1>1, <1>2, <2>1, <2>2, StillJInv, SMTT(30)
<1>6. CASE /\ Head(queue).cb = "on_stream_send_complete"
           /\ on_stream_send_complete(q)
           /\ UNCHANGED <<state, flags, last_opened_stream_id, initial_window_size,
                          stream_id, sockVars, timer>>
  <2> SUFFICES ASSUME failed' = "none", Live' PROVE Orderly' /\ Followed' /\ Opened'
    BY Zenon DEF JInv
  <2>1. UNCHANGED <<state, flags, stream_id, read_cb>>
    BY <1>6 DEF sockVars
  <2>2. Live
    BY <2>1, Zenon DEF Live
  <2>3. Orderly /\ Followed /\ Opened /\ (stream_id # 0 => Progress)
    BY <1>1, <2>2, InHand, Zenon
  <2>4. stream_id # 0 /\ stream_id \in StreamIds /\ ~Waiting(flags)
    <3>1. Pending(queue) # {} /\ Pending(queue) \subseteq {stream_id} \ {0}
      BY <1>2, <1>6, <2>3, SMTT(30) DEF Orderly
    <3>2. stream_id # 0
      BY <3>1
    <3> QED
      BY <2>3, <3>1, <3>2, Identifiers, SMTT(30) DEF Orderly
  <2>5. stream_state = "CLOSED" \/ Answered
    BY <2>3, <2>4 DEF Progress, Asked
  <2>6. Followed' /\ Opened'
    <3>1. \A p : Heard(p) => Heard(p)'
      BY <1>1, <2>1, Zenon DEF Heard
    <3> QED
      BY <1>1, <2>3, <3>1, FollowedStays, Zenon DEF Opened
  <2>7. CASE buflen > 0
    <3>1. http2_continue_send(q, 1, stream_window) /\ stream_state' = stream_state
      BY <1>6, <2>7, StreamWindow, SMTT(30) DEF on_stream_send_complete
    <3>2. stream_state # "CLOSED"
      BY <2>3, <2>4, <2>7, StreamWindow, SMTT(30) DEF Orderly
    <3>3. resp[stream_id] = "headers"
      BY <2>5, <2>7, <3>2, StreamWindow, SMTT(30) DEF Answered
    <3>4. Orderly'
      BY <1>1, <1>2, <2>1, <2>3, <2>4, <3>1, <3>2, <3>3, StreamWindow, SendOrderly, Zenon
    <3> QED
      BY <2>6, <3>4, SMTT(30)
  <2>8. CASE buflen <= 0
    <3>1. /\ stream_state' = "CLOSED" /\ resp' = resp /\ queue' = q /\ buflen' = buflen
          /\ buflen = 0
      BY <1>6, <2>8, StreamWindow DEF on_stream_send_complete, NoWrite
    <3>2. Pending(queue') \subseteq Pending(queue)
      BY <1>2, <3>1, Zenon
    <3>3. Pending(queue') \subseteq {stream_id} \ {0}
          /\ (Pending(queue) = {} => Pending(queue') = {})
      BY <2>3, <3>2 DEF Orderly
    <3>4. AnswersInOrder'
      BY <2>3, <3>1, Zenon DEF Orderly, AnswersInOrder
    <3>5. Orderly'
      BY <1>1, <2>1, <2>3, <2>4, <3>1, <3>3, <3>4, Zenon DEF Orderly
    <3> QED
      BY <2>6, <3>5
  <2> QED
    BY <2>7, <2>8, StreamWindow, SMTT(30)
<1> QED
  BY <1>3, <1>4, <1>5, <1>6, Zenon DEF event_sock_handle_write

\* The other steps of the loop.
LEMMA LoopJInv ==
  ASSUME IInv, JInv,
         \/ http2_new_client \/ event_loop_close \/ event_loop_timers
         \/ event_sock_read_end \/ event_sock_read_none
         \/ event_sock_write_none \/ event_sock_write_error
         \/ event_sock_handle_write_end \/ event_loop_pending
         \/ \E n \in 1 .. wlen : event_sock_write(n)
  PROVE  JInv'
<1>1. CASE http2_new_client
  <2> DEFINE p == [tx |-> "start", sid |-> 0, es |-> FALSE, acked |-> FALSE]
  <2>1. /\ inbuf' = <<>> /\ queue' = <<>> /\ stream_id' = 0 /\ flags' = {}
        /\ read_cb' = "waiting_for_preface" /\ peer' = p
        /\ resp' = [s \in StreamIds |-> "none"]
    BY <1>1, Zenon DEF http2_new_client, Fresh
  <2>2. p \in PeerStates /\ p.tx = "start" /\ p.sid = 0
    BY DEF PeerStates
  <2> HIDE DEF p
  <2>3. AnswersInOrder'
    BY <2>1, SMTT(30) DEF AnswersInOrder
  <2>4. Orderly'
    <3>1. Pending(queue') = {} /\ ~Asking(inbuf')
      BY <2>1, PendingEmpty, Zenon
    <3>2. AskingOnce(inbuf') /\ Newer(inbuf', stream_id')
      BY <3>1, NotAsking, Zenon
    <3> QED
      BY <2>1, <2>3, <3>1, <3>2, SMTT(30) DEF Orderly
  <2>5. Followed'
    <3>1. PICK tr : Replays(tr, <<>>, p) /\ tr[1] = p
      BY <2>2, ReplaysEmpty, Zenon
    <3>2. Heard(p)'
      BY <2>1, <2>2 DEF Heard
    <3>3. Replays(tr, inbuf', peer') /\ Heard(tr[1])'
      BY <2>1, <3>1, <3>2, Zenon
    <3> QED
      BY <3>3, Zenon DEF Followed
  <2>6. Opened'
    BY <2>1, <2>2 DEF Opened
  <2> QED
    BY <2>4, <2>5, <2>6 DEF JInv
<1>2. CASE event_sock_read_end \/ event_sock_write_error
  <2>1. read_cb' = "none"
    BY <1>2, Zenon
    DEF event_sock_read_end, event_sock_write_error, event_sock_close, http2_close_immediate
  <2> QED
    BY <2>1 DEF JInv, Live
<1>3. CASE event_sock_handle_write_end
  <2>1. /\ failed = "none" /\ phase = "notify" /\ phase' = "pending"
        /\ UNCHANGED <<ctxVars, streamVars, sockVars, inbuf, resp, peerVars>>
        /\ \/ /\ queue # <<>>
              /\ queue' = <<[Head(queue) EXCEPT !.bytes = @ - written]>> \o Tail(queue)
           \/ queue' = queue
    BY <1>3, Zenon DEF event_sock_handle_write_end, At
  <2>2. /\ UNCHANGED <<state, flags, stream_id, stream_state, buflen, read_cb, inbuf, resp,
                       peer>>
        /\ phase' = "update_first" <=> phase = "update_first"
    BY <2>1 DEF ctxVars, streamVars, sockVars, peerVars
  <2>3. Pending(queue') \subseteq Pending(queue)
    <3>1. CASE queue' = queue
      BY <3>1
    <3>2. CASE /\ queue # <<>>
               /\ queue' = <<[Head(queue) EXCEPT !.bytes = @ - written]>> \o Tail(queue)
      <4> DEFINE n == Head(queue).bytes - written
      <4>1. queue' = <<[Head(queue) EXCEPT !.bytes = n]>> \o Tail(queue)
        BY <3>2
      <4> HIDE DEF n
      <4> QED
        BY <3>2, <4>1, QueueType, PendingPart, Zenon
    <3> QED
      BY <2>1, <3>1, <3>2, SMTT(30)
  <2> QED
    BY <2>1, <2>2, <2>3, StillJInv, SMTT(30)
<1>4. CASE \/ event_loop_close \/ event_loop_timers \/ event_sock_read_none
           \/ event_sock_write_none \/ event_loop_pending
           \/ \E n \in 1 .. wlen : event_sock_write(n)
  <2>1. /\ failed = "none" /\ UNCHANGED <<ctxVars, streamVars, read_cb, inbuf, peerVars>>
        /\ queue' = queue /\ resp' = resp
    BY <1>4, Zenon
    DEF event_loop_close, event_loop_timers, event_sock_read_none, event_sock_write_none,
        event_loop_pending, event_sock_write, sockVars, writeVars, At
  <2>2. phase # "update_first" /\ phase' # "update_first"
    <3>1. read_cb # "update_first"
      BY DEF IInv, SockTypes, ReadCallbacks
    <3> QED
      BY <1>4, <3>1, Zenon
      DEF event_loop_close, event_loop_timers, event_sock_read_none, event_sock_write_none,
          event_loop_pending, event_sock_write, At
  <2>3. /\ UNCHANGED <<state, flags, stream_id, stream_state, buflen, peer>>
        /\ Pending(queue') \subseteq Pending(queue)
    BY <2>1 DEF ctxVars, streamVars, peerVars
  <2> QED
    BY <2>1, <2>2, <2>3, StillJInv, SMTT(30)
<1> QED
  BY <1>1, <1>2, <1>3, <1>4, SMTT(30)

\* A connection becomes ready when receiving becomes its read callback, and is
\* no longer so when it stops being read.
LEMMA ReadyReadsNext ==
  ASSUME IInv, Receiving, ReadyReads, [Next]_vars
  PROVE  ReadyReads'
<1>1. CASE Receive \/ on_settings_timeout \/ http2_close_gracefully
  <2> SUFFICES ASSUME failed' = "none", state' = "READY" PROVE read_cb' = "receiving"
    BY DEF ReadyReads
  <2>1. Class /\ failed = "none"
    BY <1>1, Classified, Zenon DEF Class, Between
  <2>2. CASE Ends \/ OpensAndEnds(Head(inbuf)) \/ Greets
    BY <2>2 DEF Ends, OpensAndEnds, Greets
  <2>3. CASE Readies
    BY <2>3 DEF Readies
  <2>4. CASE \/ Calm \/ Starts \/ \E sid \in StreamIds : Resets(sid)
             \/ Enlarges(Head(inbuf)) \/ Opening(Head(inbuf)) \/ Further(Head(inbuf))
             \/ Trailers(Head(inbuf))
    <3>1. read_cb' = read_cb /\ (state' = state \/ state' = "CLOSING")
      BY <2>4, Zenon
      DEF Calm, Starts, Resets, Enlarges, Opening, Further, Trailers, Asks, ctxVars, sockVars
    <3> QED
      BY <2>1, <3>1 DEF ReadyReads
  <2> QED
    BY <2>1, <2>2, <2>3, <2>4, Zenon DEF Class
<1>2. CASE \/ http2_new_client \/ event_sock_read_end \/ event_sock_write_error
           \/ event_sock_handle_write
  <2>1. \/ state' \in {"WAITING_PREFACE", "CLOSED"}
        \/ state' = state /\ read_cb' = read_cb /\ failed = "none"
    BY <1>2, Zenon
    DEF http2_new_client, Fresh, event_sock_read_end, event_sock_write_error,
        event_sock_close, event_sock_handle_write, http2_close_immediate, ctxVars, sockVars,
        At
  <2> QED
    BY <2>1 DEF ReadyReads
<1>3. CASE \/ event_loop_close \/ event_loop_timers \/ event_sock_read_none
           \/ event_sock_write_none \/ event_loop_pending \/ event_sock_handle_write_end
           \/ \E n \in 1 .. wlen : event_sock_write(n)
           \/ \E f \in Frames : event_sock_read(f)
  <2>1. state' = state /\ read_cb' = read_cb /\ failed = "none"
    BY <1>3, Zenon
    DEF event_loop_close, event_loop_timers, event_sock_read_none, event_sock_write_none,
        event_loop_pending, event_sock_handle_write_end, event_sock_write, event_sock_read,
        ctxVars, sockVars, At
  <2> QED
    BY <2>1 DEF ReadyReads
<1>4. CASE UNCHANGED vars
  <2>1. UNCHANGED <<state, read_cb, failed>>
    BY <1>4, Zenon DEF vars, ctxVars, sockVars, writeVars
  <2> QED
    BY <2>1 DEF ReadyReads
<1> QED
  BY <1>1, <1>2, <1>3, <1>4, Zenon DEF Next, Loop

----------------------------------------------------------------------------
(* Theorem: requests are answered in order *)

\* For all sizes, a connection in use with a peer that follows the protocol,
\* sends no trailers and cancels nothing answers every stream with HEADERS,
\* then DATA of which the last ends the stream, and nothing after it, and
\* closes no stream before that, as long as no frame was lost and no stream was
\* reset: a write callback never goes on with the answer of another stream
\* (http2.c:534-550 does not look at which stream it was given), however
\* requests, window updates and partial writes interleave.
THEOREM AnswersInOrderThm ==
  ASSUME Conforming, Habits = {}
  PROVE  Spec /\ [](NothingLost /\ NoReset)
           => [](AssertionsHold /\ state = "READY" => AnswersInOrder /\ ClosedAfterAnswer)
<1>1. Init => OInv /\ JInv /\ ReadyReads
  <2> SUFFICES ASSUME Init PROVE OInv /\ JInv /\ ReadyReads
    BY SMTT(30)
  <2>1. /\ inbuf = <<>> /\ stream_id = 0 /\ peer.sid = 0 /\ 0 <= 0 /\ state = "CLOSED"
        /\ read_cb = "none"
    BY DEF Init
  <2>2. OInv
    BY <2>1, OrderEmpty, Zenon DEF OInv
  <2> QED
    BY <2>1, <2>2 DEF JInv, Live, ReadyReads
<1>2. IInv /\ Receiving /\ KInv /\ OInv /\ JInv /\ ReadyReads
        /\ NothingLost /\ NoReset /\ NothingLost' /\ NoReset' /\ [Next]_vars
        => OInv' /\ JInv' /\ ReadyReads'
  <2> SUFFICES ASSUME IInv, Receiving, KInv, OInv, JInv, ReadyReads, NothingLost, NoReset,
                      NothingLost', NoReset', [Next]_vars
               PROVE  OInv' /\ JInv' /\ ReadyReads'
    OBVIOUS
  <2>0. lost = {} /\ lost' = {}
    BY DEF NothingLost
  <2>1. ReadyReads'
    BY ReadyReadsNext
  <2>2. CASE UNCHANGED vars
    <3>1. OInv'
      BY <2>2, LoopOrder
    <3>2. /\ UNCHANGED <<state, flags, stream_id, stream_state, buflen, read_cb, inbuf, resp,
                         peer>>
          /\ UNCHANGED <<queue, phase, failed>>
      BY <2>2, Zenon DEF vars, ctxVars, streamVars, sockVars, writeVars, peerVars
    <3>3. JInv'
      <4>1. CASE failed = "none"
        <5>1. Pending(queue') \subseteq Pending(queue)
          BY <3>2
        <5> QED
          BY <3>2, <4>1, <5>1, StillJInv, SMTT(30)
      <4>2. CASE failed # "none"
        BY <3>2, <4>2, Zenon DEF JInv
      <4> QED
        BY <4>1, <4>2, SMTT(30)
    <3> QED
      BY <2>1, <3>1, <3>3, SMTT(30)
  <2>3. CASE Receive \/ on_settings_timeout \/ http2_close_gracefully
    BY <2>0, <2>1, <2>3, Classified, ClassOrder, ClassJInv, Zenon
  <2>4. CASE \E f \in Frames : event_sock_read(f)
    BY <2>0, <2>1, <2>4, LoopOrder, ReadJInv, Zenon
  <2>5. CASE event_sock_handle_write
    BY <2>0, <2>1, <2>5, LoopOrder, NotifyJInv, Zenon
  <2> QED
    BY <2>1, <2>2, <2>3, <2>4, <2>5, LoopOrder, LoopJInv, Zenon DEF Next, Loop
<1>3. JInv /\ ReadyReads /\ NothingLost /\ (Undisturbed => ClosedAfterAnswer)
        => (AssertionsHold /\ state = "READY" => AnswersInOrder /\ ClosedAfterAnswer)
  <2> SUFFICES ASSUME JInv, ReadyReads, NothingLost, Undisturbed => ClosedAfterAnswer,
                      AssertionsHold, state = "READY"
               PROVE  AnswersInOrder /\ ClosedAfterAnswer
    OBVIOUS
  <2>1. failed = "none" /\ Live
    BY DEF ReadyReads, AssertionsHold, Live
  <2>2. AnswersInOrder /\ "WAITING_TRAILERS" \notin flags
    BY <2>1, Zenon DEF JInv, Orderly
  <2> QED
    BY <2>2, Zenon DEF Undisturbed
<1> QED
  BY <1>1, <1>2, <1>3, ReceivingInvariant, StreamsInvariant, ClosedAfterAnswerThm, PTL DEF Spec
=============================================================================
