------------------------ MODULE Http2Answers_proofs ------------------------
(***************************************************************************)
(* Proofs about the answers of a connection, whatever its peer does:       *)
(* streams are closed when they are answered.                              *)
(*                                                                         *)
(* The steps of the handlers are first sorted by what they do (Class), so  *)
(* that each invariant is shown for a few kinds of steps.                  *)
(***************************************************************************)
EXTENDS Http2_proofs

----------------------------------------------------------------------------
(* Kinds of steps *)

\* The flags that say how much of a request is still to come.
RequestFlags == {"WAITING_END_HEADERS", "WAITING_END_STREAM", "WAITING_TRAILERS"}

\* Outside the notification of writes; receiving is entered from the loop.
Between ==
  /\ failed = "none" /\ phase # "notify" /\ phase' # "notify" /\ written' = written
  /\ phase' \in {"receiving", "update"} => phase \in {"receiving", "update"}

\* At most a frame about the connection is written.
Says ==
  \/ NoWrite(queue, 0)
  \/ \E kind \in SentKinds, cb \in Callbacks \ {"on_stream_send_complete"} :
       event_write(queue, 0, Frame(kind, 0, FALSE, 0), cb)

\* The next frame is taken out of the batch.
Takes == phase = "receiving" /\ inbuf # <<>> /\ inbuf' = Tail(inbuf)

\* The connection is being closed (http2_error, http2_close_immediate, GOAWAY).
Ends ==
  /\ Says
  /\ state' \in {"CLOSING", "CLOSED"} /\ read_cb' \in {"none", "receiving"}
  /\ stream_state' # "CLOSED" => stream_state # "CLOSED"
  /\ inbuf' = inbuf \/ (inbuf # <<>> /\ inbuf' = Tail(inbuf)) \/ inbuf' = <<>>
  /\ phase' # "update_first"
  /\ UNCHANGED <<stream_id, stream_window, granted, peer>>

\* The same, by a frame that opens a stream.
OpensAndEnds(f) ==
  /\ Says
  /\ phase = "receiving" /\ inbuf # <<>>
  /\ f.type = "HEADERS" /\ f.sid > stream_id /\ stream_state = "CLOSED"
  /\ state' = "CLOSING" /\ read_cb' = "none"
  /\ phase' # "update_first" /\ inbuf' = <<>>
  /\ OpenStream(f.sid)
  /\ UNCHANGED peer

\* A frame that changes nothing of a request.
Passing(f) ==
  /\ f.type \notin {"HEADERS", "CONTINUATION", "DATA", "RST_STREAM", "PREFACE"}
  /\ f.type = "WINDOW_UPDATE" => f.sid = 0

\* The peer moves the window of the stream by its SETTINGS.
Adjusts ==
  \E value \in 0 .. MaxWindow :
    /\ stream_state # "CLOSED"
    /\ stream_window' = Adjusted(value)
    /\ granted' = [granted EXCEPT ![stream_id] = @ + (value - initial_window_size)]

\* The stream is left alone, but for its window.
Calm ==
  /\ Says
  /\ \/ state' = state /\ flags' \cap RequestFlags = flags \cap RequestFlags
     \/ state' = "CLOSING" /\ state # "CLOSED" /\ flags' \subseteq flags
  /\ UNCHANGED <<read_cb, stream_id, stream_state, buf, buflen, peer>>
  /\ UNCHANGED <<stream_window, granted>> \/ Adjusts
  /\ \/ inbuf' = inbuf /\ (phase' = "update_first" <=> phase = "update_first")
     \/ Takes /\ Passing(Head(inbuf)) /\ phase' # "update_first"
     \/ inbuf' = <<>> /\ read_cb = "none" /\ phase' # "update_first"

\* The preface is accepted.
Greets ==
  /\ Says
  /\ phase = "waiting_for_preface" /\ phase' # "update_first"
  /\ Head(inbuf).type = "PREFACE" /\ inbuf' = Tail(inbuf)
  /\ state' = "WAITING_SETTINGS" /\ read_cb' = "waiting_for_settings"
  /\ UNCHANGED <<flags, streamVars, granted, peer>>

\* The first SETTINGS frame is accepted, and then processed.
Starts ==
  /\ Says
  /\ phase = "waiting_for_settings" /\ phase' = "update_first"
  /\ Head(inbuf).type = "SETTINGS" /\ Head(inbuf).flags = {} /\ inbuf' = Tail(inbuf)
  /\ UNCHANGED <<ctxVars, streamVars, sockVars, granted, peer>>

\* The first SETTINGS frame has been processed: the connection is ready.
Readies ==
  /\ Says
  /\ phase = "update_first" /\ phase' # "update_first"
  /\ state' = "READY" /\ read_cb' = "receiving"
  /\ UNCHANGED <<flags, streamVars, inbuf, granted, peer>>

\* A stream is reset by the server (http2_stream_error) or by the peer.
Resets(sid) ==
  /\ sid \in StreamIds /\ sid <= stream_id
  /\ Takes /\ phase' # "update_first"
  /\ \/ /\ event_write(queue, 0, Frame("RST_STREAM", sid, FALSE, 0),
                       "close_on_write_error")
        /\ Head(inbuf).type \in {"HEADERS", "DATA", "WINDOW_UPDATE"}
     \/ /\ resp' = [resp EXCEPT ![sid] = IF @ = "broken" THEN @ ELSE "reset"]
        /\ UNCHANGED <<wlen, queue, in_use, failed, lost>>
        /\ Head(inbuf).type = "RST_STREAM"
  /\ stream_state' = IF sid = stream_id THEN "CLOSED" ELSE stream_state
  /\ UNCHANGED <<ctxVars, read_cb, stream_id, stream_window, buf, buflen, granted, peer>>

\* The peer enlarges the window of the stream.
Enlarges(f) ==
  /\ Takes /\ phase' # "update_first"
  /\ f.type = "WINDOW_UPDATE" /\ f.sid # 0 /\ f.sid <= stream_id
  /\ f.sid = stream_id => stream_state # "CLOSED"
  /\ http2_continue_send(queue, 0, stream_window + f.arg)
  /\ granted' = Charge([granted EXCEPT ![f.sid] = @ + f.arg])
  /\ UNCHANGED <<state, flags, read_cb, stream_id, stream_state, peer>>

\* What f completes of a request.
Completed(f) ==
  (IF "END_STREAM" \in f.flags THEN {"WAITING_END_STREAM"} ELSE {})
  \cup (IF f.type # "DATA" /\ "END_HEADERS" \in f.flags
        THEN {"WAITING_END_HEADERS"} ELSE {})

\* A part of a request is received; the request is answered when it is whole.
Asks(f, fl, st, id) ==
  /\ Takes /\ phase' # "update_first"
  /\ flags' = fl \ Completed(f)
  /\ stream_state' = IF "END_STREAM" \in f.flags THEN "HALF_CLOSED_REMOTE" ELSE st
  /\ \/ /\ Waiting(flags') /\ UNCHANGED writeVars
        /\ \/ f.type = "DATA" /\ UNCHANGED <<buf, buflen>>
           \/ f.type # "DATA" /\ buf' \in {"block", "cut"} /\ buflen' > 0
           \/ "WAITING_TRAILERS" \in fl
     \/ /\ ~Waiting(flags') /\ buf' = "body"
        /\ \E n \in Bodies :
             /\ buflen' = n
             /\ event_write(queue, 0, Frame("HEADERS", id, n = 0, 0),
                            "on_stream_send_complete")
  /\ UNCHANGED <<state, read_cb, peer>>

\* It is the first part, ...
Opening(f) ==
  /\ f.type = "HEADERS" /\ f.sid > stream_id /\ stream_state = "CLOSED"
  /\ OpenStream(f.sid)
  /\ Asks(f, flags \cup {"WAITING_END_HEADERS", "WAITING_END_STREAM"}, "OPEN", f.sid)

\* ... a further one, ...
Further(f) ==
  /\ \/ f.type = "CONTINUATION" /\ "WAITING_END_HEADERS" \in flags
     \/ f.type = "DATA" /\ "WAITING_END_HEADERS" \notin flags /\ stream_state = "OPEN"
  /\ stream_state # "CLOSED"
  /\ UNCHANGED <<stream_id, stream_window, granted>>
  /\ Asks(f, flags, stream_state, stream_id)

\* ... or the trailers.
Trailers(f) ==
  /\ f.type = "HEADERS" /\ f.sid = stream_id /\ stream_state = "OPEN"
  /\ UNCHANGED <<stream_id, stream_window, granted>>
  /\ Asks(f, flags \cup {"WAITING_TRAILERS", "WAITING_END_HEADERS"}, stream_state, stream_id)

\* What a handler may do.
Class ==
  /\ Between
  /\ \/ failed' # "none"
     \/ Ends \/ OpensAndEnds(Head(inbuf)) \/ Calm \/ Greets \/ Starts \/ Readies
     \/ \E sid \in StreamIds : Resets(sid)
     \/ Enlarges(Head(inbuf)) \/ Opening(Head(inbuf)) \/ Further(Head(inbuf))
     \/ Trailers(Head(inbuf))

\* What is being read while a handler runs.
Receiving ==
  failed = "none" /\ phase \in {"receiving", "update"} => read_cb \in {"receiving", "none"}

----------------------------------------------------------------------------
(* Every handler takes a step of one of these kinds *)

\* A handler that writes nothing.
LEMMA SaysNothing ==
  ASSUME IInv, UNCHANGED writeVars
  PROVE  Says
<1>1. in_use \in 0 .. WriteOps
  BY Zenon DEF IInv, Written, WriteTypes
<1>2. in_use - 0 = in_use
  BY <1>1, Sizes
<1> QED
  BY <1>2, Zenon DEF Says, NoWrite, writeVars

\* http2_error sends a GOAWAY and stops reading.
LEMMA ErrorSays ==
  ASSUME http2_error(queue, 0)
  PROVE  Says /\ state' = "CLOSING" /\ read_cb' = "none"
<1>1. "GOAWAY" \in SentKinds
      /\ "close_on_goaway_sent" \in Callbacks \ {"on_stream_send_complete"}
  BY DEF SentKinds, Callbacks
<1> QED
  BY <1>1, Zenon DEF Says, http2_error

\* A handler that refuses a frame.
LEMMA RefuseClass ==
  ASSUME failed = "none", phase # "notify", Refuse
  PROVE  Class
<1>1. Says /\ state' = "CLOSING" /\ read_cb' = "none"
  BY ErrorSays DEF Refuse
<1>2. Ends
  BY <1>1, Zenon DEF Ends, Refuse, Discard, streamVars, notHandled, peerVars
<1>3. Between
  BY SMTT(30) DEF Between, Refuse, Discard, notHandled, callVars
<1> QED
  BY <1>2, <1>3 DEF Class

\* A handler that only skips the frame, or keeps it.
LEMMA SkipClass ==
  ASSUME IInv, failed = "none", phase # "notify", phase # "update_first",
         phase' \in {"receiving", "close", "update"},
         phase = "receiving" \/ phase' = "close",
         UNCHANGED <<ctxVars, streamVars, sockVars, writeVars, granted, peerVars, written>>,
         \/ inbuf' = inbuf
         \/ Takes /\ Passing(Head(inbuf))
         \/ inbuf' = <<>> /\ read_cb = "none"
  PROVE  Class
<1>1. Says
  BY SaysNothing
<1>2. /\ phase' # "update_first" /\ phase' # "notify"
      /\ phase' \in {"receiving", "update"} => phase \in {"receiving", "update"}
  OBVIOUS
<1>3. Calm
  BY <1>1, <1>2, Zenon DEF Calm, ctxVars, streamVars, sockVars, peerVars
<1> QED
  BY <1>2, <1>3, Zenon DEF Class, Between

\* waiting_for_preface: the preface is awaited, refused or accepted.
LEMMA PrefaceClass ==
  ASSUME IInv, Receiving, waiting_for_preface
  PROVE  Class
<1>1. /\ phase = "waiting_for_preface" /\ failed = "none" /\ written' = written
      /\ UNCHANGED <<granted, peer>> /\ UNCHANGED peerVars
  BY Zenon DEF waiting_for_preface, At, notHandled, peerVars, callVars
<1>2. CASE /\ phase' = "close"
           /\ UNCHANGED <<ctxVars, streamVars, sockVars, inbuf, writeVars>>
  BY <1>1, <1>2, SkipClass
<1>3. CASE http2_close_immediate /\ Discard /\ UNCHANGED writeVars
  <2>1. Says
    BY <1>3, SaysNothing
  <2>2. Ends
    BY <1>1, <1>3, <2>1, Zenon DEF Ends, http2_close_immediate, Discard
  <2> QED
    BY <1>1, <1>3, <2>2 DEF Class, Between, Discard
<1>4. CASE /\ Head(inbuf).type = "PREFACE"
           /\ state' = "WAITING_SETTINGS"
           /\ event_write(queue, 0, Frame("SETTINGS", 0, FALSE, 0), "on_settings_sent")
           /\ read_cb' = "waiting_for_settings"
           /\ Stop
           /\ UNCHANGED <<flags, last_opened_stream_id, window_size, initial_window_size,
                          streamVars, sock, wopen>>
  <2>1. "SETTINGS" \in SentKinds
        /\ "on_settings_sent" \in Callbacks \ {"on_stream_send_complete"}
    BY DEF SentKinds, Callbacks
  <2>2. Says
    BY <1>4, <2>1, Zenon DEF Says
  <2>3. Greets
    BY <1>1, <1>4, <2>2 DEF Greets, Stop
  <2> QED
    BY <1>1, <1>4, <2>3 DEF Class, Between, Stop
<1> QED
  BY <1>2, <1>3, <1>4, Zenon DEF waiting_for_preface

\* waiting_for_settings: the first frame is refused, awaited or processed.
LEMMA FirstSettingsClass ==
  ASSUME IInv, Receiving, waiting_for_settings
  PROVE  Class
<1> DEFINE f == Head(inbuf)
<1>1. phase = "waiting_for_settings" /\ failed = "none"
  BY Zenon DEF waiting_for_settings, At
<1>2. CASE Refuse
  BY <1>1, <1>2, RefuseClass
<1>3. CASE /\ phase' = "close"
           /\ UNCHANGED <<ctxVars, streamVars, sockVars, inbuf, writeVars, granted,
                          notHandled>>
  BY <1>1, <1>3, SkipClass DEF notHandled, callVars
<1>4. CASE /\ f.type = "SETTINGS" /\ f.flags = {}
           /\ inbuf' = Tail(inbuf) /\ phase' = "update_first"
           /\ UNCHANGED <<ctxVars, streamVars, sockVars, writeVars, granted, timer, written,
                          peerVars>>
  <2>1. Says
    BY <1>4, SaysNothing
  <2>2. Starts
    BY <1>1, <1>4, <2>1, Zenon DEF Starts, peerVars
  <2> QED
    BY <1>1, <1>4, <2>2 DEF Class, Between
<1> QED
  BY <1>2, <1>3, <1>4, Zenon DEF waiting_for_settings

\* The checks of receiving, and the frames it ignores.
LEMMA ReceivingClass ==
  ASSUME IInv, Receiving, receiving \/ ignore_frame \/ push_promise
  PROVE  Class
<1>1. phase = "receiving" /\ failed = "none"
  BY Zenon DEF receiving, ignore_frame, push_promise, Handling, At
<1>2. CASE Refuse
  BY <1>1, <1>2, RefuseClass
<1>3. CASE /\ inbuf' = IF read_cb = "none" THEN <<>> ELSE inbuf
           /\ phase' = "close"
           /\ UNCHANGED <<ctxVars, streamVars, sockVars, writeVars, granted, notHandled>>
  BY <1>1, <1>3, SkipClass DEF notHandled, callVars
<1>4. CASE ignore_frame
  <2>1. /\ inbuf # <<>> /\ Head(inbuf).type \in {"PRIORITY", "UNKNOWN"}
        /\ inbuf' = Tail(inbuf) /\ phase' = "receiving"
        /\ UNCHANGED <<ctxVars, streamVars, sockVars, writeVars, granted, notHandled>>
    BY <1>4 DEF ignore_frame, Handling, Continue
  <2>2. Takes /\ Passing(Head(inbuf))
    BY <1>1, <2>1 DEF Takes, Passing
  <2> QED
    BY <1>1, <2>1, <2>2, SkipClass DEF notHandled, callVars
<1>5. CASE push_promise
  <2>1. http2_error(queue, 0) /\ inbuf' = Tail(inbuf) /\ phase' = "receiving"
        /\ inbuf # <<>> /\ UNCHANGED <<streamVars, granted, notHandled>>
    BY <1>5 DEF push_promise, Continue, Handling
  <2>2. Ends
    BY <2>1, ErrorSays, Zenon DEF Ends, streamVars, notHandled, peerVars
  <2> QED
    BY <1>1, <2>1, <2>2 DEF Class, Between, notHandled, callVars
<1> QED
  BY <1>2, <1>3, <1>4, <1>5, Zenon DEF receiving

\* A frame that is handled leaves the batch.
LEMMA HandlingTakes ==
  ASSUME NEW type, Handling(type)
  PROVE  /\ phase = "receiving" /\ failed = "none" /\ inbuf # <<>>
         /\ Head(inbuf).type = type
         /\ inbuf' = Tail(inbuf) => Takes
  BY DEF Handling, At, Takes

\* handle_settings_frame and handle_ping_frame.
LEMMA SettingsPingClass ==
  ASSUME IInv, Receiving, handle_settings_frame \/ handle_ping_frame
  PROVE  Class
<1> DEFINE f == Head(inbuf)
<1>1. /\ phase = "receiving" /\ failed = "none" /\ inbuf # <<>>
      /\ f.type \in {"SETTINGS", "PING"}
      /\ inbuf' = Tail(inbuf) => Takes /\ Passing(f)
  <2>1. Handling("SETTINGS") \/ Handling("PING")
    BY Zenon DEF handle_settings_frame, handle_ping_frame
  <2>2. /\ phase = "receiving" /\ failed = "none" /\ inbuf # <<>>
        /\ f.type = "SETTINGS" \/ f.type = "PING"
        /\ inbuf' = Tail(inbuf) => Takes
    BY <2>1, HandlingTakes, Zenon
  <2> QED
    BY <2>2 DEF Passing
<1>2. CASE Refuse
  BY <1>1, <1>2, RefuseClass
<1>3. CASE /\ inbuf' = Tail(inbuf) /\ phase' = "update"
           /\ UNCHANGED <<ctxVars, streamVars, sockVars, writeVars, granted, timer, written,
                          peerVars>>
  BY <1>1, <1>3, SkipClass
<1>4. CASE /\ flags' = flags \ {"WAITING_SETTINGS_ACK"}
           /\ Continue
           /\ UNCHANGED <<state, last_opened_stream_id, window_size, initial_window_size,
                          streamVars, sockVars, writeVars, granted, callVars, peerVars>>
  <2>1. Says
    BY <1>4, SaysNothing
  <2>2. flags' \cap RequestFlags = flags \cap RequestFlags
    BY <1>4 DEF RequestFlags
  <2>3. Takes /\ Passing(f) /\ phase' = "receiving"
    BY <1>1, <1>4, Zenon DEF Continue
  <2>4. Calm
    BY <1>4, <2>1, <2>2, <2>3, Zenon DEF Calm, streamVars, sockVars, peerVars
  <2> QED
    BY <1>1, <1>4, <2>3, <2>4 DEF Class, Between, callVars
<1>5. CASE /\ \/ UNCHANGED writeVars
              \/ event_write(queue, 0, Frame("PING", 0, FALSE, 0), "close_on_write_error")
           /\ Continue
           /\ UNCHANGED <<ctxVars, streamVars, sockVars, granted, notHandled>>
  <2>1. "PING" \in SentKinds
        /\ "close_on_write_error" \in Callbacks \ {"on_stream_send_complete"}
    BY DEF SentKinds, Callbacks
  <2>2. Says
    BY <1>5, <2>1, SaysNothing, Zenon DEF Says
  <2>3. Takes /\ Passing(f) /\ phase' = "receiving"
    BY <1>1, <1>5, Zenon DEF Continue
  <2>4. Calm
    BY <1>5, <2>2, <2>3, Zenon DEF Calm, ctxVars, streamVars, sockVars, notHandled, peerVars
  <2> QED
    BY <1>1, <1>5, <2>3, <2>4 DEF Class, Between, callVars, notHandled
<1> QED
  BY <1>2, <1>3, <1>4, <1>5, Zenon DEF handle_settings_frame, handle_ping_frame

\* update_settings, one parameter, an error or the end of the frame.
LEMMA UpdateClass ==
  ASSUME IInv, Receiving, update_settings
  PROVE  Class
<1>1. /\ phase \in {"update", "update_first"} /\ failed = "none" /\ written' = written
      /\ phase' = phase /\ peer' = peer
      /\ UNCHANGED writeVars
      /\ UNCHANGED <<state, flags, read_cb, stream_id, stream_state, buf, buflen, inbuf>>
  BY Zenon DEF update_settings, At, sockVars, peerVars
<1>2. Says
  BY <1>1, SaysNothing
<1>3. UNCHANGED <<stream_window, granted>> \/ Adjusts
  <2> DEFINE item == Head(items)
  <2>1. CASE UNCHANGED <<stream_window, granted>>
    BY <2>1
  <2>2. CASE /\ item.id = "window" /\ ~SettingRefused(item) /\ items # <<>>
             /\ stream_state \in {"OPEN", "HALF_CLOSED_REMOTE"}
             /\ stream_window' = Adjusted(item.value)
             /\ granted' = [granted EXCEPT
                              ![stream_id] = @ + (item.value - initial_window_size)]
    <3>1. item \in Items
      <4>1. items \in Seq(Items)
        BY DEF IInv, CallTypes
      <4> QED
        BY <2>2, <4>1, TailFacts
    <3>2. item.value \in Nat /\ ~(item.value > MaxWindow)
      BY <2>2, <3>1 DEF Items, SettingRefused
    <3>3. item.value \in 0 .. MaxWindow
      BY <3>2, SizesAssumption
    <3>4. stream_state # "CLOSED"
      BY <2>2
    <3> QED
      BY <2>2, <3>3, <3>4, Zenon DEF Adjusts
  <2> QED
    BY <2>1, <2>2, Zenon DEF update_settings
<1>4. Calm
  BY <1>1, <1>2, <1>3, Zenon DEF Calm
<1> QED
  BY <1>1, <1>4 DEF Class, Between

\* update_settings refuses a parameter: the connection is being closed, or an
\* assertion fails.
LEMMA UpdateErrorClass ==
  ASSUME IInv, Receiving, update_settings_error
  PROVE  Class
<1>1. phase \in {"update", "update_first"} /\ failed = "none" /\ written' = written
      /\ phase' \in {"receiving", "close"} /\ (phase = "update" \/ phase' = "close")
      /\ UNCHANGED <<streamVars, inbuf, peer, granted>>
  BY Zenon DEF update_settings_error, At, peerVars
<1>2. Between
  BY <1>1 DEF Between
<1>3. CASE failed' = "event_read: event"
  BY <1>2, <1>3, Zenon DEF Class
<1>4. CASE http2_error(queue, 0)
  <2>1. Ends
    BY <1>1, <1>4, ErrorSays DEF Ends, streamVars
  <2> QED
    BY <1>2, <2>1 DEF Class
<1> QED
  BY <1>3, <1>4, Zenon DEF update_settings_error

\* The last parameter has been processed: the frame is acknowledged, and the
\* first one makes the connection ready.
LEMMA UpdateEndClass ==
  ASSUME IInv, Receiving, update_settings_end
  PROVE  Class
<1>1. phase \in {"update", "update_first"} /\ failed = "none" /\ written' = written
      /\ phase' \in {"receiving", "close"} /\ (phase = "update" \/ phase' = "close")
      /\ UNCHANGED <<flags, streamVars, inbuf, peer, granted>>
  BY Zenon DEF update_settings_end, At, peerVars
<1>2. Between
  BY <1>1 DEF Between
<1>3. "SETTINGS_ACK" \in SentKinds
      /\ "close_on_write_error" \in Callbacks \ {"on_stream_send_complete"}
  BY DEF SentKinds, Callbacks
<1>4. Says
  BY <1>3, SaysNothing, Zenon DEF update_settings_end, Says
<1>5. CASE phase = "update" /\ UNCHANGED <<state, read_cb>>
  <2>1. Calm
    BY <1>1, <1>4, <1>5 DEF Calm, streamVars
  <2> QED
    BY <1>2, <2>1 DEF Class
<1>6. CASE phase = "update_first" /\ state' = "READY" /\ read_cb' = "receiving"
  <2>1. Readies
    BY <1>1, <1>4, <1>6 DEF Readies
  <2> QED
    BY <1>2, <2>1 DEF Class
<1> QED
  BY <1>5, <1>6, Zenon DEF update_settings_end

\* handle_goaway_frame.
LEMMA GoawayClass ==
  ASSUME IInv, Receiving, handle_goaway_frame
  PROVE  Class
<1> DEFINE f == Head(inbuf)
<1>1. /\ phase = "receiving" /\ failed = "none" /\ inbuf # <<>> /\ f.type = "GOAWAY"
      /\ inbuf' = Tail(inbuf) => Takes
  BY HandlingTakes, Zenon DEF handle_goaway_frame
<1>2. CASE Refuse
  BY <1>1, <1>2, RefuseClass
<1>3. CASE http2_close_immediate /\ Continue /\ UNCHANGED <<writeVars, granted, notHandled>>
  <2>1. Says
    BY <1>3, SaysNothing
  <2>2. Ends
    BY <1>1, <1>3, <2>1, Zenon DEF Ends, http2_close_immediate, Continue, notHandled, peerVars
  <2> QED
    BY <1>1, <1>3, <2>2 DEF Class, Between, Continue, notHandled, callVars
<1>4. CASE /\ Continue
           /\ UNCHANGED <<ctxVars, streamVars, sockVars, writeVars, granted, notHandled>>
  <2>1. Passing(f)
    BY <1>1 DEF Passing
  <2> QED
    BY <1>1, <1>4, <2>1, SkipClass DEF Continue, notHandled, callVars
<1>5. CASE /\ stream_state' = IF stream_id > f.arg THEN "CLOSED" ELSE stream_state
           /\ state' = "CLOSING"
           /\ \/ /\ read_cb' = "receiving"
                 /\ event_write(queue, 0, Frame("GOAWAY", 0, FALSE, 0),
                                "close_on_goaway_sent")
              \/ failed' = "event_read: event"
           /\ Continue
           /\ UNCHANGED <<stream_id, stream_window, granted, notHandled>>
  <2>1. Between
    BY <1>1, <1>5, Zenon DEF Between, Continue, notHandled, callVars
  <2>2. CASE failed' = "event_read: event"
    BY <2>1, <2>2, Zenon DEF Class
  <2>3. CASE /\ read_cb' = "receiving"
             /\ event_write(queue, 0, Frame("GOAWAY", 0, FALSE, 0), "close_on_goaway_sent")
    <3>1. "GOAWAY" \in SentKinds
          /\ "close_on_goaway_sent" \in Callbacks \ {"on_stream_send_complete"}
      BY DEF SentKinds, Callbacks
    <3>2. Says
      BY <2>3, <3>1, Zenon DEF Says
    <3>3. Ends
      BY <1>1, <1>5, <2>3, <3>2, Zenon DEF Ends, Continue, notHandled, peerVars
    <3> QED
      BY <2>1, <3>3 DEF Class
  <2> QED
    BY <1>5, <2>2, <2>3, Zenon
<1> QED
  BY <1>2, <1>3, <1>4, <1>5, Zenon DEF handle_goaway_frame

\* Stream identifiers are numbers, and the stream is the last one opened.
LEMMA Identifiers ==
  ASSUME IInv
  PROVE  /\ stream_id \in StreamIds \cup {0} /\ stream_id \in Nat
         /\ last_opened_stream_id = stream_id
         /\ StreamIds \subseteq Nat \ {0}
         /\ inbuf # <<>> => /\ Head(inbuf).sid \in StreamIds \cup {0}
                            /\ Head(inbuf).sid \in Nat
                            /\ Head(inbuf).arg \in Nat
<1>1. stream_id \in StreamIds \cup {0} /\ last_opened_stream_id = stream_id
  BY DEF IInv, StreamTypes, Control
<1>2. StreamIds \subseteq Nat \ {0}
  BY PeerAssumption, Zenon
<1>3. ASSUME NEW x \in StreamIds \cup {0} PROVE x \in Nat
  BY <1>2
<1>4. ASSUME inbuf # <<>>
      PROVE  Head(inbuf).sid \in StreamIds \cup {0} /\ Head(inbuf).arg \in Nat
  BY <1>4, HeadFrame, Zenon DEF IInv
<1> QED
  BY <1>1, <1>2, <1>3, <1>4, Zenon

\* http2_stream_error resets a stream that was opened.
LEMMA StreamErrorClass ==
  ASSUME IInv, failed = "none", phase = "receiving", inbuf # <<>>,
         NEW sid, sid \in StreamIds, sid <= stream_id, http2_stream_error(sid),
         Head(inbuf).type \in {"HEADERS", "DATA", "WINDOW_UPDATE"}
  PROVE  Class
<1>1. Takes /\ phase' = "close" /\ written' = written
  BY Zenon DEF http2_stream_error, Stop, Takes, notHandled, callVars
<1>2. Resets(sid)
  <2>1. phase' # "update_first"
    BY <1>1
  <2>2. UNCHANGED <<ctxVars, read_cb, stream_id, stream_window, buf, buflen, granted, peer>>
    BY Zenon DEF http2_stream_error, sockVars, notHandled, peerVars
  <2> QED
    BY <1>1, <2>1, <2>2, Zenon DEF Resets, http2_stream_error
<1>3. Between
  BY <1>1 DEF Between
<1> QED
  BY <1>2, <1>3, Zenon DEF Class

\* handle_rst_stream_frame.
LEMMA ResetClass ==
  ASSUME IInv, Receiving, handle_rst_stream_frame
  PROVE  Class
<1> DEFINE f == Head(inbuf)
<1>1. /\ phase = "receiving" /\ failed = "none" /\ inbuf # <<>> /\ f.type = "RST_STREAM"
      /\ inbuf' = Tail(inbuf) => Takes
  BY HandlingTakes, Zenon DEF handle_rst_stream_frame
<1>2. CASE Refuse
  BY <1>1, <1>2, RefuseClass
<1>3. CASE /\ f.sid # 0 /\ f.sid = last_opened_stream_id
           /\ stream_state' = "CLOSED"
           /\ resp' = [resp EXCEPT ![f.sid] = IF @ = "broken" THEN @ ELSE "reset"]
           /\ Continue
           /\ UNCHANGED <<ctxVars, stream_id, stream_window, buf, buflen, bufptr, sockVars,
                          wlen, queue, in_use, failed, lost, granted, notHandled>>
  <2>1. f.sid \in StreamIds /\ f.sid = stream_id /\ f.sid <= stream_id
    BY <1>1, <1>3, Identifiers
  <2>2. Takes /\ phase' = "receiving" /\ written' = written /\ peer' = peer /\ read_cb' = read_cb
    BY <1>1, <1>3, Zenon DEF Continue, notHandled, callVars, peerVars, sockVars
  <2>3. Resets(f.sid)
    BY <1>1, <1>3, <2>1, <2>2, Zenon DEF Resets
  <2>4. Between
    BY <1>1, <2>2 DEF Between
  <2> QED
    BY <2>1, <2>3, <2>4, Zenon DEF Class
<1> QED
  BY <1>2, <1>3, Zenon DEF handle_rst_stream_frame

\* handle_window_update_frame.
LEMMA WindowUpdateClass ==
  ASSUME IInv, Receiving, handle_window_update_frame
  PROVE  Class
<1> DEFINE f   == Head(inbuf)
           bad == \/ f.length # "ok"
                  \/ f.sid > last_opened_stream_id
                  \/ f.sid # 0 /\ f.sid = stream_id /\ stream_state = "CLOSED"
                  \/ f.arg = 0
                  \/ f.sid = 0 /\ window_size + f.arg > MaxWindow
           sw  == stream_window + f.arg
<1>1. /\ phase = "receiving" /\ failed = "none" /\ inbuf # <<>>
      /\ f.type = "WINDOW_UPDATE"
      /\ inbuf' = Tail(inbuf) => Takes
  BY HandlingTakes, Zenon DEF handle_window_update_frame
<1>2. CASE Refuse
  BY <1>1, <1>2, RefuseClass
<1>3. CASE /\ f.sid = 0
           /\ Continue
           /\ UNCHANGED <<state, flags, last_opened_stream_id, initial_window_size, streamVars,
                          sockVars, writeVars, granted, notHandled>>
  <2>1. Says
    BY <1>3, SaysNothing
  <2>2. Passing(f)
    BY <1>1, <1>3 DEF Passing
  <2>3. Takes /\ phase' = "receiving" /\ written' = written
    BY <1>1, <1>3, Zenon DEF Continue, notHandled, callVars
  <2>4. Calm
    BY <1>3, <2>1, <2>2, <2>3 DEF Calm, streamVars, sockVars, notHandled, peerVars
  <2> QED
    BY <1>1, <2>3, <2>4 DEF Class, Between
<1>4. ASSUME ~bad, f.sid # 0
      PROVE  stream_id \in StreamIds /\ stream_id <= stream_id /\ f.sid <= stream_id
  <2>1. ~(f.sid > last_opened_stream_id)
    BY <1>4, Zenon
  <2> QED
    BY <1>1, <1>4, <2>1, Identifiers
<1>5. CASE ~bad /\ f.sid # 0 /\ http2_stream_error(stream_id)
  <2>1. f.type \in {"HEADERS", "DATA", "WINDOW_UPDATE"}
    BY <1>1
  <2>2. stream_id \in StreamIds /\ stream_id <= stream_id
    BY <1>4, <1>5, Zenon
  <2> QED
    BY <1>1, <1>5, <2>1, <2>2, StreamErrorClass, Zenon
<1>6. CASE /\ ~bad /\ f.sid # 0
           /\ http2_continue_send(queue, 0, sw)
           /\ granted' = Charge([granted EXCEPT ![f.sid] = @ + f.arg])
           /\ Continue
           /\ UNCHANGED <<state, flags, last_opened_stream_id, initial_window_size, stream_id,
                          stream_state, sockVars, notHandled>>
  <2>1. Takes /\ phase' = "receiving" /\ written' = written /\ f.sid <= stream_id
    BY <1>1, <1>4, <1>6, Zenon DEF Continue, notHandled, callVars
  <2>2. f.sid = stream_id => stream_state # "CLOSED"
    BY <1>6, Zenon
  <2>3. Enlarges(f)
    BY <1>1, <1>6, <2>1, <2>2, Zenon DEF Enlarges, sockVars, notHandled, peerVars
  <2> QED
    BY <1>1, <2>1, <2>3 DEF Class, Between
<1> QED
  BY <1>2, <1>3, <1>5, <1>6, Zenon DEF handle_window_update_frame

\* The settings timer and http2_close_gracefully.
LEMMA TimerClass ==
  ASSUME IInv, on_settings_timeout \/ http2_close_gracefully
  PROVE  Class
<1>1. CASE on_settings_timeout
  <2>1. http2_error(queue, 0) /\ phase = "timers" /\ failed = "none" /\ phase' = "read"
        /\ inbuf' = <<>> /\ written' = written
        /\ UNCHANGED <<streamVars, granted, peer>>
    BY <1>1, Zenon DEF on_settings_timeout, At, callVars, peerVars
  <2>2. Ends
    BY <2>1, ErrorSays DEF Ends, streamVars
  <2> QED
    BY <2>1, <2>2 DEF Class, Between
<1>2. CASE http2_close_gracefully
  <2>1. /\ phase = "timers" /\ failed = "none" /\ phase' = phase /\ written' = written
        /\ state # "CLOSED" /\ state' = "CLOSING" /\ inbuf' = inbuf
        /\ flags' \subseteq flags /\ UNCHANGED <<streamVars, sockVars, granted, peer>>
    BY <1>2 DEF http2_close_gracefully, At, callVars, peerVars
  <2>2. "GOAWAY" \in SentKinds
        /\ "close_on_write_error" \in Callbacks \ {"on_stream_send_complete"}
    BY DEF SentKinds, Callbacks
  <2>3. Says
    BY <1>2, <2>2, Zenon DEF Says, http2_close_gracefully
  <2>4. Calm
    BY <2>1, <2>3, Zenon DEF Calm, streamVars, sockVars
  <2> QED
    BY <2>1, <2>4 DEF Class, Between
<1> QED
  BY <1>1, <1>2

\* handle_header_block and handle_end_stream end the connection, or take a
\* step of Asks.
LEMMA BlockAsks ==
  ASSUME IInv, failed = "none", phase = "receiving", inbuf # <<>>, UNCHANGED notHandled,
         NEW f \in Frames, f.type # "DATA", NEW fl, NEW st, NEW bl \in 0 .. StreamBufSize,
         NEW holds, NEW id,
         handle_header_block(f, fl, st, bl, holds, id)
  PROVE  /\ Between /\ phase' # "update_first"
         /\ \/ /\ Says /\ state' = "CLOSING" /\ read_cb' = "none"
               /\ stream_state' = "CLOSED" => st = "CLOSED"
               /\ inbuf' = <<>>
            \/ Asks(f, fl, st, id)
<1> DEFINE copylen == Min(f.arg, StreamBufSize - bl)
           trailer == "WAITING_TRAILERS" \in fl
           fl2     == fl \ ((IF "END_STREAM" \in f.flags THEN {"WAITING_END_STREAM"} ELSE {})
                       \cup (IF "END_HEADERS" \in f.flags THEN {"WAITING_END_HEADERS"} ELSE {}))
           bl2     == IF trailer THEN bl ELSE bl + copylen
           holds2  == IF trailer THEN holds
                      ELSE IF copylen < f.arg \/ holds = "cut" THEN "cut" ELSE "block"
<1>1. f.arg \in Nat /\ StreamBufSize \in Nat
  BY PeerAssumption, SizesAssumption, Zenon DEF RecvFrames
<1>2. written' = written /\ peer' = peer
  BY Zenon DEF notHandled, callVars, peerVars
<1>3. ASSUME http2_error(queue, 0), Discard, stream_state' = st
      PROVE  /\ Between /\ phase' # "update_first"
             /\ Says /\ state' = "CLOSING" /\ read_cb' = "none"
             /\ stream_state' = "CLOSED" => st = "CLOSED"
             /\ inbuf' = <<>>
  BY <1>2, <1>3, ErrorSays DEF Between, Discard
<1>4. CASE /\ copylen > 0
           /\ stream_state' = IF "END_STREAM" \in f.flags THEN "HALF_CLOSED_REMOTE" ELSE st
           /\ \/ /\ Waiting(fl2)
                 /\ flags' = fl2 /\ buflen' = bl2 /\ buf' = holds2
                 /\ Continue
                 /\ UNCHANGED <<state, sockVars, writeVars, window_size, initial_window_size>>
              \/ /\ ~Waiting(fl2)
                 /\ handle_end_stream(fl2, bl2, holds2, id, Discard)
  <2>1. fl2 = fl \ Completed(f)
    BY DEF Completed
  <2>2. (bl2 > 0 /\ holds2 \in {"block", "cut"}) \/ trailer
    <3>1. ASSUME ~trailer PROVE bl2 = bl + copylen /\ holds2 \in {"block", "cut"}
      BY <3>1
    <3>2. copylen \in Int
      BY <1>1 DEF Min
    <3>3. copylen > 0
      BY <1>4
    <3> HIDE DEF copylen, bl2
    <3> QED
      BY <1>1, <3>1, <3>2, <3>3
  <2> HIDE DEF fl2, bl2, holds2, copylen
  <2>3. CASE /\ Waiting(fl2)
             /\ flags' = fl2 /\ buflen' = bl2 /\ buf' = holds2
             /\ Continue
             /\ UNCHANGED <<state, sockVars, writeVars, window_size, initial_window_size>>
    <3>1. Takes /\ phase' = "receiving"
      BY <2>3, Zenon DEF Takes, Continue
    <3>2. /\ flags' = fl \ Completed(f) /\ Waiting(flags') /\ phase' # "update_first"
          /\ state' = state /\ read_cb' = read_cb /\ peer' = peer /\ writeVars' = writeVars
      <4>1. phase' # "update_first"
        BY <3>1
      <4> QED
        BY <1>2, <2>1, <2>3, <4>1, Zenon DEF sockVars
    <3>3. trailer \/ (buf' \in {"block", "cut"} /\ buflen' > 0)
      BY <2>2, <2>3, Zenon
    <3>4. Asks(f, fl, st, id)
      BY <1>4, <3>1, <3>2, <3>3, Zenon DEF Asks
    <3> QED
      BY <1>2, <3>1, <3>4 DEF Between
  <2>4. CASE ~Waiting(fl2) /\ EndStreamAnswers(fl2, holds2, id)
    <3>1. Takes /\ phase' = "receiving" /\ state' = state /\ read_cb' = read_cb
          /\ flags' = fl2
      BY <2>4 DEF Takes, Continue, EndStreamAnswers, sockVars
    <3>2. PICK n \in Bodies :
            /\ buflen' = n /\ buf' = "body"
            /\ event_write(queue, 0, Frame("HEADERS", id, n = 0, 0),
                           "on_stream_send_complete")
      BY <2>4, Zenon DEF EndStreamAnswers
    <3>3. ~Waiting(flags')
      BY <2>4, <3>1, Zenon
    <3>4. phase' # "update_first"
      BY <3>1
    <3>5. Asks(f, fl, st, id)
      BY <1>2, <1>4, <2>1, <3>1, <3>2, <3>3, <3>4, Zenon DEF Asks
    <3> QED
      BY <1>2, <3>1, <3>5 DEF Between
  <2>5. CASE EndStreamFails(bl2, holds2, Discard)
    <3>1. http2_error(queue, 0) /\ Discard
      BY <2>5, Zenon DEF EndStreamFails
    <3> QED
      BY <1>2, <1>4, <3>1, ErrorSays DEF Between, Discard
  <2> QED
    BY <1>4, <2>3, <2>4, <2>5, Zenon DEF handle_end_stream
<1> QED
  BY <1>3, <1>4, Zenon DEF handle_header_block

\* handle_continuation_frame.
LEMMA ContinuationClass ==
  ASSUME IInv, Receiving, handle_continuation_frame
  PROVE  Class
<1> DEFINE f == Head(inbuf)
<1>1. /\ phase = "receiving" /\ failed = "none" /\ inbuf # <<>> /\ f.type = "CONTINUATION"
  BY HandlingTakes, Zenon DEF handle_continuation_frame
<1>2. CASE Refuse
  BY <1>1, <1>2, RefuseClass
<1>3. CASE /\ stream_state # "CLOSED" /\ "WAITING_END_HEADERS" \in flags
           /\ handle_header_block(f, flags, stream_state, buflen, buf, stream_id)
           /\ UNCHANGED <<last_opened_stream_id, stream_id, stream_window, bufptr, granted,
                          notHandled>>
  <2>1. f \in Frames /\ f.type # "DATA" /\ buflen \in 0 .. StreamBufSize
    BY <1>1, HeadFrame DEF IInv, StreamTypes
  <2>2. /\ Between /\ phase' # "update_first"
        /\ \/ /\ Says /\ state' = "CLOSING" /\ read_cb' = "none"
              /\ stream_state' = "CLOSED" => stream_state = "CLOSED"
              /\ inbuf' = <<>>
           \/ Asks(f, flags, stream_state, stream_id)
    BY <1>1, <1>3, <2>1, BlockAsks, Zenon
  <2>3. ASSUME Asks(f, flags, stream_state, stream_id) PROVE Further(f)
    BY <1>1, <1>3, <2>3, Zenon DEF Further
  <2>4. ASSUME /\ Says /\ state' = "CLOSING" /\ read_cb' = "none" /\ inbuf' = <<>>
        PROVE  Ends
    BY <1>3, <2>2, <2>4, Zenon DEF Ends, notHandled, peerVars
  <2> QED
    BY <2>2, <2>3, <2>4, Zenon DEF Class
<1> QED
  BY <1>2, <1>3, Zenon DEF handle_continuation_frame

\* handle_data_frame.
LEMMA DataClass ==
  ASSUME IInv, Receiving, handle_data_frame
  PROVE  Class
<1> DEFINE f   == Head(inbuf)
           fl  == IF "END_STREAM" \in f.flags THEN flags \ {"WAITING_END_STREAM"} ELSE flags
           bad == f.sid = 0 \/ f.sid > last_opened_stream_id
           old == f.sid < last_opened_stream_id \/ stream_state # "OPEN"
<1>1. /\ phase = "receiving" /\ failed = "none" /\ inbuf # <<>> /\ f.type = "DATA"
      /\ "WAITING_END_HEADERS" \notin flags
  BY Zenon DEF handle_data_frame, Handling, At
<1>2. CASE Refuse
  BY <1>1, <1>2, RefuseClass
<1>3. CASE ~bad /\ http2_stream_error(f.sid)
  <2>1. f.sid \in StreamIds /\ f.sid <= stream_id
    <3>1. f.sid # 0 /\ ~(f.sid > last_opened_stream_id)
      BY <1>3, Zenon
    <3> QED
      BY <1>1, <3>1, Identifiers
  <2>2. f.type \in {"HEADERS", "DATA", "WINDOW_UPDATE"}
    BY <1>1
  <2> QED
    BY <1>1, <1>3, <2>1, <2>2, StreamErrorClass, Zenon
<1>4. CASE /\ ~old
           /\ stream_state' = IF "END_STREAM" \in f.flags THEN "HALF_CLOSED_REMOTE"
                              ELSE stream_state
           /\ \/ /\ Waiting(fl)
                 /\ flags' = fl
                 /\ Continue
                 /\ UNCHANGED <<state, sockVars, writeVars, window_size, initial_window_size,
                                buf, buflen>>
              \/ /\ ~Waiting(fl)
                 /\ handle_end_stream(fl, buflen, buf, stream_id, Continue)
           /\ UNCHANGED <<last_opened_stream_id, stream_id, stream_window, bufptr, granted,
                          notHandled>>
  <2>1. written' = written /\ peer' = peer /\ stream_state = "OPEN"
        /\ stream_state # "CLOSED"
        /\ UNCHANGED <<stream_id, stream_window, granted>>
    BY <1>4 DEF notHandled, callVars, peerVars
  <2>2. fl = flags \ Completed(f)
    BY <1>1 DEF Completed
  <2> HIDE DEF fl
  <2>3. inbuf' = Tail(inbuf) /\ phase' = "receiving"
    BY <1>4, Zenon DEF Continue, handle_end_stream, EndStreamFails, EndStreamAnswers
  <2>4. Takes /\ phase' # "update_first" /\ Between
    BY <1>1, <2>1, <2>3 DEF Takes, Between
  <2>5. ASSUME Asks(f, flags, stream_state, stream_id) PROVE Class
    BY <1>1, <2>1, <2>4, <2>5, Zenon DEF Further, Class
  <2>6. CASE /\ Waiting(fl)
             /\ flags' = fl
             /\ UNCHANGED <<state, sockVars, writeVars, window_size, initial_window_size,
                            buf, buflen>>
    <3>1. Asks(f, flags, stream_state, stream_id)
      BY <1>1, <1>4, <2>1, <2>2, <2>4, <2>6 DEF Asks, sockVars
    <3> QED
      BY <2>5, <3>1, SMTT(30)
  <2>7. CASE ~Waiting(fl) /\ EndStreamAnswers(fl, buf, stream_id)
    <3>1. state' = state /\ read_cb' = read_cb /\ flags' = fl
      BY <2>7 DEF EndStreamAnswers, sockVars
    <3>2. PICK n \in Bodies :
            /\ buflen' = n /\ buf' = "body"
            /\ event_write(queue, 0, Frame("HEADERS", stream_id, n = 0, 0),
                           "on_stream_send_complete")
      BY <2>7, Zenon DEF EndStreamAnswers
    <3>3. ~Waiting(flags')
      BY <2>7, <3>1, Zenon
    <3>4. Asks(f, flags, stream_state, stream_id)
      BY <1>4, <2>1, <2>2, <2>4, <3>1, <3>2, <3>3, Zenon DEF Asks
    <3> QED
      BY <2>5, <3>4
  <2>8. CASE EndStreamFails(buflen, buf, Continue)
    <3>1. http2_error(queue, 0)
      BY <2>8, Zenon DEF EndStreamFails
    <3>2. Ends
      BY <2>1, <2>3, <2>4, <3>1, ErrorSays DEF Ends
    <3> QED
      BY <2>4, <3>2 DEF Class
  <2> QED
    BY <1>4, <2>6, <2>7, <2>8, Zenon DEF handle_end_stream
<1> QED
  BY <1>2, <1>3, <1>4, Zenon DEF handle_data_frame

\* handle_headers_frame.
LEMMA HeadersClass ==
  ASSUME IInv, Receiving, handle_headers_frame
  PROVE  Class
<1> DEFINE f == Head(inbuf)
<1>1. /\ phase = "receiving" /\ failed = "none" /\ inbuf # <<>> /\ f.type = "HEADERS"
  BY HandlingTakes, Zenon DEF handle_headers_frame
<1>2. CASE Refuse
  BY <1>1, <1>2, RefuseClass
<1>3. CASE /\ state = "CLOSING" /\ Continue
           /\ UNCHANGED <<ctxVars, streamVars, sockVars, writeVars, granted, notHandled>>
  <2>1. Says
    BY <1>3, SaysNothing
  <2>2. read_cb' \in {"none", "receiving"} /\ state' = "CLOSING" /\ phase' = "receiving"
    BY <1>1, <1>3 DEF Receiving, sockVars, ctxVars, Continue
  <2>3. Ends
    BY <1>3, <2>1, <2>2 DEF Ends, Continue, streamVars, notHandled, peerVars
  <2> QED
    BY <1>1, <1>3, <2>2, <2>3 DEF Class, Between, notHandled, callVars
<1>4. f \in Frames /\ f.type # "DATA" /\ buflen \in 0 .. StreamBufSize
      /\ 0 \in 0 .. StreamBufSize
  <2>1. f \in Frames
    BY <1>1, HeadFrame, Zenon DEF IInv
  <2>2. buflen \in 0 .. StreamBufSize
    BY Zenon DEF IInv, StreamTypes
  <2>3. 0 \in 0 .. StreamBufSize
    BY SizesAssumption
  <2> QED BY <1>1, <2>1, <2>2, <2>3, Zenon
<1>5. CASE ~HeadersRefused(f) /\ f.sid = last_opened_stream_id
  <2>1. f.sid = stream_id /\ f.sid \in StreamIds /\ f.sid <= stream_id
        /\ stream_state = "OPEN"
    BY <1>1, <1>5, Identifiers DEF HeadersRefused
  <2>2. CASE http2_stream_error(f.sid)
    <3>1. f.type \in {"HEADERS", "DATA", "WINDOW_UPDATE"}
      BY <1>1
    <3> QED
      BY <1>1, <2>1, <2>2, <3>1, StreamErrorClass, Zenon
  <2>3. CASE /\ handle_header_block(
                  f, flags \cup {"WAITING_TRAILERS", "WAITING_END_HEADERS"},
                  stream_state, buflen, buf, stream_id)
             /\ UNCHANGED <<last_opened_stream_id, stream_id, stream_window, bufptr, granted,
                            notHandled>>
    <3> DEFINE fl == flags \cup {"WAITING_TRAILERS", "WAITING_END_HEADERS"}
    <3> HIDE DEF fl
    <3>1. /\ Between /\ phase' # "update_first"
          /\ \/ /\ Says /\ state' = "CLOSING" /\ read_cb' = "none"
                /\ stream_state' = "CLOSED" => stream_state = "CLOSED"
                /\ inbuf' = <<>>
             \/ Asks(f, fl, stream_state, stream_id)
      BY <1>1, <1>4, <2>3, BlockAsks, Zenon DEF fl
    <3>2. ASSUME Asks(f, fl, stream_state, stream_id) PROVE Trailers(f)
      BY <1>1, <2>1, <2>3, <3>2, Zenon DEF Trailers, fl
    <3>3. ASSUME /\ Says /\ state' = "CLOSING" /\ read_cb' = "none" /\ inbuf' = <<>>
          PROVE  Ends
      BY <2>1, <2>3, <3>1, <3>3 DEF Ends, notHandled, peerVars
    <3> QED
      BY <3>1, <3>2, <3>3, Zenon DEF Class
  <2>4. ~(f.sid > last_opened_stream_id)
    BY <1>1, <1>5, Identifiers
  <2> QED
    BY <1>2, <1>3, <1>5, <2>2, <2>3, <2>4, Zenon DEF handle_headers_frame
<1>6. CASE /\ ~HeadersRefused(f) /\ f.sid > last_opened_stream_id
           /\ OpenStream(f.sid)
           /\ \/ http2_error(queue, 0) /\ Discard
              \/ handle_header_block(
                   f, flags \cup {"WAITING_END_HEADERS", "WAITING_END_STREAM"},
                   "OPEN", 0, "empty", f.sid)
           /\ UNCHANGED notHandled
  <2> DEFINE fl == flags \cup {"WAITING_END_HEADERS", "WAITING_END_STREAM"}
  <2> HIDE DEF fl
  <2>1. f.sid > stream_id /\ stream_state = "CLOSED" /\ peer' = peer /\ written' = written
    BY <1>6, Identifiers DEF HeadersRefused, notHandled, peerVars, callVars
  <2>2. ASSUME Says, state' = "CLOSING", read_cb' = "none", phase' # "update_first",
               inbuf' = <<>>
        PROVE  OpensAndEnds(f)
    BY <1>1, <1>6, <2>1, <2>2, Zenon DEF OpensAndEnds
  <2>3. CASE http2_error(queue, 0) /\ Discard
    <3>1. phase' = "close" /\ inbuf' = <<>> /\ Between
      BY <1>1, <2>1, <2>3 DEF Discard, Between
    <3> QED
      BY <2>2, <2>3, <3>1, ErrorSays DEF Class
  <2>4. CASE handle_header_block(f, fl, "OPEN", 0, "empty", f.sid)
    <3>1. /\ Between /\ phase' # "update_first"
          /\ \/ /\ Says /\ state' = "CLOSING" /\ read_cb' = "none"
                /\ inbuf' = <<>>
             \/ Asks(f, fl, "OPEN", f.sid)
      BY <1>1, <1>4, <1>6, <2>4, BlockAsks, Zenon
    <3>2. ASSUME Asks(f, fl, "OPEN", f.sid) PROVE Opening(f)
      BY <1>1, <1>6, <2>1, <3>2, Zenon DEF Opening, fl
    <3> QED
      BY <2>2, <3>1, <3>2, Zenon DEF Class
  <2> QED
    BY <1>6, <2>3, <2>4, Zenon DEF fl
<1> QED
  BY <1>2, <1>3, <1>5, <1>6, Zenon DEF handle_headers_frame

\* All of them.
LEMMA Classified ==
  ASSUME IInv, Receiving, Receive \/ on_settings_timeout \/ http2_close_gracefully
  PROVE  Class
  BY PrefaceClass, FirstSettingsClass, ReceivingClass, SettingsPingClass, UpdateClass,
     UpdateErrorClass, UpdateEndClass, GoawayClass, ResetClass, WindowUpdateClass,
     TimerClass, ContinuationClass, DataClass, HeadersClass, Zenon DEF Receive

----------------------------------------------------------------------------
(* What event_write does to the queue *)

\* A frame is queued, whole or cut.
Sent(q, fr, cb) ==
  /\ \E n \in Nat \ {0} :
       /\ queue' = Append(q, [cb |-> cb, bytes |-> n, kind |-> fr.kind, sid |-> fr.sid,
                              es |-> fr.es])
       /\ wlen' = wlen + n
  /\ resp' = IF fr.sid \in StreamIds
             THEN [resp EXCEPT ![fr.sid] = Follow(@, fr)] ELSE resp

\* Nothing is queued.
Unsent(q) == queue' = q /\ wlen' = wlen /\ resp' = resp

\* event_write fails, drops the frame or queues it (event.c:747-790).
LEMMA WriteEffect ==
  ASSUME IInv, NEW q, NEW rel, NEW fr \in SentFrames, NEW cb,
         event_write(q, rel, fr, cb)
  PROVE  \/ failed' # "none"
         \/ Unsent(q) /\ lost' # {}
         \/ Sent(q, fr, cb) /\ (lost' = {} => lost = {})
<1> DEFINE n == Min(IF wopen THEN WriteSize - wlen ELSE 0, fr.size)
<1>1. n \in Int
  <2>1. wlen \in Int /\ WriteSize \in Int
    <3>1. wlen \in 0 .. WriteSize
      BY Zenon DEF IInv, Written, WriteTypes
    <3> QED
      BY <3>1, Sizes
  <2>2. fr.size \in Int
    BY DEF SentFrames
  <2> QED
    BY <2>1, <2>2 DEF Min
<1>2. CASE failed' = "event_write: state" \/ failed' = "event_write: op"
  BY <1>2, Zenon
<1>3. CASE queue' = q /\ lost' = lost \cup {fr.kind} /\ UNCHANGED <<wlen, resp, failed>>
  BY <1>3 DEF Unsent
<1>4. CASE /\ n > 0
           /\ queue' = Append(q, [cb |-> cb, bytes |-> n, kind |-> fr.kind, sid |-> fr.sid,
                                  es |-> fr.es])
           /\ wlen' = wlen + n
           /\ lost' = IF n < fr.size THEN lost \cup {fr.kind} ELSE lost
           /\ resp' = IF fr.sid \in StreamIds
                      THEN [resp EXCEPT ![fr.sid] = Follow(@, fr)] ELSE resp
  <2>1. n \in Nat \ {0}
    BY <1>1, <1>4
  <2> HIDE DEF n
  <2> QED
    BY <1>4, <2>1, Zenon DEF Sent
<1> QED
  BY <1>2, <1>3, <1>4, Zenon DEF event_write

\* A frame about the connection is no part of an answer.
LEMMA SaysEffect ==
  ASSUME IInv, Says
  PROVE  \/ failed' # "none"
         \/ /\ resp' = resp /\ (lost' = {} => lost = {})
            /\ \/ queue' = queue /\ wlen' = wlen
               \/ \E op \in Op : /\ queue' = Append(queue, op) /\ wlen' = wlen + op.bytes
                                 /\ op.cb # "on_stream_send_complete" /\ op.sid = 0
<1>1. CASE NoWrite(queue, 0)
  BY <1>1, Zenon DEF NoWrite
<1>2. ASSUME NEW kind \in SentKinds, NEW cb \in Callbacks \ {"on_stream_send_complete"},
             event_write(queue, 0, Frame(kind, 0, FALSE, 0), cb)
      PROVE  \/ failed' # "none"
             \/ /\ resp' = resp /\ (lost' = {} => lost = {})
                /\ \/ queue' = queue /\ wlen' = wlen
                   \/ \E op \in Op : /\ queue' = Append(queue, op)
                                     /\ wlen' = wlen + op.bytes
                                     /\ op.cb # "on_stream_send_complete" /\ op.sid = 0
  <2> DEFINE fr == Frame(kind, 0, FALSE, 0)
  <2>1. fr \in SentFrames /\ fr.kind = kind /\ fr.sid = 0 /\ fr.es = FALSE
    <3>1. fr \in SentFrames
      BY FrameType, Zenon
    <3> QED
      BY <3>1 DEF Frame
  <2>2. 0 \notin StreamIds
    BY PeerAssumption, Zenon
  <2> HIDE DEF fr
  <2>3. CASE Unsent(queue) /\ lost' # {}
    BY <2>3, Zenon DEF Unsent
  <2>4. CASE Sent(queue, fr, cb) /\ (lost' = {} => lost = {})
    <3>1. PICK n \in Nat \ {0} :
            /\ queue' = Append(queue, [cb |-> cb, bytes |-> n, kind |-> fr.kind,
                                       sid |-> fr.sid, es |-> fr.es])
            /\ wlen' = wlen + n
      BY <2>4, Zenon DEF Sent
    <3> DEFINE op == [cb |-> cb, bytes |-> n, kind |-> fr.kind, sid |-> fr.sid,
                      es |-> fr.es]
    <3>2. op \in Op /\ op.bytes = n /\ op.cb # "on_stream_send_complete" /\ op.sid = 0
      BY <2>1, Zenon DEF Op
    <3>3. resp' = resp
      BY <2>1, <2>2, <2>4, Zenon DEF Sent
    <3> HIDE DEF op
    <3>4. queue' = Append(queue, op) /\ wlen' = wlen + op.bytes
      BY <3>1, <3>2 DEF op
    <3> QED
      BY <2>4, <3>2, <3>3, <3>4, Zenon
  <2>5. event_write(queue, 0, fr, cb)
    BY <1>2, Zenon DEF fr
  <2> QED
    BY <2>1, <2>3, <2>4, <2>5, WriteEffect, Zenon
<1> QED
  BY <1>1, <1>2, Zenon DEF Says

\* http2_continue_send sends a piece of the response that fits, or nothing;
\* the window of the stream pays for what leaves the buffer.
LEMMA SendEffect ==
  ASSUME IInv, NEW q, NEW rel, NEW sw \in Int, http2_continue_send(q, rel, sw)
  PROVE  /\ stream_window' = sw - (buflen - buflen') /\ buflen' \in Int
         /\ \/ failed' # "none"
            \/ Unsent(q) /\ lost' # {}
            \/ Unsent(q) /\ UNCHANGED <<lost, buf, buflen>>
            \/ \E len \in 1 .. buflen :
                 /\ Frame("DATA", stream_id, buflen = len, len) \in SentFrames
                 /\ Sent(q, Frame("DATA", stream_id, buflen = len, len),
                         "on_stream_send_complete")
                 /\ lost' = {} => lost = {}
                 /\ buflen' = buflen - len
                 /\ buf' = IF buf = "block" THEN "cut" ELSE buf
<1> DEFINE len == Min(Min(buflen, Min(window_size, sw)), WriteSize)
           fr  == Frame("DATA", stream_id, buflen = len, len)
<1>1. /\ buflen \in Nat /\ window_size \in Nat /\ WriteSize \in Nat
      /\ stream_id \in StreamIds \cup {0}
  BY SizesAssumption DEF IInv, StreamTypes, CtxTypes
<1>2. len \in Int /\ len <= buflen
  BY <1>1, SendBounds, SMTT(30)
<1>3. \/ /\ len <= 0 /\ NoWrite(q, rel) /\ stream_window' = sw
         /\ UNCHANGED <<window_size, buf, buflen, bufptr>>
      \/ /\ len > 0
         /\ event_write(q, rel, fr, "on_stream_send_complete")
         /\ buflen' = buflen - len
         /\ buf' = IF buf = "block" THEN "cut" ELSE buf
         /\ stream_window' = sw - len
  BY Zenon DEF http2_continue_send
<1> HIDE DEF len
<1>4. CASE /\ NoWrite(q, rel) /\ stream_window' = sw
           /\ UNCHANGED <<window_size, buf, buflen, bufptr>>
  <2>1. stream_window' = sw - (buflen - buflen') /\ buflen' \in Int
    BY <1>1, <1>4
  <2>2. Unsent(q) /\ UNCHANGED <<lost, buf, buflen>>
    BY <1>4, Zenon DEF NoWrite, Unsent
  <2> QED
    BY <2>1, <2>2
<1>5. CASE /\ len > 0
           /\ event_write(q, rel, fr, "on_stream_send_complete")
           /\ buflen' = buflen - len
           /\ buf' = IF buf = "block" THEN "cut" ELSE buf
           /\ stream_window' = sw - len
  <2>1. stream_window' = sw - (buflen - buflen') /\ buflen' \in Int /\ len \in 1 .. buflen
    BY <1>1, <1>2, <1>5
  <2>2. fr \in SentFrames
    <3>1. len \in Nat /\ (buflen = len) \in BOOLEAN
      BY <1>2, <1>5
    <3> QED
      BY <1>1, <3>1, FrameType, Zenon DEF SentKinds
  <2>3. \/ failed' # "none"
        \/ Unsent(q) /\ lost' # {}
        \/ Sent(q, fr, "on_stream_send_complete") /\ (lost' = {} => lost = {})
    BY <1>5, <2>2, WriteEffect, Zenon
  <2> QED
    BY <1>5, <2>1, <2>2, <2>3, Zenon
<1> QED
  BY <1>3, <1>4, <1>5, Zenon

\* The window of the stream is a number.
LEMMA StreamWindow ==
  ASSUME IInv
  PROVE  stream_window \in Int /\ buflen \in Nat /\ MaxWindow \in Nat
  BY SizesAssumption DEF IInv, StreamTypes

\* The read callback is the one that runs.
LEMMA ReceivingNext ==
  ASSUME IInv, Receiving, [Next]_vars
  PROVE  Receiving'
<1> SUFFICES ASSUME failed' = "none", phase' \in {"receiving", "update"}
             PROVE  read_cb' \in {"receiving", "none"}
  BY DEF Receiving
<1>1. CASE Class
  <2>1. failed = "none" /\ phase \in {"receiving", "update"}
    BY <1>1, Zenon DEF Class, Between
  <2>2. read_cb \in {"receiving", "none"}
    BY <2>1 DEF Receiving
  <2>3. read_cb' \in {read_cb, "receiving", "none"} \/ Greets \/ Starts
    BY <1>1, Zenon DEF Class, Ends, OpensAndEnds, Calm, Readies, Resets, Enlarges, Opening,
                       Further, Trailers, Asks
  <2>4. ~Greets /\ ~Starts
    BY <2>1 DEF Greets, Starts
  <2> QED
    BY <2>2, <2>3, <2>4
<1>2. CASE Receive \/ on_settings_timeout \/ http2_close_gracefully
  BY <1>1, <1>2, Classified
<1>3. CASE \/ http2_new_client \/ event_loop_close \/ event_loop_timers
           \/ event_sock_read_end \/ event_sock_read_none
           \/ event_sock_write_none \/ event_sock_write_error
           \/ event_sock_handle_write \/ event_sock_handle_write_end
           \/ \E f \in Frames : event_sock_read(f)
           \/ \E n \in 1 .. wlen : event_sock_write(n)
  <2>1. CASE http2_new_client \/ event_loop_close \/ event_loop_timers
    BY <2>1 DEF http2_new_client, event_loop_close, event_loop_timers, At
  <2>2. CASE \/ event_sock_read_end \/ event_sock_read_none
             \/ \E f \in Frames : event_sock_read(f)
    BY <2>2 DEF event_sock_read_end, event_sock_read_none, event_sock_read, At
  <2>3. CASE \/ event_sock_write_none \/ event_sock_write_error
             \/ \E n \in 1 .. wlen : event_sock_write(n)
    BY <2>3 DEF event_sock_write_none, event_sock_write_error, event_sock_write, At
  <2>4. CASE event_sock_handle_write
    BY <2>4 DEF event_sock_handle_write, At
  <2>5. CASE event_sock_handle_write_end
    BY <2>5 DEF event_sock_handle_write_end, At
  <2> QED
    BY <1>3, <2>1, <2>2, <2>3, <2>4, <2>5, Zenon
<1>4. CASE event_loop_pending
  BY <1>4 DEF event_loop_pending, sockVars, IInv, SockTypes, ReadCallbacks
<1>5. CASE UNCHANGED vars
  BY <1>5 DEF vars, sockVars, writeVars, Receiving
<1> QED
  BY <1>2, <1>3, <1>4, <1>5, Zenon DEF Next, Loop

\* The invariants of this module that hold for any peer.
LEMMA ReceivingInvariant == Spec => [](IInv /\ Receiving)
<1>1. Init => Receiving
  BY DEF Init, Receiving
<1>2. IInv /\ Receiving /\ [Next]_vars => Receiving'
  BY ReceivingNext
<1> QED
  BY <1>1, <1>2, Invariant, PTL DEF Spec

----------------------------------------------------------------------------
(* Streams and answers *)

\* Nothing has gone wrong that the code does not look at: no assertion, no
\* frame lost, no answer out of order, and no trailers, whose flag is never
\* cleared (WAITING_TRAILERS).
Sound ==
  failed = "none" /\ lost = {} /\ AnswersInOrder /\ "WAITING_TRAILERS" \notin flags

\* A stream that is yet to be opened has not been answered.
Later == \A s \in StreamIds : s > stream_id => resp[s] = "none"

\* The request of the stream is being received.
Asked ==
  /\ Waiting(flags) /\ buf \in {"block", "cut"} /\ buflen > 0
  /\ resp[stream_id] = "none"
  /\ stream_state = "OPEN" <=> "WAITING_END_STREAM" \in flags

\* Its response is being sent, and the buffer holds what is left of it.
Answered ==
  /\ ~Waiting(flags) /\ buf = "body" /\ stream_state = "HALF_CLOSED_REMOTE"
  /\ resp[stream_id] = IF buflen = 0 THEN "ended" ELSE "headers"

\* The stream is closed, or the buffer and the flags say how far it is.
Progress ==
  IF stream_state = "CLOSED" THEN resp[stream_id] \in {"ended", "reset"}
  ELSE Asked \/ Answered

\* No stream is opened before the settings have been exchanged.
Unopened ==
  /\ read_cb \in {"waiting_for_preface", "waiting_for_settings"} \/ phase = "update_first"
       => stream_id = 0
  /\ stream_id = 0 => stream_state = "CLOSED"

\* The inductive invariant about streams.
KInv ==
  failed = "none" =>
    Later /\ Unopened /\ (Sound /\ state = "READY" /\ stream_id # 0 => Progress)

\* The answer of a stream is only ever changed up to the stream in hand.
LEMMA LaterKeeps ==
  ASSUME IInv, Later, stream_id' \in Nat, stream_id <= stream_id',
         \A s \in StreamIds : s > stream_id' => resp'[s] = resp[s]
  PROVE  Later'
<1>1. stream_id \in Nat /\ \A s \in StreamIds : s \in Nat
  BY Identifiers
<1>2. PICK a \in Nat, b \in Nat : a = stream_id /\ b = stream_id'
  BY <1>1, Zenon
<1>3. a <= b
  BY <1>2, Zenon
<1>4. \A s \in Nat : s > b => s > a
  BY <1>3
<1> QED
  BY <1>1, <1>2, <1>4, Zenon DEF Later

\* A step that leaves the connection out of use.
LEMMA OverKInv ==
  ASSUME Later', state' # "READY", Unopened'
  PROVE  KInv'
  BY DEF KInv

\* A step that leaves the stream and its answer alone.
LEMMA QuietKInv ==
  ASSUME KInv, failed = "none", lost' = {} => lost = {},
         UNCHANGED <<stream_id, stream_state, buf, buflen, resp>>,
         flags' \cap RequestFlags = flags \cap RequestFlags,
         state' = "READY" => state = "READY" \/ stream_id = 0,
         Unopened'
  PROVE  KInv'
<1>1. Later'
  BY DEF KInv, Later
<1>2. ASSUME Sound', state' = "READY", stream_id' # 0 PROVE Progress'
  <2>1. /\ "WAITING_TRAILERS" \in flags <=> "WAITING_TRAILERS" \in flags'
        /\ "WAITING_END_STREAM" \in flags <=> "WAITING_END_STREAM" \in flags'
        /\ Waiting(flags) <=> Waiting(flags')
    BY DEF RequestFlags, Waiting
  <2>2. Sound /\ state = "READY" /\ stream_id # 0
    BY <1>2, <2>1 DEF Sound, AnswersInOrder
  <2>3. Progress
    BY <2>2 DEF KInv
  <2>4. Asked => Asked'
    BY <2>1, Zenon DEF Asked
  <2>5. Answered => Answered'
    BY <2>1, Zenon DEF Answered
  <2> QED
    BY <2>3, <2>4, <2>5, Zenon DEF Progress
<1> QED
  BY <1>1, <1>2, Zenon DEF KInv

\* What follows a broken answer does not mend it.
LEMMA BrokenStays ==
  ASSUME NEW fr
  PROVE  Follow("broken", fr) = "broken"
  BY SMTT(30) DEF Follow

\* event_write breaks an answer or continues it, but mends none.
LEMMA SentKeeps ==
  ASSUME IInv, NEW q, NEW fr \in SentFrames, NEW cb, Sent(q, fr, cb)
  PROVE  /\ AnswersInOrder' => AnswersInOrder
         /\ \A s \in StreamIds : s # fr.sid => resp'[s] = resp[s]
         /\ fr.sid \in StreamIds => resp'[fr.sid] = Follow(resp[fr.sid], fr)
<1>1. resp \in [StreamIds -> Answers]
  BY Zenon DEF IInv, Written, WriteTypes
<1>2. resp' = IF fr.sid \in StreamIds
              THEN [resp EXCEPT ![fr.sid] = Follow(@, fr)] ELSE resp
  BY Zenon DEF Sent
<1>3. \A s \in StreamIds : s # fr.sid => resp'[s] = resp[s]
  BY <1>1, <1>2
<1>4. fr.sid \in StreamIds => resp'[fr.sid] = Follow(resp[fr.sid], fr)
  BY <1>1, <1>2
<1>5. AnswersInOrder' => AnswersInOrder
  BY <1>3, <1>4, BrokenStays, Zenon DEF AnswersInOrder
<1> QED
  BY <1>3, <1>4, <1>5

\* A DATA frame goes on with an answer whose HEADERS were sent, or breaks it.
LEMMA DataFollows ==
  ASSUME NEW r, NEW fr, fr.kind = "DATA", Follow(r, fr) # "broken"
  PROVE  r = "headers" /\ Follow(r, fr) = IF fr.es THEN "ended" ELSE "headers"
  BY DEF Follow

\* http2_continue_send: the answer is complete when the buffer is empty.
LEMMA SendKInv ==
  ASSUME IInv, KInv, failed = "none",
         NEW q, NEW rel, NEW sw \in Int, http2_continue_send(q, rel, sw),
         UNCHANGED <<state, flags, read_cb, stream_id, stream_state>>,
         phase' = "update_first" => phase = "update_first"
  PROVE  KInv'
<1> SUFFICES ASSUME failed' = "none" PROVE KInv'
  BY DEF KInv
<1>1. Later /\ Unopened' /\ stream_id \in Nat /\ stream_id <= stream_id'
  BY Identifiers DEF KInv, Unopened
<1>2. CASE Unsent(q) /\ lost' # {}
  <2>1. Later'
    BY <1>1, <1>2, Zenon DEF Later, Unsent
  <2> QED
    BY <1>1, <1>2, <2>1 DEF KInv, Sound
<1>3. CASE Unsent(q) /\ UNCHANGED <<lost, buf, buflen>>
  <2>1. resp' = resp
    BY <1>3, Zenon DEF Unsent
  <2> QED
    BY <1>1, <1>3, <2>1, QuietKInv
<1>4. ASSUME NEW len \in 1 .. buflen,
             Frame("DATA", stream_id, buflen = len, len) \in SentFrames,
             Sent(q, Frame("DATA", stream_id, buflen = len, len),
                  "on_stream_send_complete"),
             lost' = {} => lost = {}, buflen' = buflen - len,
             buf' = IF buf = "block" THEN "cut" ELSE buf
      PROVE  KInv'
  <2> DEFINE fr == Frame("DATA", stream_id, buflen = len, len)
  <2>1. fr.kind = "DATA" /\ fr.sid = stream_id /\ (fr.es <=> buflen = len)
    BY Zenon DEF Frame
  <2>2. fr \in SentFrames /\ Sent(q, fr, "on_stream_send_complete")
    BY <1>4
  <2> HIDE DEF fr
  <2>3. /\ AnswersInOrder' => AnswersInOrder
        /\ \A s \in StreamIds : s # stream_id => resp'[s] = resp[s]
        /\ stream_id \in StreamIds => resp'[stream_id] = Follow(resp[stream_id], fr)
    BY <2>1, <2>2, SentKeeps, Zenon
  <2>4. Later'
    <3>1. \A s \in StreamIds : s > stream_id' => resp'[s] = resp[s]
      <4>1. \A s \in StreamIds : s > stream_id => s # stream_id
        BY <1>1
      <4> QED
        BY <2>3, <4>1, Zenon
    <3> QED
      BY <1>1, <3>1, LaterKeeps
  <2>5. ASSUME Sound', state' = "READY", stream_id' # 0 PROVE Progress'
    <3>1. stream_id \in StreamIds /\ AnswersInOrder' /\ AnswersInOrder
      BY <2>3, <2>5, Identifiers, SMTT(30) DEF Sound
    <3>2. Progress
      BY <1>4, <2>5, <3>1 DEF KInv, Sound
    <3>3. Follow(resp[stream_id], fr) # "broken"
      BY <2>3, <3>1, Zenon DEF AnswersInOrder
    <3>4. /\ resp[stream_id] = "headers"
          /\ Follow(resp[stream_id], fr) = IF fr.es THEN "ended" ELSE "headers"
      BY <2>1, <3>3, DataFollows, Zenon
    <3>5. Answered /\ stream_state # "CLOSED"
      BY <3>2, <3>4 DEF Progress, Asked
    <3>6. buflen' = 0 <=> buflen = len
      BY <1>4, StreamWindow
    <3>7. resp'[stream_id] = IF buflen' = 0 THEN "ended" ELSE "headers"
      BY <2>1, <2>3, <3>1, <3>4, <3>6, Zenon
    <3>8. Answered'
      BY <1>4, <3>5, <3>7 DEF Answered
    <3> QED
      BY <3>5, <3>8, SMTT(30) DEF Progress
  <2> QED
    BY <1>1, <2>4, <2>5, Zenon DEF KInv
<1> QED
  BY <1>2, <1>3, <1>4, SendEffect, Zenon

\* A stream that is reset is closed, and its answer is over.
LEMMA ResetsKInv ==
  ASSUME IInv, KInv, failed = "none", NEW sid \in StreamIds, Resets(sid)
  PROVE  KInv'
<1> SUFFICES ASSUME failed' = "none" PROVE KInv'
  BY DEF KInv
<1>1. /\ sid \in Nat /\ stream_id \in Nat /\ sid <= stream_id
      /\ state' = state /\ flags' = flags /\ read_cb' = read_cb /\ stream_id' = stream_id
      /\ buf' = buf /\ buflen' = buflen /\ phase' # "update_first"
      /\ stream_state' = IF sid = stream_id THEN "CLOSED" ELSE stream_state
  BY Identifiers DEF Resets, ctxVars
<1>2. Later /\ Unopened' /\ stream_id <= stream_id'
  BY <1>1 DEF KInv, Unopened
<1>3. \/ resp' = resp /\ lost' # {}
      \/ /\ AnswersInOrder' => AnswersInOrder
         /\ \A s \in StreamIds : s # sid => resp'[s] = resp[s]
         /\ resp'[sid] \in {"reset", "broken"}
         /\ lost' = {} => lost = {}
  <2>1. CASE event_write(queue, 0, Frame("RST_STREAM", sid, FALSE, 0),
                         "close_on_write_error")
    <3> DEFINE fr == Frame("RST_STREAM", sid, FALSE, 0)
    <3>1. fr.kind = "RST_STREAM" /\ fr.sid = sid
      BY DEF Frame
    <3>2. "RST_STREAM" \in SentKinds /\ sid \in StreamIds \cup {0} /\ FALSE \in BOOLEAN
          /\ 0 \in Nat
      BY DEF SentKinds
    <3>3. fr \in SentFrames
      BY <3>2, FrameType, Zenon
    <3>4. event_write(queue, 0, fr, "close_on_write_error")
      BY <2>1, Zenon
    <3> HIDE DEF fr
    <3>5. CASE Unsent(queue) /\ lost' # {}
      BY <3>5, Zenon DEF Unsent
    <3>6. CASE Sent(queue, fr, "close_on_write_error") /\ (lost' = {} => lost = {})
      <4>1. /\ AnswersInOrder' => AnswersInOrder
            /\ \A s \in StreamIds : s # sid => resp'[s] = resp[s]
            /\ resp'[sid] = Follow(resp[sid], fr)
        BY <3>1, <3>3, <3>6, SentKeeps, Zenon
      <4>2. Follow(resp[sid], fr) \in {"reset", "broken"}
        BY <3>1 DEF Follow
      <4> QED
        BY <3>6, <4>1, <4>2, Zenon
    <3> QED
      BY <3>3, <3>4, <3>5, <3>6, WriteEffect, Zenon
  <2>2. CASE /\ resp' = [resp EXCEPT ![sid] = IF @ = "broken" THEN @ ELSE "reset"]
             /\ UNCHANGED <<wlen, queue, in_use, failed, lost>>
    <3>1. resp \in [StreamIds -> Answers]
      BY Zenon DEF IInv, Written, WriteTypes
    <3>2. resp'[sid] = IF resp[sid] = "broken" THEN "broken" ELSE "reset"
      BY <2>2, <3>1
    <3>3. \A s \in StreamIds : s # sid => resp'[s] = resp[s]
      BY <2>2, <3>1
    <3>4. AnswersInOrder' => AnswersInOrder
      BY <3>2, <3>3, Zenon DEF AnswersInOrder
    <3> QED
      BY <2>2, <3>2, <3>3, <3>4
  <2> QED
    BY <2>1, <2>2, Zenon DEF Resets
<1>4. Later'
  <2>1. \A s \in StreamIds : s > stream_id => s # sid
    BY <1>1, Identifiers
  <2>2. \A s \in StreamIds : s > stream_id' => resp'[s] = resp[s]
    BY <1>1, <1>3, <2>1, Zenon
  <2> QED
    BY <1>1, <1>2, <2>2, LaterKeeps
<1>5. ASSUME Sound', state' = "READY", stream_id' # 0 PROVE Progress'
  <2>1. /\ stream_id \in StreamIds /\ lost = {} /\ AnswersInOrder /\ AnswersInOrder'
        /\ \A s \in StreamIds : s # sid => resp'[s] = resp[s]
        /\ resp'[sid] \in {"reset", "broken"}
    BY <1>1, <1>3, <1>5, Identifiers DEF Sound
  <2>2. CASE sid = stream_id
    <3>1. resp'[stream_id'] = "reset" /\ stream_state' = "CLOSED"
      BY <1>1, <2>1, <2>2 DEF AnswersInOrder
    <3> QED
      BY <3>1 DEF Progress
  <2>3. CASE sid # stream_id
    <3>1. resp'[stream_id'] = resp[stream_id] /\ stream_state' = stream_state
      BY <1>1, <2>1, <2>3, Zenon
    <3>2. Progress
      BY <1>1, <1>5, <2>1 DEF KInv, Sound
    <3>3. (Asked => Asked') /\ (Answered => Answered')
      BY <1>1, <3>1, Zenon DEF Asked, Answered
    <3> QED
      BY <3>1, <3>2, <3>3, Zenon DEF Progress
  <2> QED
    BY <2>2, <2>3
<1> QED
  BY <1>2, <1>4, <1>5, Zenon DEF KInv

\* A part of a request, or its last part and the HEADERS of the answer: the
\* stream was not answered before.
LEMMA AsksKInv ==
  ASSUME IInv, KInv, failed = "none",
         NEW f, NEW fl, NEW st, Asks(f, fl, st, stream_id'),
         stream_id' \in StreamIds, stream_id <= stream_id',
         read_cb \in {"receiving", "none"},
         AnswersInOrder /\ lost = {} /\ "WAITING_TRAILERS" \notin fl /\ state = "READY" =>
           /\ resp[stream_id'] = "none"
           /\ st \in {"OPEN", "HALF_CLOSED_REMOTE"}
           /\ st = "OPEN" <=> "WAITING_END_STREAM" \in fl
           /\ f.type = "DATA" => buf \in {"block", "cut"} /\ buflen > 0
  PROVE  KInv'
<1> SUFFICES ASSUME failed' = "none" PROVE KInv'
  BY DEF KInv
<1> DEFINE id == stream_id'
<1>1. /\ state' = state /\ read_cb' = read_cb /\ phase' # "update_first"
      /\ flags' = fl \ Completed(f)
      /\ stream_state' = IF "END_STREAM" \in f.flags THEN "HALF_CLOSED_REMOTE" ELSE st
  BY Zenon DEF Asks
<1>2. Later /\ Unopened' /\ id \in Nat /\ id # 0
  BY <1>1, Identifiers DEF KInv, Unopened
<1>3. /\ "WAITING_TRAILERS" \in flags' <=> "WAITING_TRAILERS" \in fl
      /\ "WAITING_END_STREAM" \in flags'
           <=> "WAITING_END_STREAM" \in fl /\ "END_STREAM" \notin f.flags
  BY <1>1 DEF Completed
<1>4. CASE /\ Waiting(flags') /\ UNCHANGED writeVars
           /\ \/ f.type = "DATA" /\ UNCHANGED <<buf, buflen>>
              \/ f.type # "DATA" /\ buf' \in {"block", "cut"} /\ buflen' > 0
              \/ "WAITING_TRAILERS" \in fl
  <2>1. resp' = resp /\ lost' = lost
    BY <1>4 DEF writeVars
  <2>2. Later'
    BY <1>2, <2>1, LaterKeeps, SMTT(30)
  <2>3. ASSUME Sound', state' = "READY" PROVE Progress'
    <3>1. AnswersInOrder /\ lost = {} /\ "WAITING_TRAILERS" \notin fl /\ state = "READY"
      BY <1>1, <1>3, <2>1, <2>3, SMTT(30) DEF Sound, AnswersInOrder
    <3>2. /\ resp'[stream_id'] = "none" /\ st \in {"OPEN", "HALF_CLOSED_REMOTE"}
          /\ st = "OPEN" <=> "WAITING_END_STREAM" \in fl
          /\ buf' \in {"block", "cut"} /\ buflen' > 0
      BY <1>4, <2>1, <3>1, SMTT(30)
    <3>3. stream_state' = "OPEN" <=> "WAITING_END_STREAM" \in flags'
      BY <1>1, <1>3, <3>2, SMTT(30)
    <3>4. stream_state' # "CLOSED"
      BY <1>1, <3>2
    <3> QED
      BY <1>4, <3>2, <3>3, <3>4, SMTT(30) DEF Progress, Asked
  <2> QED
    BY <1>2, <2>2, <2>3 DEF KInv
<1>5. ASSUME ~Waiting(flags'), buf' = "body", NEW n \in Bodies, buflen' = n,
             event_write(queue, 0, Frame("HEADERS", id, n = 0, 0),
                         "on_stream_send_complete")
      PROVE  KInv'
  <2> DEFINE fr == Frame("HEADERS", id, n = 0, 0)
  <2>1. fr.kind = "HEADERS" /\ fr.sid = id /\ (fr.es <=> n = 0)
    BY Zenon DEF Frame
  <2>2. "HEADERS" \in SentKinds /\ id \in StreamIds \cup {0} /\ (n = 0) \in BOOLEAN
        /\ 0 \in Nat
    BY DEF SentKinds
  <2>3. fr \in SentFrames
    BY <2>2, FrameType, Zenon
  <2>4. event_write(queue, 0, fr, "on_stream_send_complete")
    BY <1>5
  <2> HIDE DEF fr
  <2>5. CASE Unsent(queue) /\ lost' # {}
    <3>1. resp' = resp
      BY <2>5, Zenon DEF Unsent
    <3>2. Later'
      BY <1>2, <3>1, LaterKeeps
    <3> QED
      BY <1>2, <2>5, <3>2 DEF KInv, Sound
  <2>6. CASE Sent(queue, fr, "on_stream_send_complete") /\ (lost' = {} => lost = {})
    <3>1. /\ AnswersInOrder' => AnswersInOrder
          /\ \A s \in StreamIds : s # id => resp'[s] = resp[s]
          /\ resp'[id] = Follow(resp[id], fr)
      BY <2>1, <2>3, <2>6, SentKeeps, Zenon
    <3>2. Later'
      <4>1. \A s \in StreamIds : s > id => s # id
        BY <1>2
      <4>2. \A s \in StreamIds : s > id => resp'[s] = resp[s]
        BY <3>1, <4>1, Zenon
      <4> QED
        BY <1>2, <4>2, LaterKeeps
    <3>3. ASSUME Sound', state' = "READY" PROVE Progress'
      <4>1. AnswersInOrder /\ lost = {} /\ "WAITING_TRAILERS" \notin fl /\ state = "READY"
        <5>1. AnswersInOrder' /\ lost' = {} /\ "WAITING_TRAILERS" \notin flags'
          BY <3>3, Zenon DEF Sound
        <5> QED
          BY <1>1, <1>3, <2>6, <3>1, <3>3, <5>1, Zenon
      <4>2. /\ resp[id] = "none" /\ st \in {"OPEN", "HALF_CLOSED_REMOTE"}
            /\ st = "OPEN" <=> "WAITING_END_STREAM" \in fl
        BY <4>1
      <4>3. resp'[id] = IF buflen' = 0 THEN "ended" ELSE "headers"
        BY <1>5, <2>1, <3>1, <4>2, SMTT(30) DEF Follow
      <4>4. stream_state' = "HALF_CLOSED_REMOTE"
        BY <1>1, <1>3, <1>5, <4>2 DEF Waiting
      <4> QED
        BY <1>5, <4>3, <4>4, SMTT(30) DEF Progress, Answered
    <3> QED
      BY <1>2, <3>2, <3>3 DEF KInv
  <2> QED
    BY <2>3, <2>4, <2>5, <2>6, WriteEffect, Zenon
<1> QED
  BY <1>4, <1>5, Zenon DEF Asks

\* A request begins, goes on, or ends with trailers.
LEMMA RequestKInv ==
  ASSUME IInv, Receiving, KInv, failed = "none",
         \/ Opening(Head(inbuf)) \/ Further(Head(inbuf)) \/ Trailers(Head(inbuf))
  PROVE  KInv'
<1> DEFINE f == Head(inbuf)
<1>1. /\ phase = "receiving" /\ inbuf # <<>>
      /\ stream_id \in StreamIds \cup {0} /\ stream_id \in Nat
      /\ f.sid \in StreamIds \cup {0} /\ f.sid \in Nat
      /\ StreamIds \subseteq Nat \ {0}
  BY Identifiers, Zenon DEF Opening, Further, Trailers, Asks, Takes
<1>2. read_cb \in {"receiving", "none"}
  BY <1>1 DEF Receiving
<1>3. CASE Opening(f)
  <2> DEFINE fl == flags \cup {"WAITING_END_HEADERS", "WAITING_END_STREAM"}
  <2>1. f.sid > stream_id /\ f.type = "HEADERS" /\ stream_id' = f.sid
        /\ Asks(f, fl, "OPEN", stream_id')
    BY <1>3, Zenon DEF Opening, OpenStream
  <2>2. stream_id' \in StreamIds /\ stream_id <= stream_id'
    BY <1>1, <2>1
  <2>3. resp[stream_id'] = "none"
    BY <2>1, <2>2 DEF KInv, Later
  <2>4. "OPEN" = "OPEN" <=> "WAITING_END_STREAM" \in fl
    OBVIOUS
  <2> HIDE DEF fl
  <2> QED
    BY <1>2, <2>1, <2>2, <2>3, <2>4, AsksKInv
<1>5. CASE Further(f)
  <2>1. stream_id' = stream_id /\ stream_state # "CLOSED"
        /\ Asks(f, flags, stream_state, stream_id')
        /\ \/ f.type = "CONTINUATION" /\ "WAITING_END_HEADERS" \in flags
           \/ f.type = "DATA" /\ stream_state = "OPEN"
    BY <1>5, Zenon DEF Further
  <2>2. stream_id' \in StreamIds /\ stream_id <= stream_id' /\ stream_id # 0
    BY <1>1, <2>1 DEF KInv, Unopened
  <2>3. ASSUME AnswersInOrder /\ lost = {} /\ "WAITING_TRAILERS" \notin flags,
               state = "READY"
        PROVE  Asked
    <3>1. Progress
      BY <2>2, <2>3 DEF KInv, Sound
    <3> QED
      BY <2>1, <3>1 DEF Progress, Answered, Waiting
  <2>4. stream_state \in {"OPEN", "HALF_CLOSED_REMOTE"}
    BY <2>1 DEF IInv, StreamTypes
  <2> QED
    BY <1>2, <2>1, <2>2, <2>3, <2>4, AsksKInv DEF Asked
<1>6. CASE Trailers(f)
  <2> DEFINE fl == flags \cup {"WAITING_TRAILERS", "WAITING_END_HEADERS"}
  <2>1. stream_state = "OPEN" /\ stream_id' = stream_id
        /\ Asks(f, fl, stream_state, stream_id')
    BY <1>6, Zenon DEF Trailers
  <2>3. stream_id' \in StreamIds /\ stream_id <= stream_id'
    BY <1>1, <2>1 DEF KInv, Unopened
  <2>2. "WAITING_TRAILERS" \in fl
    OBVIOUS
  <2> HIDE DEF fl
  <2> QED
    BY <1>2, <2>1, <2>2, <2>3, AsksKInv
<1> QED
  BY <1>3, <1>5, <1>6

\* Every handler keeps the invariant about streams.
LEMMA ClassKInv ==
  ASSUME IInv, Receiving, KInv, Class
  PROVE  KInv'
<1> SUFFICES ASSUME failed' = "none" PROVE KInv'
  BY DEF KInv
<1>1. failed = "none" /\ Later /\ Unopened
  BY DEF Class, Between, KInv
<1>2. ASSUME Says PROVE resp' = resp /\ (lost' = {} => lost = {})
  BY <1>2, SaysEffect, Zenon
<1>3. stream_id \in Nat /\ stream_id <= stream_id
  BY Identifiers
<1>4. ASSUME resp' = resp, stream_id' = stream_id PROVE Later'
  BY <1>1, <1>4, Zenon DEF Later
<1>5. CASE Ends
  <2>1. /\ state' # "READY" /\ stream_id' = stream_id
        /\ read_cb' \notin {"waiting_for_preface", "waiting_for_settings"}
        /\ phase' # "update_first"
        /\ stream_state' # "CLOSED" => stream_state # "CLOSED"
    BY <1>5 DEF Ends
  <2>2. Later'
    BY <1>2, <1>4, <1>5, <2>1, Zenon DEF Ends
  <2> QED
    BY <1>1, <2>1, <2>2, OverKInv DEF Unopened
<1>6. CASE OpensAndEnds(Head(inbuf))
  <2> DEFINE id == Head(inbuf).sid
  <2>1. /\ state' = "CLOSING" /\ stream_id' = id /\ id > stream_id
        /\ read_cb' = "none" /\ phase' # "update_first" /\ Says
    BY <1>6, Zenon DEF OpensAndEnds, OpenStream
  <2>2. id \in Nat
    <3>1. inbuf # <<>>
      BY <1>6, Zenon DEF OpensAndEnds
    <3> QED
      BY <3>1, Identifiers, Zenon
  <2>3. stream_id <= stream_id' /\ stream_id' \in Nat /\ stream_id' # 0
    BY <1>3, <2>1, <2>2
  <2>4. Later'
    BY <1>1, <1>2, <2>1, <2>3, LaterKeeps
  <2> QED
    BY <2>1, <2>3, <2>4, OverKInv DEF Unopened
<1>7. CASE Calm
  <2>1. /\ stream_id' = stream_id /\ stream_state' = stream_state /\ read_cb' = read_cb
        /\ buf' = buf /\ buflen' = buflen /\ resp' = resp /\ (lost' = {} => lost = {})
        /\ phase' = "update_first" => phase = "update_first"
    BY <1>2, <1>7, Zenon DEF Calm
  <2>2. Unopened'
    BY <1>1, <2>1 DEF Unopened
  <2>3. CASE state' = state /\ flags' \cap RequestFlags = flags \cap RequestFlags
    BY <1>1, <2>1, <2>2, <2>3, QuietKInv
  <2>4. CASE state' = "CLOSING"
    BY <1>4, <2>1, <2>2, <2>4, OverKInv, SMTT(30)
  <2> QED
    BY <1>7, <2>3, <2>4 DEF Calm
<1>8. CASE Greets \/ Starts \/ Readies
  <2>1. /\ flags' = flags /\ UNCHANGED streamVars /\ resp' = resp /\ (lost' = {} => lost = {})
    BY <1>2, <1>8, Zenon DEF Greets, Starts, Readies, ctxVars
  <2>2. stream_id = 0
    BY <1>1, <1>8 DEF Greets, Starts, Readies, IInv, Control, Unopened
  <2>3. /\ stream_id' = stream_id /\ stream_state' = stream_state /\ buf' = buf
        /\ buflen' = buflen
    BY <2>1 DEF streamVars
  <2>4. Unopened'
    BY <1>1, <2>2, <2>3 DEF Unopened
  <2> QED
    BY <1>1, <2>1, <2>2, <2>3, <2>4, QuietKInv
<1>9. CASE Enlarges(Head(inbuf))
  <2>1. /\ inbuf # <<>> /\ http2_continue_send(queue, 0, stream_window + Head(inbuf).arg)
        /\ UNCHANGED <<state, flags, read_cb, stream_id, stream_state>>
        /\ phase' # "update_first"
    BY <1>9, Zenon DEF Enlarges, Takes
  <2>2. stream_window + Head(inbuf).arg \in Int
    BY <2>1, Identifiers, StreamWindow
  <2> QED
    BY <1>1, <2>1, <2>2, SendKInv
<1> QED
  BY <1>1, <1>5, <1>6, <1>7, <1>8, <1>9, ResetsKInv, RequestKInv, Zenon DEF Class

\* A slot given to a new client has no stream.
LEMMA NewClientKInv ==
  ASSUME http2_new_client
  PROVE  KInv'
<1>1. stream_id' = 0 /\ stream_state' = "CLOSED" /\ resp' = [s \in StreamIds |-> "none"]
      /\ state' = "WAITING_PREFACE"
  BY DEF http2_new_client, Fresh
<1>2. Later'
  BY <1>1 DEF Later
<1> QED
  BY <1>1, <1>2, OverKInv DEF Unopened

\* The steps of the loop that neither run a callback nor close the socket.
LEMMA MoveKInv ==
  ASSUME IInv, KInv,
         \/ event_loop_close \/ event_loop_timers \/ event_sock_read_none
         \/ event_sock_write_none \/ event_loop_pending \/ event_sock_handle_write_end
         \/ \E f \in Frames : event_sock_read(f)
         \/ \E n \in 1 .. wlen : event_sock_write(n)
  PROVE  KInv'
<1>1. /\ failed = "none" /\ UNCHANGED ctxVars /\ UNCHANGED streamVars /\ read_cb' = read_cb
      /\ resp' = resp /\ lost' = lost /\ phase' # "update_first"
  <2>1. CASE event_loop_close \/ event_loop_timers \/ event_sock_handle_write_end
    BY <2>1
    DEF event_loop_close, event_loop_timers, event_sock_handle_write_end, At, sockVars,
        writeVars
  <2>2. CASE event_loop_pending
    <3>1. read_cb # "update_first"
      BY DEF IInv, SockTypes, ReadCallbacks
    <3> QED
      BY <2>2, <3>1 DEF event_loop_pending, At, sockVars, writeVars
  <2>3. CASE event_sock_read_none \/ event_sock_write_none
    BY <2>3 DEF event_sock_read_none, event_sock_write_none, At, sockVars, writeVars
  <2>4. CASE \/ \E f \in Frames : event_sock_read(f)
             \/ \E n \in 1 .. wlen : event_sock_write(n)
    BY <2>4 DEF event_sock_read, event_sock_write, At, sockVars, writeVars
  <2> QED
    BY <2>1, <2>2, <2>3, <2>4, Zenon
<1>2. /\ stream_id' = stream_id /\ stream_state' = stream_state /\ buf' = buf
      /\ buflen' = buflen /\ flags' = flags /\ state' = state
  BY <1>1 DEF streamVars, ctxVars
<1>3. Unopened'
  BY <1>1, <1>2 DEF KInv, Unopened
<1> QED
  BY <1>1, <1>2, <1>3, QuietKInv, SMTT(30)

\* A socket that fails closes its connection.
LEMMA CloseKInv ==
  ASSUME KInv, event_sock_read_end \/ event_sock_write_error
  PROVE  KInv'
<1>1. failed = "none" /\ event_sock_close /\ phase' # "update_first"
  BY DEF event_sock_read_end, event_sock_write_error, At
<1>2. stream_id' = stream_id /\ resp' = resp /\ lost' = lost
  BY <1>1 DEF event_sock_close, http2_close_immediate, streamVars
<1>3. Later /\ Unopened /\ Later'
  BY <1>1, <1>2 DEF KInv, Later
<1>4. CASE http2_close_immediate
  <2>1. state' = "CLOSED" /\ stream_state' = "CLOSED" /\ read_cb' = "none"
    BY <1>4 DEF http2_close_immediate
  <2> QED
    BY <1>1, <1>3, <2>1, OverKInv DEF Unopened
<1>5. CASE UNCHANGED <<ctxVars, streamVars, sock, read_cb>>
  <2>1. /\ stream_state' = stream_state /\ buf' = buf /\ buflen' = buflen
        /\ flags' = flags /\ state' = state /\ read_cb' = read_cb
    BY <1>5 DEF streamVars, ctxVars
  <2>2. Unopened'
    BY <1>1, <1>2, <1>3, <2>1 DEF Unopened
  <2> QED
    BY <1>1, <1>2, <2>1, <2>2, QuietKInv, SMTT(30)
<1> QED
  BY <1>1, <1>4, <1>5 DEF event_sock_close

\* The callback of a write closes the stream only when its answer has ended.
LEMMA NotifyKInv ==
  ASSUME IInv, KInv, event_sock_handle_write
  PROVE  KInv'
<1> DEFINE q == Tail(queue)
<1>1. failed = "none" /\ phase' = phase /\ Later /\ Unopened
  BY Zenon DEF event_sock_handle_write, At, KInv
<1>2. CASE /\ NoWrite(q, 1)
           /\ UNCHANGED <<ctxVars, streamVars, sockVars, timer, granted>>
  <2>1. /\ stream_id' = stream_id /\ stream_state' = stream_state /\ buf' = buf
        /\ buflen' = buflen /\ flags' = flags /\ state' = state /\ read_cb' = read_cb
        /\ resp' = resp /\ lost' = lost
    BY <1>2 DEF streamVars, ctxVars, sockVars, NoWrite
  <2>2. Unopened'
    BY <1>1, <2>1 DEF Unopened
  <2> QED
    BY <1>1, <2>1, <2>2, QuietKInv
<1>3. CASE http2_close_immediate /\ NoWrite(q, 1)
  <2>1. /\ state' = "CLOSED" /\ stream_state' = "CLOSED" /\ read_cb' = "none"
        /\ resp' = resp /\ stream_id' = stream_id
    BY <1>3 DEF http2_close_immediate, NoWrite
  <2>2. Later'
    BY <1>1, <2>1 DEF Later
  <2>3. Unopened'
    BY <1>1, <2>1 DEF Unopened
  <2> QED
    BY <2>1, <2>2, <2>3, OverKInv
<1>4. CASE /\ on_settings_sent(q)
           /\ UNCHANGED <<state, last_opened_stream_id, window_size, initial_window_size,
                          streamVars, sockVars, granted>>
  <2>1. /\ stream_id' = stream_id /\ stream_state' = stream_state /\ buf' = buf
        /\ buflen' = buflen /\ state' = state /\ read_cb' = read_cb
        /\ resp' = resp /\ lost' = lost
    BY <1>4 DEF streamVars, sockVars, NoWrite, on_settings_sent
  <2>2. flags' \cap RequestFlags = flags \cap RequestFlags
    BY <1>4 DEF on_settings_sent, RequestFlags
  <2>3. Unopened'
    BY <1>1, <2>1 DEF Unopened
  <2> QED
    BY <1>1, <2>1, <2>2, <2>3, QuietKInv
<1>5. CASE /\ on_stream_send_complete(q)
           /\ UNCHANGED <<state, flags, last_opened_stream_id, initial_window_size,
                          stream_id, sockVars, timer>>
  <2>1. state' = state /\ flags' = flags /\ stream_id' = stream_id /\ read_cb' = read_cb
    BY <1>5 DEF sockVars
  <2>2. CASE buflen > 0
    <3>1. http2_continue_send(q, 1, stream_window) /\ stream_state' = stream_state
      BY <1>5, <2>2, StreamWindow DEF on_stream_send_complete
    <3> QED
      BY <1>1, <2>1, <3>1, StreamWindow, SendKInv, SMTT(30)
  <2>3. CASE buflen <= 0
    <3>1. /\ stream_state' = "CLOSED" /\ resp' = resp /\ lost' = lost /\ failed' = failed
          /\ buflen = 0
      BY <1>5, <2>3, StreamWindow DEF on_stream_send_complete, NoWrite
    <3>2. Later' /\ Unopened'
      BY <1>1, <2>1, <3>1 DEF Later, Unopened
    <3>3. ASSUME Sound', state' = "READY", stream_id' # 0 PROVE Progress'
      <4>1. Sound /\ state = "READY" /\ stream_id # 0
        BY <2>1, <3>1, <3>3 DEF Sound, AnswersInOrder
      <4>2. Progress
        BY <1>1, <4>1 DEF KInv
      <4>3. resp[stream_id] \in {"ended", "reset"}
        BY <3>1, <4>2 DEF Progress, Asked, Answered
      <4> QED
        BY <2>1, <3>1, <4>3 DEF Progress
    <3> QED
      BY <3>2, <3>3 DEF KInv
  <2> QED
    BY <2>2, <2>3, StreamWindow
<1> QED
  BY <1>2, <1>3, <1>4, <1>5, Zenon DEF event_sock_handle_write

----------------------------------------------------------------------------
(* Theorem: streams are closed when they are answered *)

\* The invariant about streams holds for any peer.
LEMMA StreamsInvariant == Spec => []KInv
<1>1. Init => KInv
  <2> SUFFICES ASSUME Init PROVE KInv
    OBVIOUS
  <2>1. /\ state = "CLOSED" /\ stream_id = 0 /\ stream_state = "CLOSED"
        /\ resp = [s \in StreamIds |-> "none"]
    BY DEF Init
  <2> QED
    BY <2>1 DEF KInv, Later, Unopened
<1>2. IInv /\ Receiving /\ KInv /\ [Next]_vars => KInv'
  <2> SUFFICES ASSUME IInv, Receiving, KInv, [Next]_vars PROVE KInv'
    OBVIOUS
  <2>1. CASE UNCHANGED vars
    <3>1. /\ UNCHANGED <<state, flags, stream_id, stream_state, buf, buflen, read_cb, phase>>
          /\ UNCHANGED <<failed, resp, lost>>
      BY <2>1, Zenon DEF vars, ctxVars, streamVars, sockVars, writeVars
    <3> QED
      BY <3>1, Zenon
      DEF KInv, Later, Unopened, Sound, AnswersInOrder, Progress, Asked, Answered
  <2> QED
    BY <2>1, Classified, ClassKInv, NewClientKInv, MoveKInv, CloseKInv, NotifyKInv, Zenon
    DEF Next, Loop
<1> QED
  BY <1>1, <1>2, ReceivingInvariant, PTL DEF Spec

\* What makes the answer of a closed stream certain, whatever the peer does:
\* no assertion failed, no frame was lost, no answer is out of order and no
\* request had trailers.
Undisturbed ==
  AssertionsHold /\ NothingLost /\ AnswersInOrder /\ "WAITING_TRAILERS" \notin flags

\* For all sizes and any peer, a connection in use that lost no frame, answered
\* in order and met no trailers has closed only streams whose answer has ended
\* or that were reset: on_stream_send_complete, http2_stream_error and
\* handle_rst_stream_frame close no stream in the middle of its answer.
THEOREM ClosedAfterAnswerThm == Spec => [](Undisturbed => ClosedAfterAnswer)
<1>1. KInv => (Undisturbed => ClosedAfterAnswer)
  BY DEF KInv, Sound, Progress, Undisturbed, AssertionsHold, NothingLost, ClosedAfterAnswer
<1> QED
  BY <1>1, StreamsInvariant, PTL
=============================================================================
