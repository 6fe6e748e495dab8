------------------------------- MODULE Http2 -------------------------------
(***************************************************************************)
(* One HTTP/2 connection of the server: the http2_context_t of http2.c,    *)
(* the event_sock_t of event.c it runs on, and the part of the event loop  *)
(* that concerns this socket.  The loop is single threaded; `phase' is the *)
(* place it has reached for this socket in one iteration:                  *)
(*   timers -> read -> write (notify) -> pending (a read callback) -> close*)
(* Nothing else runs between two steps of a callback, so a callback that   *)
(* handles a batch of frames is a sequence of steps, one per frame.        *)
(*                                                                         *)
(* Frames received are members of the constant set Frames; bytes are       *)
(* counted in abstract units (FrameSize); HPACK and the resource handlers  *)
(* are reduced to what http2.c can observe of them: a failure, or a        *)
(* response body of some length.                                           *)
(***************************************************************************)
EXTENDS Integers, Sequences, Sums

CONSTANTS
  WriteSize,      \* HTTP2_SOCK_WRITE_SIZE, capacity of the write buffer
  StreamBufSize,  \* HTTP2_STREAM_BUF_SIZE
  WriteOps,       \* write operations of the loop this socket can get
  MaxWindow,      \* 2^31 - 1
  DefaultWindow,  \* default_settings.initial_window_size
  FrameSize,      \* kind of frame sent -> its size without DATA bytes
  Bodies,         \* lengths http_handle_request may give a response
  DecodeMayFail,  \* may hpack_decode or validate_pseudoheaders refuse a whole block
  GracefulClose,  \* does the application call http2_close_gracefully
  StreamIds,      \* stream identifiers the peer may use
  Frames,         \* what the peer may send
  MaxBatch,       \* bound: frames in the read buffer
  MaxFrames,      \* bound: frames received on one connection
  Conforming,     \* does the peer follow the protocol (PeerMaySend)
  Habits          \* what a conforming peer does that it need not do

SentKinds == {"SETTINGS", "SETTINGS_ACK", "PING", "GOAWAY", "RST_STREAM",
              "HEADERS", "DATA"}
Callbacks == {"close_on_write_error", "close_on_goaway_sent",
              "on_settings_sent", "on_stream_send_complete"}
Flags == {"WAITING_SETTINGS_ACK", "WAITING_END_HEADERS", "WAITING_END_STREAM",
          "GOAWAY_RECV", "GOAWAY_SENT", "WAITING_TRAILERS"}
ReadCallbacks == {"waiting_for_preface", "waiting_for_settings", "receiving"}

\* What a frame of the peer can be.  `length' is the frame length as the code
\* tells lengths apart: right for the type, wrong for it, padding that does
\* not fit, too large to be accepted, or accepted but larger than what the
\* read buffer can ever hold.  `arg' is the window increment, the last stream
\* id of a GOAWAY or the size of a header block fragment, `items' the
\* parameters of a SETTINGS frame.
FrameTypes == {"PREFACE", "SETTINGS", "PING", "GOAWAY", "HEADERS",
               "CONTINUATION", "DATA", "WINDOW_UPDATE", "RST_STREAM",
               "PRIORITY", "PUSH_PROMISE", "UNKNOWN"}
Items == [id : {"known", "unknown", "invalid", "window"}, value : Nat]
RecvFrames ==
  [type : FrameTypes, sid : StreamIds \cup {0},
   flags : SUBSET {"ACK", "END_STREAM", "END_HEADERS"},
   length : {"ok", "wrong", "pad", "over", "never"}, arg : Nat, items : Seq(Items)]

ASSUME SizesAssumption ==
  /\ WriteSize \in Nat \ {0} /\ StreamBufSize \in Nat \ {0}
  /\ WriteOps \in Nat \ {0}
  /\ MaxWindow \in Nat /\ DefaultWindow \in 0 .. MaxWindow
  /\ FrameSize \in [SentKinds -> Nat \ {0}]
  /\ Bodies \subseteq 0 .. StreamBufSize
  /\ MaxBatch \in Nat /\ MaxFrames \in Nat

ASSUME PeerAssumption ==
  /\ StreamIds \subseteq Nat \ {0}
  /\ Frames \subseteq RecvFrames
  /\ {DecodeMayFail, GracefulClose, Conforming} \subseteq BOOLEAN
  /\ Habits \subseteq {"early updates", "trailers", "cancel"}

VARIABLES
  \* http2_context_t
  state, flags, last_opened_stream_id, window_size, initial_window_size,
  \* ctx->stream: `buf' says what the buffer holds, bufptr is an offset in it
  stream_id, stream_state, stream_window, buf, buflen, bufptr,
  \* event_sock_t: state, read callback (or "none"), bytes read and not yet
  \* handled, write buffer (its length, whether it still accepts bytes),
  \* queued write operations, operations taken from the loop, settings timer
  sock, read_cb, inbuf, wlen, wopen, queue, in_use, timer,
  \* the loop: its place, bytes written and not yet notified, the parameters
  \* of the SETTINGS frame still to be processed, the assertion that failed
  phase, written, items, known, failed,
  \* history: the peer's side, frames sent per stream, windows granted per
  \* stream, kinds of frames that were cut or dropped, frames received
  peer, resp, granted, lost, received

ctxVars    == <<state, flags, last_opened_stream_id, window_size, initial_window_size>>
streamVars == <<stream_id, stream_state, stream_window, buf, buflen, bufptr>>
sockVars   == <<sock, read_cb, wopen>>
writeVars  == <<wlen, queue, in_use, failed, resp, lost>>
callVars   == <<written, items, known>>
peerVars   == <<peer, received>>
vars == <<ctxVars, streamVars, sockVars, inbuf, writeVars, timer, phase,
          callVars, peerVars, granted>>

Min(a, b) == IF a < b THEN a ELSE b

\* The loop is at p and no assertion has failed.
At(p) == phase = p /\ failed = "none"

-----------------------------------------------------------------------------
(* event.c, as this socket uses it.  q is the queue the operation acts on   *)
(* and rel the number of operations (0 or 1) that the caller gives back to  *)
(* the loop afterwards: a write callback runs with its own operation taken  *)
(* out of the queue and not yet returned.                                   *)

\* A frame handed to event_write, with the size the send_* functions give it.
Frame(kind, sid, es, len) ==
  [kind |-> kind, sid |-> sid, es |-> es, size |-> FrameSize[kind] + len]

\* History: what a stream has been sent once fr follows r.
Follow(r, fr) ==
  CASE fr.kind = "RST_STREAM" /\ r # "broken" -> "reset"
    [] fr.kind = "HEADERS" /\ r = "none" -> IF fr.es THEN "ended" ELSE "headers"
    [] fr.kind = "DATA" /\ r = "headers" -> IF fr.es THEN "ended" ELSE "headers"
    [] OTHER -> "broken"

event_write(q, rel, fr, cb) ==
  LET room == IF wopen THEN WriteSize - wlen ELSE 0
      n    == Min(room, fr.size)
      op   == [cb |-> cb, bytes |-> n, kind |-> fr.kind, sid |-> fr.sid, es |-> fr.es]
  IN \/ /\ sock # "CONNECTED"
        /\ failed' = "event_write: state"
        /\ queue' = q /\ in_use' = in_use - rel
        /\ UNCHANGED <<wlen, resp, lost>>
     \/ /\ sock = "CONNECTED" /\ n <= 0
        /\ queue' = q /\ in_use' = in_use - rel
        /\ lost' = lost \cup {fr.kind}
        /\ UNCHANGED <<wlen, resp, failed>>
     \/ /\ sock = "CONNECTED" /\ n > 0 /\ in_use = WriteOps
        /\ failed' = "event_write: op"
        /\ queue' = q /\ in_use' = in_use - rel
        /\ wlen' = wlen + n
        /\ UNCHANGED <<resp, lost>>
     \/ /\ sock = "CONNECTED" /\ n > 0 /\ in_use < WriteOps
        /\ queue' = Append(q, op)
        /\ wlen' = wlen + n
        /\ in_use' = in_use + 1 - rel
        /\ lost' = IF n < fr.size THEN lost \cup {fr.kind} ELSE lost
        /\ resp' = IF fr.sid \in StreamIds
                   THEN [resp EXCEPT ![fr.sid] = Follow(@, fr)] ELSE resp
        /\ UNCHANGED failed

\* Variant: the operation is not given back.
NoWrite_leak(q, rel) ==
  /\ queue' = q
  /\ UNCHANGED <<in_use, wlen, failed, resp, lost>>

\* A write callback that writes nothing: only its operation is given back.
NoWrite(q, rel) ==
  /\ queue' = q /\ in_use' = in_use - rel
  /\ UNCHANGED <<wlen, failed, resp, lost>>

-----------------------------------------------------------------------------
(* Closing a connection.                                                    *)

\* Variant: event_read_stop is not called.
http2_close_immediate_reading ==
  /\ state' = "CLOSED"
  /\ stream_state' = "CLOSED"
  /\ sock' = "CLOSING"
  /\ wopen' = FALSE
  /\ UNCHANGED <<read_cb, flags, last_opened_stream_id, window_size, initial_window_size,
                 stream_id, stream_window, buf, buflen, bufptr>>

http2_close_immediate ==
  /\ state' = "CLOSED"
  /\ stream_state' = "CLOSED"
  /\ read_cb' = "none"
  /\ sock' = "CLOSING"
  /\ wopen' = FALSE
  /\ UNCHANGED <<flags, last_opened_stream_id, window_size, initial_window_size,
                 stream_id, stream_window, buf, buflen, bufptr>>

\* Variant: the GOAWAY is sent with the callback of http2_close_gracefully.
http2_error_open(q, rel) ==
  /\ state' = "CLOSING"
  /\ flags' = flags \cap {"GOAWAY_SENT"}
  /\ read_cb' = "none"
  /\ event_write(q, rel, Frame("GOAWAY", 0, FALSE, 0), "close_on_write_error")
  /\ UNCHANGED <<sock, wopen, window_size, initial_window_size>>

\* Leaves the stream, last_opened_stream_id and the caller's place to the
\* handler that meets the error.
http2_error(q, rel) ==
  /\ state' = "CLOSING"
  /\ flags' = flags \cap {"GOAWAY_SENT"}
  /\ read_cb' = "none"
  /\ event_write(q, rel, Frame("GOAWAY", 0, FALSE, 0), "close_on_goaway_sent")
  /\ UNCHANGED <<sock, wopen, window_size, initial_window_size>>

\* A read or a write on the socket failed, or the peer closed it.  The read
\* callback is told, or the first write callback when nothing is being read;
\* each of them closes the connection.  Pending operations are given back.
event_sock_close ==
  /\ \/ /\ read_cb # "none" \/ queue # <<>>
        /\ http2_close_immediate
     \/ /\ read_cb = "none" /\ queue = <<>>
        /\ wopen' = FALSE
        /\ UNCHANGED <<ctxVars, streamVars, sock, read_cb>>
  /\ inbuf' = <<>>
  /\ queue' = <<>> /\ wlen' = 0
  /\ in_use' = in_use - Len(queue)
  /\ UNCHANGED <<failed, resp, lost>>

http2_close_gracefully ==
  /\ GracefulClose
  /\ At("timers")
  /\ state \notin {"CLOSED", "CLOSING"}
  /\ state' = "CLOSING"
  /\ flags' = flags \cap {"GOAWAY_SENT"}
  /\ event_write(queue, 0, Frame("GOAWAY", 0, FALSE, 0), "close_on_write_error")
  /\ UNCHANGED <<last_opened_stream_id, window_size, initial_window_size, streamVars,
                 sockVars, inbuf, timer, phase, callVars, peerVars, granted>>

-----------------------------------------------------------------------------
(* A slot is given to a new client, and given back.                         *)

\* Contexts and sockets are cleared when they are taken from their lists.
Fresh(q) ==
  /\ state' = "WAITING_PREFACE" /\ flags' = {}
  /\ last_opened_stream_id' = 0
  /\ window_size' = DefaultWindow /\ initial_window_size' = DefaultWindow
  /\ stream_id' = 0 /\ stream_state' = "CLOSED" /\ stream_window' = 0
  /\ buf' = "empty" /\ buflen' = 0 /\ bufptr' = 0
  /\ sock' = "CONNECTED" /\ read_cb' = "waiting_for_preface" /\ wopen' = TRUE
  /\ inbuf' = <<>> /\ queue' = q /\ wlen' = 0 /\ timer' = "off"
  /\ written' = 0 /\ items' = <<>> /\ known' = FALSE
  /\ peer' = [tx |-> "start", sid |-> 0, es |-> FALSE, acked |-> FALSE]
  /\ resp' = [s \in StreamIds |-> "none"]
  /\ granted' = [s \in StreamIds |-> 0]
  /\ lost' = {} /\ received' = 0

http2_new_client ==
  /\ At("free")
  /\ Fresh(<<>>)
  /\ phase' = "pending"
  /\ UNCHANGED <<in_use, failed>>

\* The end of an iteration: a closing socket with nothing left to write is
\* closed and its timer, like all its events, goes back to the loop.
event_loop_close ==
  /\ At("close")
  /\ \/ /\ sock = "CLOSING" /\ queue = <<>>
        /\ sock' = "CLOSED" /\ timer' = "off" /\ phase' = "free"
        /\ UNCHANGED <<read_cb, wopen>>
     \/ /\ sock # "CLOSING" \/ queue # <<>>
        /\ phase' = "timers"
        /\ UNCHANGED <<sockVars, timer>>
  /\ UNCHANGED <<ctxVars, streamVars, inbuf, writeVars, callVars, peerVars, granted>>

-----------------------------------------------------------------------------
(* Timers.                                                                  *)

on_settings_timeout ==
  /\ At("timers") /\ timer = "on"
  /\ http2_error(queue, 0)
  /\ inbuf' = <<>>
  /\ timer' = "off"
  /\ phase' = "read"
  /\ UNCHANGED <<last_opened_stream_id, streamVars, callVars, peerVars, granted>>

event_loop_timers ==
  /\ At("timers")
  /\ phase' = "read"
  /\ UNCHANGED <<ctxVars, streamVars, sockVars, inbuf, writeVars, timer, callVars,
                 peerVars, granted>>

-----------------------------------------------------------------------------
(* The peer.  What a peer that follows the protocol may send depends on     *)
(* what it has sent (`peer') and on what it can have received: a frame has  *)
(* arrived when its operation has left the queue.  An instance with such a  *)
(* peer has a MaxWindow that its increments cannot reach.                   *)

Arrived(kind) == \A i \in 1 .. Len(queue) : queue[i].kind # kind

\* The peer may open a stream: it has none, or it knows that it is over.
PeerFree ==
  \/ peer.tx = "idle"
  \/ /\ peer.sid # 0
     /\ \/ resp[peer.sid] = "ended" /\ peer.tx = "done"
        \/ resp[peer.sid] = "reset"
     /\ \A i \in 1 .. Len(queue) : queue[i].sid # peer.sid

PeerMaySend(f) ==
  /\ f.length = "ok"
  /\ CASE f.type = "PREFACE" -> peer.tx = "start"
       [] f.type = "SETTINGS" /\ f.flags = {} ->
            f.sid = 0 /\ peer.tx \notin {"start", "block"}
       [] f.type = "SETTINGS" /\ f.flags # {} ->
            /\ f.sid = 0 /\ ~peer.acked
            /\ peer.tx \notin {"start", "preface", "block"}
            /\ state # "WAITING_PREFACE" /\ Arrived("SETTINGS")
       [] f.type \in {"PING", "GOAWAY"} ->
            f.sid = 0 /\ peer.tx \notin {"start", "preface", "block"}
       [] f.type = "PRIORITY" -> peer.tx \notin {"start", "preface", "block"}
       [] f.type = "HEADERS" ->
            \/ PeerFree /\ f.sid > peer.sid /\ f.sid % 2 = 1
            \/ /\ "trailers" \in Habits
               /\ peer.tx = "body" /\ f.sid = peer.sid /\ "END_STREAM" \in f.flags
       [] f.type = "CONTINUATION" ->
            peer.tx = "block" /\ f.sid = peer.sid /\ "END_STREAM" \notin f.flags
       [] f.type = "DATA" -> peer.tx = "body" /\ f.sid = peer.sid
       [] f.type = "WINDOW_UPDATE" ->
            /\ f.arg > 0
            /\ peer.tx \notin {"start", "preface", "block"}
            /\ \/ f.sid = 0
               \/ /\ f.sid = peer.sid /\ ~PeerFree
                  /\ peer.tx = "done" \/ "early updates" \in Habits
       [] f.type = "RST_STREAM" ->
            "cancel" \in Habits /\ f.sid = peer.sid /\ peer.tx \in {"body", "done"}
       [] OTHER -> FALSE

\* A block sent with END_STREAM is followed by nothing once it is complete.
AfterBlock(f, es) ==
  IF "END_HEADERS" \notin f.flags THEN "block" ELSE IF es THEN "done" ELSE "body"

PeerSends(p, f) ==
  CASE f.type = "PREFACE" -> [p EXCEPT !.tx = "preface"]
    [] f.type = "SETTINGS" /\ f.flags # {} -> [p EXCEPT !.acked = TRUE]
    [] f.type = "SETTINGS" /\ p.tx = "preface" -> [p EXCEPT !.tx = "idle"]
    [] f.type = "HEADERS" ->
         [p EXCEPT !.tx = AfterBlock(f, "END_STREAM" \in f.flags), !.sid = f.sid,
                      !.es = "END_STREAM" \in f.flags]
    [] f.type = "CONTINUATION" -> [p EXCEPT !.tx = AfterBlock(f, p.es)]
    [] f.type = "DATA" /\ "END_STREAM" \in f.flags -> [p EXCEPT !.tx = "done"]
    [] f.type = "RST_STREAM" -> [p EXCEPT !.tx = "idle"]
    [] OTHER -> p

-----------------------------------------------------------------------------
(* Polling the socket: reads.                                               *)

\* Nothing more fits behind a frame that the read buffer cannot hold.
Stuck == inbuf # <<>> /\ inbuf[Len(inbuf)].length \in {"never", "over"}
Readable == sock = "CONNECTED" /\ read_cb # "none"

\* One recv may bring several frames: "read_more" is inside it.

event_sock_read(f) ==
  /\ At("read") \/ At("read_more")
  /\ Readable
  /\ Len(inbuf) < MaxBatch /\ received < MaxFrames
  /\ ~Stuck
  /\ Conforming => PeerMaySend(f)
  /\ inbuf' = Append(inbuf, f)
  /\ received' = received + 1
  /\ peer' = IF Conforming THEN PeerSends(peer, f) ELSE peer
  /\ phase' = "read_more"
  /\ UNCHANGED <<ctxVars, streamVars, sockVars, writeVars, timer, callVars, granted>>

\* The peer closes, recv fails, or recv is asked for no bytes at all because
\* the buffer is full: its 0 is taken for the end of the stream.
event_sock_read_end ==
  /\ At("read") /\ Readable
  /\ event_sock_close
  /\ phase' = "write"
  /\ UNCHANGED <<timer, callVars, peerVars, granted>>

\* No (more) bytes to read in this iteration.
event_sock_read_none ==
  /\ At("read") \/ At("read_more")
  /\ phase' = "write"
  /\ UNCHANGED <<ctxVars, streamVars, sockVars, inbuf, writeVars, timer, callVars,
                 peerVars, granted>>

-----------------------------------------------------------------------------
(* Polling the socket: writes, then the callbacks of the operations whose   *)
(* bytes have all been written.                                             *)

event_sock_write(n) ==
  /\ At("write") /\ n \in 1 .. wlen
  /\ wlen' = wlen - n
  /\ written' = n
  /\ phase' = "notify"
  /\ UNCHANGED <<ctxVars, streamVars, sockVars, inbuf, queue, in_use, failed, resp, lost,
                 timer, items, known, peerVars, granted>>

event_sock_write_none ==
  /\ At("write")
  /\ phase' = "pending"
  /\ UNCHANGED <<ctxVars, streamVars, sockVars, inbuf, writeVars, timer, callVars,
                 peerVars, granted>>

event_sock_write_error ==
  /\ At("write")
  /\ event_sock_close
  /\ phase' = "pending"
  /\ UNCHANGED <<timer, callVars, peerVars, granted>>

\* send as much as the windows (sw for the stream) and the buffer allow
http2_continue_send(q, rel, sw) ==
  LET len == Min(Min(buflen, Min(window_size, sw)), WriteSize)
  IN \/ /\ len <= 0
        /\ NoWrite(q, rel)
        /\ stream_window' = sw
        /\ UNCHANGED <<window_size, buf, buflen, bufptr>>
     \/ /\ len > 0
        /\ event_write(q, rel, Frame("DATA", stream_id, buflen = len, len),
                       "on_stream_send_complete")
        /\ bufptr' = bufptr + len
        /\ buflen' = buflen - len
        /\ buf' = IF buf = "block" THEN "cut" ELSE buf
        /\ stream_window' = sw - len
        /\ window_size' = window_size - len

\* History: bytes of DATA taken from what the peer granted the stream.
Charge(g) ==
  IF stream_id \in StreamIds
  THEN [g EXCEPT ![stream_id] = @ - (buflen - buflen')] ELSE g

\* Variant: the stream is closed with a byte left to send.
on_stream_send_complete_early(q) ==
  \/ /\ buflen <= 1
     /\ stream_state' = "CLOSED"
     /\ NoWrite(q, 1)
     /\ UNCHANGED <<window_size, stream_window, buf, buflen, bufptr, granted>>
  \/ /\ buflen > 1
     /\ http2_continue_send(q, 1, stream_window)
     /\ granted' = Charge(granted)
     /\ UNCHANGED stream_state

\* Variant: the rest of the response is not sent.
on_stream_send_complete_stop(q) ==
  /\ stream_state' = IF buflen <= 0 THEN "CLOSED" ELSE stream_state
  /\ NoWrite(q, 1)
  /\ UNCHANGED <<window_size, stream_window, buf, buflen, bufptr, granted>>

on_stream_send_complete(q) ==
  \/ /\ buflen <= 0
     /\ stream_state' = "CLOSED"
     /\ NoWrite(q, 1)
     /\ UNCHANGED <<window_size, stream_window, buf, buflen, bufptr, granted>>
  \/ /\ buflen > 0
     /\ http2_continue_send(q, 1, stream_window)
     /\ granted' = Charge(granted)
     /\ UNCHANGED stream_state

\* Variant: no timer is set.
on_settings_sent_untimed(q) ==
  /\ flags' = flags \cup {"WAITING_SETTINGS_ACK"}
  /\ NoWrite(q, 1)
  /\ UNCHANGED timer

on_settings_sent(q) ==
  /\ flags' = flags \cup {"WAITING_SETTINGS_ACK"}
  /\ timer' = "on"
  /\ NoWrite(q, 1)

\* The oldest operation is complete: its callback runs.
event_sock_handle_write ==
  /\ At("notify") /\ written > 0 /\ queue # <<>>
  /\ Head(queue).bytes <= written
  /\ written' = written - Head(queue).bytes
  /\ LET cb == Head(queue).cb
         q  == Tail(queue)
     IN \/ /\ cb = "close_on_write_error"
           /\ NoWrite(q, 1)
           /\ UNCHANGED <<ctxVars, streamVars, sockVars, timer, granted>>
        \/ /\ cb = "close_on_goaway_sent"
           /\ http2_close_immediate
           /\ NoWrite(q, 1)
           /\ UNCHANGED <<timer, granted>>
        \/ /\ cb = "on_settings_sent"
           /\ on_settings_sent(q)
           /\ UNCHANGED <<state, last_opened_stream_id, window_size, initial_window_size,
                          streamVars, sockVars, granted>>
        \/ /\ cb = "on_stream_send_complete"
           /\ on_stream_send_complete(q)
           /\ UNCHANGED <<state, flags, last_opened_stream_id, initial_window_size,
                          stream_id, sockVars, timer>>
  /\ UNCHANGED <<inbuf, phase, items, known, peerVars>>

\* Variant: the operation is put back with all its bytes.
event_sock_handle_write_end_whole ==
  /\ At("notify")
  /\ written > 0 /\ queue # <<>> => Head(queue).bytes > written
  /\ written' = 0
  /\ phase' = "pending"
  /\ UNCHANGED <<ctxVars, streamVars, sockVars, inbuf, writeVars, timer, items, known,
                 peerVars, granted>>

\* The oldest operation is written in part, or there is nothing to notify.
event_sock_handle_write_end ==
  /\ At("notify")
  /\ \/ /\ written > 0 /\ queue # <<>> /\ Head(queue).bytes > written
        /\ queue' = <<[Head(queue) EXCEPT !.bytes = @ - written]>> \o Tail(queue)
     \/ /\ written = 0 \/ queue = <<>>
        /\ UNCHANGED queue
  /\ written' = 0
  /\ phase' = "pending"
  /\ UNCHANGED <<ctxVars, streamVars, sockVars, inbuf, wlen, in_use, failed, resp, lost,
                 timer, items, known, peerVars, granted>>

-----------------------------------------------------------------------------
(* Pending reads: the read callback gets everything in the buffer.  While   *)
(* it runs, inbuf is what it has not handled yet.                           *)

event_loop_pending ==
  /\ At("pending")
  /\ phase' = IF read_cb # "none" /\ inbuf # <<>> THEN read_cb ELSE "close"
  /\ UNCHANGED <<ctxVars, streamVars, sockVars, inbuf, writeVars, timer, callVars,
                 peerVars, granted>>

\* How a handler leaves the batch: it goes on with the next frame, it stops
\* and keeps the rest, or it stops and the rest is gone with the read event.
Continue == inbuf' = Tail(inbuf) /\ phase' = "receiving"
Stop     == inbuf' = Tail(inbuf) /\ phase' = "close"
Discard  == inbuf' = <<>> /\ phase' = "close"

\* What no handler of a frame changes, other than handle_settings_frame.
notHandled == <<timer, callVars, peerVars>>

\* A handler calls http2_error and returns -1.
Refuse ==
  /\ http2_error(queue, 0)
  /\ Discard
  /\ UNCHANGED <<last_opened_stream_id, streamVars, granted, notHandled>>

http2_stream_error(sid) ==
  /\ event_write(queue, 0, Frame("RST_STREAM", sid, FALSE, 0), "close_on_write_error")
  /\ stream_state' = IF sid = stream_id THEN "CLOSED" ELSE stream_state
  /\ Stop
  /\ UNCHANGED <<ctxVars, stream_id, stream_window, buf, buflen, bufptr, sockVars, granted,
                 notHandled>>

\* Bytes that are no preface are refused once there are as many of them as a
\* preface has.
waiting_for_preface ==
  /\ At("waiting_for_preface")
  /\ \/ /\ Head(inbuf).type # "PREFACE"
        /\ phase' = "close"
        /\ UNCHANGED <<ctxVars, streamVars, sockVars, inbuf, writeVars>>
     \/ /\ Head(inbuf).type # "PREFACE"
        /\ http2_close_immediate
        /\ Discard
        /\ UNCHANGED writeVars
     \/ /\ Head(inbuf).type = "PREFACE"
        /\ state' = "WAITING_SETTINGS"
        /\ event_write(queue, 0, Frame("SETTINGS", 0, FALSE, 0), "on_settings_sent")
        /\ read_cb' = "waiting_for_settings"
        /\ Stop
        /\ UNCHANGED <<flags, last_opened_stream_id, window_size, initial_window_size,
                       streamVars, sock, wopen>>
  /\ UNCHANGED <<granted, notHandled>>

\* handle_settings_frame is called; update_settings then takes one step per
\* parameter.  The place says to which caller it returns.
waiting_for_settings ==
  LET f == Head(inbuf)
  IN /\ At("waiting_for_settings")
     /\ \/ /\ \/ f.type # "SETTINGS" \/ f.flags # {}
              \/ f.length \in {"ok", "wrong"} /\ (f.sid # 0 \/ f.length = "wrong")
           /\ Refuse
        \/ /\ f.type = "SETTINGS" /\ f.flags = {} /\ f.length \notin {"ok", "wrong"}
           /\ phase' = "close"
           /\ UNCHANGED <<ctxVars, streamVars, sockVars, inbuf, writeVars, granted,
                          notHandled>>
        \/ /\ f.type = "SETTINGS" /\ f.flags = {} /\ f.length = "ok" /\ f.sid = 0
           /\ items' = f.items /\ known' = FALSE
           /\ inbuf' = Tail(inbuf) /\ phase' = "update_first"
           /\ UNCHANGED <<ctxVars, streamVars, sockVars, writeVars, granted, timer, written,
                          peerVars>>

\* The next frame can be handled by the handler of its type.
Handling(type) ==
  /\ At("receiving") /\ inbuf # <<>>
  /\ Head(inbuf).length \in {"ok", "wrong", "pad"}
  /\ Head(inbuf).type = type
  /\ "WAITING_END_HEADERS" \in flags => type = "CONTINUATION"

\* The checks before the switch on the type, and the end of the loop.  Read
\* as a frame header, the first bytes of a preface are a length out of bounds.
receiving ==
  /\ At("receiving")
  /\ \/ /\ \/ inbuf = <<>>
           \/ inbuf # <<>> /\ Head(inbuf).length = "never"
        /\ inbuf' = IF read_cb = "none" THEN <<>> ELSE inbuf
        /\ phase' = "close"
        /\ UNCHANGED <<ctxVars, streamVars, sockVars, writeVars, granted, notHandled>>
     \/ /\ inbuf # <<>> /\ Head(inbuf).length # "never"
        /\ \/ Head(inbuf).length = "over" \/ Head(inbuf).type = "PREFACE"
           \/ /\ "WAITING_END_HEADERS" \in flags
              /\ Head(inbuf).type # "CONTINUATION"
        /\ Refuse

\* Frames that are ignored; the type of an unknown one matches no case.
ignore_frame ==
  /\ Handling("PRIORITY") \/ Handling("UNKNOWN")
  /\ Continue
  /\ UNCHANGED <<ctxVars, streamVars, sockVars, writeVars, granted, notHandled>>

\* http2_error is called and the loop goes on: rc is still 0.
push_promise ==
  /\ Handling("PUSH_PROMISE")
  /\ http2_error(queue, 0)
  /\ Continue
  /\ UNCHANGED <<last_opened_stream_id, streamVars, granted, notHandled>>

-----------------------------------------------------------------------------
(* SETTINGS, GOAWAY, PING and RST_STREAM frames.                            *)

handle_settings_frame ==
  LET f == Head(inbuf)
  IN /\ Handling("SETTINGS")
     /\ \/ /\ f.sid # 0 \/ f.length # "ok"
           /\ Refuse
        \/ /\ f.sid = 0 /\ f.length = "ok" /\ "ACK" \notin f.flags
           /\ items' = f.items /\ known' = FALSE
           /\ inbuf' = Tail(inbuf) /\ phase' = "update"
           /\ UNCHANGED <<ctxVars, streamVars, sockVars, writeVars, granted, timer, written,
                          peerVars>>
        \/ /\ f.sid = 0 /\ f.length = "ok" /\ "ACK" \in f.flags
           /\ flags' = flags \ {"WAITING_SETTINGS_ACK"}
           /\ timer' = IF "WAITING_SETTINGS_ACK" \in flags THEN "off" ELSE timer
           /\ Continue
           /\ UNCHANGED <<state, last_opened_stream_id, window_size, initial_window_size,
                          streamVars, sockVars, writeVars, granted, callVars, peerVars>>

\* Variant: the sum is taken for one that cannot overflow.
Wrap_wide(x) == x

\* A parameter is processed.  INITIAL_WINDOW_SIZE also moves the window of
\* the stream, an int32_t: it wraps, and the check against the largest window
\* cannot see it.
Wrap(x) == IF x > MaxWindow THEN x - 2 * (MaxWindow + 1)
           ELSE IF x < -(MaxWindow + 1) THEN x + 2 * (MaxWindow + 1) ELSE x

SettingRefused(item) ==
  item.id = "invalid" \/ (item.id = "window" /\ item.value > MaxWindow)

\* Variant: the window of the stream becomes the new size.
Adjusted_absolute(value) == value

\* The window of the stream, moved by the difference between the sizes.
Adjusted(value) == Wrap(stream_window + (value - initial_window_size))

update_settings ==
  /\ At("update") \/ At("update_first")
  /\ items # <<>> /\ ~SettingRefused(Head(items))
  /\ LET item == Head(items)
     IN \/ /\ item.id # "window"
           /\ UNCHANGED <<initial_window_size, stream_window, granted>>
        \/ /\ item.id = "window"
           /\ initial_window_size' = item.value
           /\ \/ /\ stream_state \in {"OPEN", "HALF_CLOSED_REMOTE"}
                 /\ stream_window' = Adjusted(item.value)
                 /\ granted' = [granted EXCEPT
                                  ![stream_id] = @ + (item.value - initial_window_size)]
              \/ /\ stream_state \notin {"OPEN", "HALF_CLOSED_REMOTE"}
                 /\ UNCHANGED <<stream_window, granted>>
  /\ known' = (known \/ Head(items).id # "unknown")
  /\ items' = Tail(items)
  /\ UNCHANGED <<state, flags, last_opened_stream_id, window_size, stream_id, stream_state,
                 buf, buflen, bufptr, sockVars, inbuf, writeVars, timer, phase, written,
                 peerVars>>

\* update_settings reports the error as "nothing updated": its caller takes
\* the frame for a good one.  waiting_for_settings then fails its assertion, so
\* that the GOAWAY that was queued is left out.
update_settings_error ==
  /\ At("update") \/ At("update_first")
  /\ items # <<>> /\ SettingRefused(Head(items))
  /\ \/ /\ phase = "update"
        /\ http2_error(queue, 0)
        /\ phase' = "receiving"
     \/ /\ phase = "update_first"
        /\ state' = "READY" /\ flags' = flags \cap {"GOAWAY_SENT"}
        /\ read_cb' = "none"
        /\ failed' = "event_read: event"
        /\ phase' = "close"
        /\ UNCHANGED <<wlen, queue, in_use, resp, lost, sock, wopen, window_size,
                       initial_window_size>>
  /\ items' = <<>> /\ known' = FALSE
  /\ UNCHANGED <<last_opened_stream_id, streamVars, inbuf, timer, written, peerVars, granted>>

\* Variant: every SETTINGS frame makes the connection ready.
update_settings_end_ready ==
  /\ At("update") \/ At("update_first")
  /\ items = <<>>
  /\ \/ /\ known
        /\ event_write(queue, 0, Frame("SETTINGS_ACK", 0, FALSE, 0), "close_on_write_error")
     \/ ~known /\ UNCHANGED writeVars
  /\ phase' = IF phase = "update" THEN "receiving" ELSE "close"
  /\ state' = "READY" /\ read_cb' = "receiving"
  /\ known' = FALSE
  /\ UNCHANGED <<flags, last_opened_stream_id, window_size, initial_window_size, streamVars,
                 sock, wopen, inbuf, timer, written, items, peerVars, granted>>

update_settings_end ==
  /\ At("update") \/ At("update_first")
  /\ items = <<>>
  /\ \/ /\ known
        /\ event_write(queue, 0, Frame("SETTINGS_ACK", 0, FALSE, 0), "close_on_write_error")
     \/ ~known /\ UNCHANGED writeVars
  /\ \/ /\ phase = "update" /\ phase' = "receiving"
        /\ UNCHANGED <<state, read_cb>>
     \/ /\ phase = "update_first" /\ phase' = "close"
        /\ state' = "READY" /\ read_cb' = "receiving"
  /\ known' = FALSE
  /\ UNCHANGED <<flags, last_opened_stream_id, window_size, initial_window_size, streamVars,
                 sock, wopen, inbuf, timer, written, items, peerVars, granted>>

handle_goaway_frame ==
  LET f == Head(inbuf)
  IN /\ Handling("GOAWAY")
     /\ \/ /\ f.sid # 0 \/ f.length # "ok"
           /\ Refuse
        \/ /\ f.sid = 0 /\ f.length = "ok" /\ "GOAWAY_SENT" \in flags
           /\ http2_close_immediate
           /\ Continue
           /\ UNCHANGED <<writeVars, granted, notHandled>>
        \/ /\ f.sid = 0 /\ f.length = "ok" /\ "GOAWAY_SENT" \notin flags
           /\ "GOAWAY_RECV" \in flags
           /\ Continue
           /\ UNCHANGED <<ctxVars, streamVars, sockVars, writeVars, granted, notHandled>>
        \/ /\ f.sid = 0 /\ f.length = "ok" /\ "GOAWAY_SENT" \notin flags
           /\ "GOAWAY_RECV" \notin flags
           /\ flags' = flags \cup {"GOAWAY_RECV"}
           /\ stream_state' = IF stream_id > f.arg THEN "CLOSED" ELSE stream_state
           /\ state' = "CLOSING"
           /\ \/ /\ read_cb # "none"
                 /\ read_cb' = "receiving"
                 /\ event_write(queue, 0, Frame("GOAWAY", 0, FALSE, 0),
                                "close_on_goaway_sent")
              \/ /\ read_cb = "none"
                 /\ failed' = "event_read: event"
                 /\ UNCHANGED <<read_cb, wlen, queue, in_use, resp, lost>>
           /\ Continue
           /\ UNCHANGED <<last_opened_stream_id, window_size, initial_window_size,
                          stream_id, stream_window, buf, buflen, bufptr, sock, wopen,
                          granted, notHandled>>

handle_ping_frame ==
  LET f == Head(inbuf)
  IN /\ Handling("PING")
     /\ \/ /\ f.sid # 0 \/ f.length # "ok"
           /\ Refuse
        \/ /\ f.sid = 0 /\ f.length = "ok"
           /\ \/ "ACK" \in f.flags /\ UNCHANGED writeVars
              \/ /\ "ACK" \notin f.flags
                 /\ event_write(queue, 0, Frame("PING", 0, FALSE, 0),
                                "close_on_write_error")
           /\ Continue
           /\ UNCHANGED <<ctxVars, streamVars, sockVars, granted, notHandled>>

handle_rst_stream_frame ==
  LET f == Head(inbuf)
  IN /\ Handling("RST_STREAM")
     /\ \/ /\ f.sid = 0 \/ f.length # "ok" \/ f.sid # last_opened_stream_id
           /\ Refuse
        \/ /\ f.sid # 0 /\ f.length = "ok" /\ f.sid = last_opened_stream_id
           /\ stream_state' = "CLOSED"
           /\ resp' = [resp EXCEPT ![f.sid] = IF @ = "broken" THEN @ ELSE "reset"]
           /\ Continue
           /\ UNCHANGED <<ctxVars, stream_id, stream_window, buf, buflen, bufptr, sockVars,
                          wlen, queue, in_use, failed, lost, granted, notHandled>>

-----------------------------------------------------------------------------
(* WINDOW_UPDATE frames.  The sums are unsigned: a negative window that     *)
(* stays negative compares as a very large one.                             *)

handle_window_update_frame ==
  LET f   == Head(inbuf)
      bad == \/ f.length # "ok"
             \/ f.sid > last_opened_stream_id
             \/ f.sid # 0 /\ f.sid = stream_id /\ stream_state = "CLOSED"
             \/ f.arg = 0
             \/ f.sid = 0 /\ window_size + f.arg > MaxWindow
      sw  == stream_window + f.arg
  IN /\ Handling("WINDOW_UPDATE")
     /\ \/ bad /\ Refuse
        \/ /\ ~bad /\ f.sid = 0
           /\ window_size' = window_size + f.arg
           /\ Continue
           /\ UNCHANGED <<state, flags, last_opened_stream_id, initial_window_size, streamVars,
                          sockVars, writeVars, granted, notHandled>>
        \/ /\ ~bad /\ f.sid # 0 /\ (sw > MaxWindow \/ sw < 0)
           /\ http2_stream_error(stream_id)
        \/ /\ ~bad /\ f.sid # 0 /\ sw \in 0 .. MaxWindow
           /\ http2_continue_send(queue, 0, sw)
           /\ granted' = Charge([granted EXCEPT ![f.sid] = @ + f.arg])
           /\ Continue
           /\ UNCHANGED <<state, flags, last_opened_stream_id, initial_window_size, stream_id,
                          stream_state, sockVars, notHandled>>

-----------------------------------------------------------------------------
(* Requests.  A whole header block is decoded and answered, or refused; an  *)
(* empty one lacks its pseudo-headers, one that was cut may decode to       *)
(* anything.  fl, bl and holds are the flags, the buffer's length and its   *)
(* content at the call.                                                     *)

\* Variant: the end of the headers is taken for the end of the request.
Waiting_headers(fl) == "WAITING_END_HEADERS" \in fl

Waiting(fl) == fl \cap {"WAITING_END_HEADERS", "WAITING_END_STREAM"} # {}

\* handle_end_stream meets an error, the caller does what Leave says.
EndStreamFails(bl, holds, Leave) ==
  /\ DecodeMayFail \/ holds # "block"
  /\ http2_error(queue, 0)
  /\ buflen' = bl /\ buf' = holds
  /\ Leave

\* The response is in the buffer and its HEADERS are sent; the three headers of
\* a response can always be encoded.
EndStreamAnswers(fl, holds, id) ==
  /\ holds # "empty"
  /\ \E n \in Bodies :
       /\ buflen' = n /\ buf' = "body"
       /\ event_write(queue, 0, Frame("HEADERS", id, n = 0, 0), "on_stream_send_complete")
  /\ flags' = fl
  /\ Continue
  /\ UNCHANGED <<state, sockVars, window_size, initial_window_size>>

handle_end_stream(fl, bl, holds, id, Leave) ==
  EndStreamFails(bl, holds, Leave) \/ EndStreamAnswers(fl, holds, id)

\* f brings a fragment of the block of stream id, whose state is st.
handle_header_block(f, fl, st, bl, holds, id) ==
  LET copylen == Min(f.arg, StreamBufSize - bl)
      trailer == "WAITING_TRAILERS" \in fl
      fl2     == fl \ ((IF "END_STREAM" \in f.flags THEN {"WAITING_END_STREAM"} ELSE {})
                       \cup (IF "END_HEADERS" \in f.flags THEN {"WAITING_END_HEADERS"} ELSE {}))
      bl2     == IF trailer THEN bl ELSE bl + copylen
      holds2  == IF trailer THEN holds
                 ELSE IF copylen < f.arg \/ holds = "cut" THEN "cut" ELSE "block"
  IN \/ /\ copylen <= 0
        /\ http2_error(queue, 0)
        /\ stream_state' = st /\ buflen' = bl /\ buf' = holds
        /\ Discard
     \/ /\ copylen > 0
        /\ stream_state' = IF "END_STREAM" \in f.flags THEN "HALF_CLOSED_REMOTE" ELSE st
        /\ \/ /\ Waiting(fl2)
              /\ flags' = fl2 /\ buflen' = bl2 /\ buf' = holds2
              /\ Continue
              /\ UNCHANGED <<state, sockVars, writeVars, window_size, initial_window_size>>
           \/ /\ ~Waiting(fl2)
              /\ handle_end_stream(fl2, bl2, holds2, id, Discard)

HeadersRefused(f) ==
  \/ f.sid = 0
  \/ f.sid < last_opened_stream_id \/ f.sid % 2 = 0
  \/ f.sid > last_opened_stream_id /\ stream_state # "CLOSED"
  \/ f.sid = last_opened_stream_id /\ stream_state # "OPEN"

\* Variant: the place in the buffer is that of the stream before.
OpenStream_ptr(sid) ==
  /\ stream_id' = sid /\ last_opened_stream_id' = sid
  /\ stream_window' = initial_window_size
  /\ granted' = [granted EXCEPT ![sid] = initial_window_size]
  /\ UNCHANGED bufptr

OpenStream(sid) ==
  /\ stream_id' = sid /\ last_opened_stream_id' = sid
  /\ stream_window' = initial_window_size
  /\ granted' = [granted EXCEPT ![sid] = initial_window_size]
  /\ bufptr' = 0

handle_headers_frame ==
  LET f == Head(inbuf)
  IN /\ Handling("HEADERS")
     /\ \/ /\ state = "CLOSING"
           /\ Continue
           /\ UNCHANGED <<ctxVars, streamVars, sockVars, writeVars, granted, notHandled>>
        \/ state # "CLOSING" /\ HeadersRefused(f) /\ Refuse
        \/ /\ state # "CLOSING" /\ ~HeadersRefused(f)
           /\ f.sid = last_opened_stream_id /\ "END_STREAM" \notin f.flags
           /\ http2_stream_error(f.sid)
        \/ /\ state # "CLOSING" /\ ~HeadersRefused(f)
           /\ f.sid = last_opened_stream_id /\ "END_STREAM" \in f.flags
           /\ \/ f.length = "pad" /\ Refuse
              \/ /\ f.length # "pad"
                 /\ handle_header_block(
                      f, flags \cup {"WAITING_TRAILERS", "WAITING_END_HEADERS"},
                      stream_state, buflen, buf, stream_id)
                 /\ UNCHANGED <<last_opened_stream_id, stream_id, stream_window, bufptr,
                                granted, notHandled>>
        \/ /\ state # "CLOSING" /\ ~HeadersRefused(f)
           /\ f.sid > last_opened_stream_id
           /\ OpenStream(f.sid)
           /\ \/ /\ f.length = "pad"
                 /\ http2_error(queue, 0)
                 /\ stream_state' = "OPEN" /\ buf' = "empty" /\ buflen' = 0
                 /\ Discard
              \/ /\ f.length # "pad"
                 /\ handle_header_block(
                      f, flags \cup {"WAITING_END_HEADERS", "WAITING_END_STREAM"},
                      "OPEN", 0, "empty", f.sid)
           /\ UNCHANGED notHandled

handle_continuation_frame ==
  LET f == Head(inbuf)
  IN /\ Handling("CONTINUATION")
     /\ \/ /\ f.sid = 0 \/ stream_state = "CLOSED" \/ "WAITING_END_HEADERS" \notin flags
           /\ Refuse
        \/ /\ f.sid # 0 /\ stream_state # "CLOSED" /\ "WAITING_END_HEADERS" \in flags
           /\ handle_header_block(f, flags, stream_state, buflen, buf, stream_id)
           /\ UNCHANGED <<last_opened_stream_id, stream_id, stream_window, bufptr, granted,
                          notHandled>>

\* The result of handle_end_stream is not looked at.
handle_data_frame ==
  LET f   == Head(inbuf)
      fl  == IF "END_STREAM" \in f.flags THEN flags \ {"WAITING_END_STREAM"} ELSE flags
      bad == f.sid = 0 \/ f.sid > last_opened_stream_id
      old == f.sid < last_opened_stream_id \/ stream_state # "OPEN"
  IN /\ Handling("DATA")
     /\ \/ bad /\ Refuse
        \/ ~bad /\ old /\ http2_stream_error(f.sid)
        \/ ~bad /\ ~old /\ f.length = "pad" /\ Refuse
        \/ /\ ~bad /\ ~old /\ f.length # "pad"
           /\ stream_state' = IF "END_STREAM" \in f.flags THEN "HALF_CLOSED_REMOTE"
                              ELSE stream_state
           /\ \/ /\ Waiting(fl)
                 /\ flags' = fl
                 /\ Continue
                 /\ UNCHANGED <<state, sockVars, writeVars, window_size, initial_window_size,
                                buf, buflen>>
              \/ /\ ~Waiting(fl)
                 /\ handle_end_stream(fl, buflen, buf, stream_id, Continue)
           /\ UNCHANGED <<last_opened_stream_id, stream_id, stream_window, bufptr, granted,
                          notHandled>>

-----------------------------------------------------------------------------
Init ==
  /\ state = "CLOSED" /\ flags = {} /\ last_opened_stream_id = 0
  /\ window_size = DefaultWindow /\ initial_window_size = DefaultWindow
  /\ stream_id = 0 /\ stream_state = "CLOSED" /\ stream_window = 0
  /\ buf = "empty" /\ buflen = 0 /\ bufptr = 0
  /\ sock = "CLOSED" /\ read_cb = "none" /\ wopen = FALSE
  /\ inbuf = <<>> /\ queue = <<>> /\ wlen = 0 /\ in_use = 0 /\ timer = "off"
  /\ phase = "free" /\ written = 0 /\ items = <<>> /\ known = FALSE
  /\ failed = "none"
  /\ peer = [tx |-> "start", sid |-> 0, es |-> FALSE, acked |-> FALSE]
  /\ resp = [s \in StreamIds |-> "none"]
  /\ granted = [s \in StreamIds |-> 0]
  /\ lost = {} /\ received = 0

Loop ==
  \/ http2_new_client \/ event_loop_close
  \/ on_settings_timeout \/ event_loop_timers \/ http2_close_gracefully
  \/ event_sock_read_end \/ event_sock_read_none
  \/ event_sock_write_none \/ event_sock_write_error
  \/ event_sock_handle_write \/ event_sock_handle_write_end
  \/ event_loop_pending

Receive ==
  \/ waiting_for_preface \/ waiting_for_settings \/ receiving
  \/ update_settings \/ update_settings_error \/ update_settings_end
  \/ ignore_frame \/ push_promise
  \/ handle_settings_frame \/ handle_goaway_frame \/ handle_ping_frame
  \/ handle_rst_stream_frame \/ handle_window_update_frame
  \/ handle_headers_frame \/ handle_continuation_frame \/ handle_data_frame

Next ==
  \/ Loop
  \/ Receive
  \/ \E f \in Frames : event_sock_read(f)
  \/ \E n \in 1 .. wlen : event_sock_write(n)

Spec == Init /\ [][Next]_vars

\* What the scheduling of the loop and its peer justify: the loop never stops,
\* a peer that is still there reads what it is sent, and time passes.
Fairness ==
  /\ WF_vars(Next)
  /\ SF_vars(\E n \in 1 .. wlen : event_sock_write(n))
  /\ SF_vars(on_settings_timeout)

FairSpec == Spec /\ Fairness

-----------------------------------------------------------------------------
States  == {"CLOSED", "WAITING_PREFACE", "WAITING_SETTINGS", "READY", "CLOSING"}
Phases  == {"free", "timers", "read", "read_more", "write", "notify", "pending", "update",
            "update_first", "close"} \cup ReadCallbacks
Answers == {"none", "headers", "ended", "reset", "broken"}
Op      == [cb : Callbacks, bytes : Nat \ {0}, kind : SentKinds,
            sid : StreamIds \cup {0}, es : BOOLEAN]
PeerStates == [tx : {"start", "preface", "idle", "block", "body", "done"},
               sid : StreamIds \cup {0}, es : BOOLEAN, acked : BOOLEAN]

CtxTypes ==
  /\ state \in States /\ flags \subseteq Flags
  /\ last_opened_stream_id \in StreamIds \cup {0}
  /\ window_size \in 0 .. MaxWindow
  /\ initial_window_size \in 0 .. MaxWindow

StreamTypes ==
  /\ stream_id \in StreamIds \cup {0}
  /\ stream_state \in {"CLOSED", "OPEN", "HALF_CLOSED_REMOTE"}
  /\ stream_window \in -(MaxWindow + 1) .. MaxWindow
  /\ buf \in {"empty", "block", "cut", "body"}
  /\ buflen \in 0 .. StreamBufSize /\ bufptr \in Nat

SockTypes ==
  /\ sock \in {"CONNECTED", "CLOSING", "CLOSED"}
  /\ read_cb \in ReadCallbacks \cup {"none"}
  /\ wopen \in BOOLEAN
  /\ timer \in {"on", "off"} /\ phase \in Phases

WriteTypes ==
  /\ wlen \in 0 .. WriteSize
  /\ queue \in Seq(Op) /\ in_use \in 0 .. WriteOps
  /\ failed \in {"none", "event_write: state", "event_write: op", "event_read: event"}
  /\ resp \in [StreamIds -> Answers] /\ lost \subseteq SentKinds

CallTypes ==
  /\ inbuf \in Seq(Frames) /\ written \in 0 .. WriteSize
  /\ items \in Seq(Items) /\ known \in BOOLEAN

PeerTypes ==
  /\ peer \in PeerStates /\ received \in 0 .. MaxFrames
  /\ granted \in [StreamIds -> Int]

\* Every field of http2_context_t, of its stream and of its socket holds a
\* value of its C type, within the sizes of the buffers.
TypeOK ==
  CtxTypes /\ StreamTypes /\ SockTypes /\ WriteTypes /\ CallTypes /\ PeerTypes

-----------------------------------------------------------------------------
(* Safety.                                                                  *)

\* No assertion of event.c fails: event_write finds its socket connected and
\* a free operation, event_read finds the read event it changes.
AssertionsHold == failed = "none"

\* Every stream is answered with HEADERS, then DATA frames of which only the
\* last has END_STREAM, and nothing after it (handle_end_stream sends the
\* HEADERS, http2_continue_send the DATA).
AnswersInOrder == \A s \in StreamIds : resp[s] # "broken"

\* No frame handed to event_write is cut or dropped for want of room: the
\* send_* functions do not look at what event_write returns.
NothingLost == lost = {}

\* The window of the stream is what the peer granted that very stream, by
\* SETTINGS and WINDOW_UPDATE, less the DATA sent on it.
WindowMatchesGrant ==
  stream_state # "CLOSED" => stream_window = granted[stream_id]

\* While the connection is in use, a stream that has been closed is one whose
\* answer is complete or that was reset (on_stream_send_complete closes it).
ClosedAfterAnswer ==
  state = "READY" /\ stream_id # 0 /\ stream_state = "CLOSED"
    => resp[stream_id] \in {"ended", "reset"}

QueuedBytes == Total([i \in 1 .. Len(queue) |-> queue[i].bytes])

\* The bytes in the write buffer, and those written and not yet notified, are
\* those of the queued operations: a callback runs when all the bytes of its
\* frame have been written, not before.
BytesAccounted == failed = "none" => QueuedBytes = wlen + written

\* Operations taken from the loop's pool are the queued ones: none is leaked
\* by a write error, by a partial write or by a callback that writes again.
PoolConserved == in_use = Len(queue)

\* While the acknowledgement of the settings is awaited, the timer that gives
\* up on it is running (on_settings_sent, handle_settings_frame).
SettingsTimed ==
  "WAITING_SETTINGS_ACK" \in flags /\ sock # "CLOSED" => timer = "on"

\* A connection that is being read is open in both directions: its handlers
\* can answer (event_write asserts that the socket is connected).
ReadsWhileOpen == read_cb # "none" => sock = "CONNECTED" /\ wopen

\* What is still to be sent of a response is the end of its body: the place in
\* the buffer and the number of bytes left together are always the length of
\* a body, however many DATA frames the windows cut it into and whatever was
\* sent for the streams before (handle_headers_frame, http2_continue_send).
DataFromBody == buf = "body" => bufptr + buflen \in Bodies

\* A connection that is open and no longer read can only end by the
\* callback of the GOAWAY that http2_error sent: it is in the queue until it
\* runs, unless that GOAWAY itself found no room in the write buffer, which
\* http2_error does not notice.
CloserQueued ==
  sock = "CONNECTED" /\ read_cb = "none" /\ failed = "none"
    => \/ "GOAWAY" \in lost
       \/ \E i \in 1 .. Len(queue) : queue[i].cb = "close_on_goaway_sent"

\* A slot that goes back to its lists holds no operation, timer or callback
\* of the connection it served.
ReleasedClean ==
  phase = "free" => queue = <<>> /\ in_use = 0 /\ timer = "off" /\ read_cb = "none"

\* A connection that is being closed after its settings were exchanged is
\* never used for requests again: the state leaves CLOSING only for CLOSED,
\* and CLOSED only with the slot.
ClosingIsFinal ==
  [][/\ state = "CLOSING" /\ read_cb \in {"receiving", "none"}
          => state' \in {"CLOSING", "CLOSED"}
     /\ state = "CLOSED" /\ phase # "free" /\ failed' = "none" => state' = "CLOSED"]_vars

-----------------------------------------------------------------------------
(* Liveness, under Fairness.                                                *)

\* An assertion has ended the program (WritesConnected below is about one).
Aborted == failed # "none"

\* A connection that is being closed is closed and its slot released
\* (http2_error, close_on_goaway_sent, event_loop_close), unless its GOAWAY
\* found no room in the write buffer.
ClosingEnds == state = "CLOSING" ~> (sock = "CLOSED" \/ "GOAWAY" \in lost \/ Aborted)

\* The wait for the acknowledgement of the settings ends, by the frame, by the
\* timer or with the connection (on_settings_sent, on_settings_timeout).
SettingsResolved ==
  "WAITING_SETTINGS_ACK" \in flags
    ~> ("WAITING_SETTINGS_ACK" \notin flags \/ sock = "CLOSED" \/ Aborted)

\* A request that was received whole is answered whole, or the connection
\* goes away, unless a window is used up or the HEADERS of an answer find no
\* room in the write buffer (handle_end_stream, http2_continue_send,
\* on_stream_send_complete).
RequestsAnswered ==
  \A s \in StreamIds :
    (stream_id = s /\ buf = "body" /\ stream_state = "HALF_CLOSED_REMOTE")
      ~> \/ resp[s] \in {"ended", "reset"} \/ sock = "CLOSED" \/ Aborted
         \/ window_size = 0 \/ stream_window <= 0
         \/ "HEADERS" \in lost

-----------------------------------------------------------------------------
(* What comments and assertions of the code say of it, and it does not do.  *)

\* event_write is only called on a connected socket (the assertion of
\* event_write).
WritesConnected == failed # "event_write: state"
=============================================================================
