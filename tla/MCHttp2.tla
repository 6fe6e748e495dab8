------------------------------ MODULE MCHttp2 ------------------------------
(* Instances of Http2: alphabets of frames and sizes, in abstract bytes.    *)
EXTENDS Http2

F(type, sid, fl, length, arg, its) ==
  [type |-> type, sid |-> sid, flags |-> fl, length |-> length, arg |-> arg, items |-> its]

Preface  == F("PREFACE", 0, {}, "ok", 0, <<>>)
Settings(its) == F("SETTINGS", 0, {}, "ok", 0, its)
Ack      == F("SETTINGS", 0, {"ACK"}, "ok", 0, <<>>)
Ping     == F("PING", 0, {}, "ok", 0, <<>>)
GoAway(last) == F("GOAWAY", 0, {}, "ok", last, <<>>)
Headers(sid, fl) == F("HEADERS", sid, fl, "ok", 1, <<>>)
Continuation(sid, fl) == F("CONTINUATION", sid, fl, "ok", 1, <<>>)
Data(sid, fl) == F("DATA", sid, fl, "ok", 0, <<>>)
Update(sid, n) == F("WINDOW_UPDATE", sid, {}, "ok", n, <<>>)
Reset(sid) == F("RST_STREAM", sid, {}, "ok", 0, <<>>)

Whole == {"END_HEADERS", "END_STREAM"}
Window(n) == [id |-> "window", value |-> n]
Known == [id |-> "known", value |-> 0]

\* Every frame takes one unit.
UnitSize == [k \in SentKinds |-> 1]

\* A peer that follows the protocol: requests in one or several frames, its
\* windows moved by SETTINGS and WINDOW_UPDATE.
ConformingFrames ==
  {Preface, Settings(<<Known>>), Ack, Settings(<<Window(1)>>), Ping}
  \cup {Headers(s, fl) : s \in {1, 3}, fl \in SUBSET Whole}
  \cup {Continuation(s, {"END_HEADERS"}) : s \in {1, 3}}
  \cup {Data(s, {"END_STREAM"}) : s \in {1, 3}}
  \cup {Update(s, 1) : s \in {0, 1, 3}}

\* Any peer: good frames and bad ones, on streams open, closed and never
\* opened, in any order.
AnyFrames ==
  {Preface, Settings(<<[id |-> "unknown", value |-> 0]>>), Settings(<<Known, Window(4)>>), Ack,
   Settings(<<[id |-> "invalid", value |-> 0]>>), Ping, GoAway(0),
   Headers(1, Whole), Headers(1, {}), Headers(1, {"END_HEADERS"}), Headers(3, Whole),
   Continuation(1, {"END_HEADERS"}), Data(1, {"END_STREAM"}), Update(1, 3), Reset(1),
   F("PUSH_PROMISE", 1, {}, "ok", 0, <<>>), F("HEADERS", 1, {}, "pad", 1, <<>>)}

\* Connections that end: by an error of the peer or by its silence, with
\* requests before.
ClosingFrames ==
  {Preface, Settings(<<Known>>), Ack, Ping, F("PING", 0, {"ACK"}, "ok", 0, <<>>),
   F("PING", 0, {}, "wrong", 0, <<>>), F("PRIORITY", 1, {}, "ok", 0, <<>>),
   GoAway(0), Headers(1, Whole), Headers(3, Whole),
   F("DATA", 1, {}, "over", 0, <<>>), F("DATA", 1, {}, "never", 0, <<>>)}

\* A peer that closes without acknowledging the settings.
LateTimerFrames == {Preface, Settings(<<Known>>), Ping, GoAway(0)}
=============================================================================
