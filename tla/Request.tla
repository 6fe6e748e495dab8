------------------------------ MODULE Request ------------------------------
(***************************************************************************)
(* From a request of the peer to the response that it reads: HPACK with    *)
(* the one dynamic table of the connection (ctx->hpack_dynamic_table),     *)
(* which http2.c:handle_end_stream decodes with and encodes with, the      *)
(* header list, the checks of the request, the resource of the application *)
(* and the headers of the response.  Streams, frames and bodies are the    *)
(* matter of Http2.                                                        *)
(*                                                                         *)
(* The peer has a table for each direction, as RFC 7541 has it.            *)
(***************************************************************************)
EXTENDS Hpack, Resources

CONSTANTS
  METHOD, SCHEME, PATH, CONNECTION, TE, TRAILERS,   \* strings of requests
  STATUS, CONTENT_TYPE, CONTENT_LENGTH,             \* strings of responses
  MaxPath,      \* TWO_MAX_PATH_SIZE
  BufSize,      \* HTTP2_STREAM_BUF_SIZE
  Returns,      \* what each of the Handlers returns
  Requests,     \* bound: lists of headers that a peer sends
  Indexing,     \* whether the peer adds headers of requests to its table
  Resizing,     \* what the peer changes: "settings" or "updates"
  Sizes,        \* bound: table sizes that the peer would like
  MaxQueue      \* bound: messages under way in a direction

VARIABLES
  table,      \* hpack_dynamic_table of the connection
  closed,     \* the server sent a GOAWAY
  coder,      \* the peer's table for requests
  decoder,    \* the peer's table for responses
  toServer,   \* HEADERS and SETTINGS frames under way to the server
  toPeer,     \* HEADERS frames under way to the peer
  resizing    \* one of Resizing

vars ==
  <<resources, registered, others, table, closed, coder, decoder, toServer, toPeer, resizing>>

SLASH == 47
QUESTION == 63

-----------------------------------------------------------------------------
(* The server.                                                              *)

\* The path is what comes before the query, after a '/'; what does not fit
\* into the array is cut off.
parse_uri(uri) ==
  LET slash == IF uri = <<>> \/ Head(uri) # SLASH THEN <<SLASH>> ELSE <<>>
      len   == Min({Len(uri)} \cup {i - 1 : i \in {j \in 1 .. Len(uri) : uri[j] = QUESTION}})
  IN  slash \o SubSeq(uri, 1, Min({len, MaxPath - Len(slash) - 1}))

Response(status, type, length) == [status |-> status, type |-> type, length |-> length]

http_error(code) == Response(code, NULL, 0)

\* The answer to a method that is supported, by the resource at i.
Served(i) ==
  LET content_length == Returns[resources[i].handler]
  IN  IF i = 0 THEN http_error(404)
      ELSE IF content_length < 0 THEN http_error(500)
      ELSE Response(200, resources[i].type, Min({content_length, BufSize}))

http_handle_request(m, uri) ==
  IF ~http_has_method_support(m) THEN http_error(501)
  ELSE Served(find_resource(resources, m, parse_uri(uri)))

\* A comma is taken for that of a header that came twice.
Once(val) == val # NULL /\ val # <<>> /\ ~Contains(val, COMMA)

validate_pseudoheaders(list) ==
  /\ \A name \in {METHOD, SCHEME, PATH} : Once(header_list_get(list, name))
  /\ header_list_get(list, CONNECTION) = NULL
  /\ header_list_get(list, TE) \in {NULL, TRAILERS}

\* The characters of a number (snprintf).
Decimal[n \in Nat] == IF n < 10 THEN <<48 + n>> ELSE Append(Decimal[n \div 10], 48 + (n % 10))

\* The headers of a response; nobody looks at what header_list_set returns.
ResponseList(res) ==
  LET s == header_list_set(header_list_reset, STATUS, Decimal[res.status]).list
      t == IF res.type = NULL THEN s ELSE header_list_set(s, CONTENT_TYPE, res.type).list
  IN  header_list_set(t, CONTENT_LENGTH, Decimal[res.length]).list

-----------------------------------------------------------------------------
(* The peer.                                                                *)

\* The ways to represent h: by the index that has it, or with the index of the
\* name or the name itself, and then added to the table or not.  The peer adds
\* no header that is larger than the table.
Representations(t, h) ==
  LET index == hpack_tables_find_index(t, h[1], h[2])
      name  == hpack_tables_find_index_name(t, h[1])
      Literal(preamble) == Rep(preamble, name, Name(name, h[1]), h[2])
  IN  IF index > 0 THEN {[rep |-> Rep("indexed", index, <<>>, <<>>), table |-> t]}
      ELSE {[rep |-> Literal("not indexed"), table |-> t]}
             \cup {[rep |-> Literal(p), table |-> Insert(t, h)] :
                     p \in {q \in {"incremental"} : Indexing /\ Fits(t, h)}}

\* The blocks for a list of headers after the block of s, and the tables.
Encodings(s, list) ==
  FoldLeft(LAMBDA S, h : UNION {{[block |-> Append(e.block, r.rep), table |-> r.table] :
                                   r \in Representations(e.table, h)} : e \in S},
           {s}, list)

\* The state of the peer's decoder after a representation.
PeerDecodes(s, rep) ==
  LET entry == hpack_tables_find_entry_name_and_value(s.table, rep.index)
      name  == IF rep.index = 0 THEN rep.name ELSE entry[1]
      h     == IF rep.preamble = "indexed" THEN entry ELSE <<name, rep.value>>
  IN  IF rep.index # 0 /\ entry = NoHeader THEN [s EXCEPT !.headers = Append(@, NoHeader)]
      ELSE [headers |-> Append(s.headers, h),
            table |-> IF rep.preamble = "incremental" THEN Insert(s.table, h) ELSE s.table]

PeerDecode(t, block) == FoldLeft(PeerDecodes, [headers |-> <<>>, table |-> t], block)

-----------------------------------------------------------------------------
(* What a request asks for and is answered, without the representation of  *)
(* headers and resources.                                                  *)

\* The values of a name in a list of headers, joined by commas.
Joined(list, name) ==
  LET values == SelectSeq(list, LAMBDA h : h[1] = name)
  IN  FoldLeft(LAMBDA v, h : IF v = <<>> THEN h[2] ELSE v \o <<COMMA>> \o h[2], <<>>, values)

NamesOf(list) == {list[i][1] : i \in DOMAIN list}

\* The characters of the names, and of the values with a separator each.
SizeOfList(list) ==
  MapThenSumSet(LAMBDA name : Len(name) + 1, NamesOf(list))
    + MapThenSumSet(LAMBDA i : Len(list[i][2]) + 1, DOMAIN list)

WellFormed(list) ==
  /\ SizeOfList(list) <= ListSize
  /\ \A name \in {METHOD, SCHEME, PATH} :
       /\ Cardinality({i \in DOMAIN list : list[i][1] = name}) = 1
       /\ ~Contains(Joined(list, name), COMMA)
  /\ CONNECTION \notin NamesOf(list)
  /\ TE \in NamesOf(list) => Joined(list, TE) = TRAILERS

\* The part of a URI before the query, with a '/' at its start.
PathOf(uri) ==
  LET ends == {i \in DOMAIN uri : uri[i] = QUESTION}
      path == IF ends = {} THEN uri ELSE SubSeq(uri, 1, Min(ends) - 1)
  IN  IF path # <<>> /\ Head(path) = SLASH THEN path ELSE <<SLASH>> \o path

Registered(path) == IF path \in Paths THEN registered[path] ELSE Unregistered

Reply(code, type, n) ==
  <<<<STATUS, Decimal[code]>>>> \o type \o <<<<CONTENT_LENGTH, Decimal[n]>>>>

ReplyOf(r) ==
  CASE r = Unregistered -> Reply(404, <<>>, 0)
    [] r # Unregistered /\ Returns[r.handler] < 0 -> Reply(500, <<>>, 0)
    [] r # Unregistered /\ Returns[r.handler] >= 0 ->
         Reply(200, <<<<CONTENT_TYPE, r.type>>>>, Min({Returns[r.handler], BufSize}))

\* The headers of the response to a request with these headers.
Answer(list) ==
  IF Joined(list, METHOD) # GET THEN Reply(501, <<>>, 0)
  ELSE ReplyOf(Registered(PathOf(Joined(list, PATH))))

-----------------------------------------------------------------------------
Init ==
  /\ RInit
  /\ table = hpack_init /\ coder = hpack_init /\ decoder = hpack_init
  /\ closed = FALSE
  /\ toServer = <<>> /\ toPeer = <<>>
  /\ resizing \in Resizing

Send(msg) ==
  /\ ~closed /\ Len(toServer) < MaxQueue
  /\ toServer' = Append(toServer, msg)

Headers(list, block) == [type |-> "headers", list |-> list, block |-> block]

\* The peer sends a request, before which it may change the size of its table,
\* within the server's limit.
PeerRequest(list) ==
  \E sizes \in {<<>>} \cup {<<Min({n, MaxTable})>> : n \in {m \in Sizes : resizing = "updates"}} :
    LET t == FoldLeft(Limit, coder, sizes)
        updates == [i \in DOMAIN sizes |-> Rep("size update", sizes[i], <<>>, <<>>)]
    IN  \E e \in Encodings([block |-> updates, table |-> t], list) :
          /\ Send(Headers(list, e.block))
          /\ coder' = e.table
          /\ UNCHANGED <<resources, registered, others, table, closed, decoder, toPeer, resizing>>

\* The peer changes its SETTINGS_HEADER_TABLE_SIZE.  Its table for responses
\* keeps its limit, which only a size update of the server would change, and
\* the server sends none.
PeerSettings(n) ==
  /\ resizing = "settings"
  /\ Send([type |-> "settings", size |-> n])
  /\ UNCHANGED <<resources, registered, others, table, closed, coder, decoder, toPeer, resizing>>

\* update_settings, for this setting: a size above the server's own is taken for
\* that one, and so is never one that hpack_dynamic_change_max_size ignores.
hpack_dynamic_change_max_size ==
  /\ ~closed /\ toServer # <<>>
  /\ Head(toServer).type = "settings"
  /\ LET n == Min({MaxTable, Head(toServer).size})
     IN  table' = Limit([table EXCEPT !.cap = n], n)
  /\ toServer' = Tail(toServer)
  /\ UNCHANGED <<resources, registered, others, closed, coder, decoder, toPeer, resizing>>

\* The request with the decoded headers d is refused.
Refused(d) == d.rc < 0 \/ ~validate_pseudoheaders(d.list)

\* The response with the block e is sent.
SendResponse(e) ==
  /\ table' = e.table
  /\ toPeer' = Append(toPeer, Headers(Answer(Head(toServer).list), e.block))
  /\ UNCHANGED closed

Respond(d) ==
  \/ /\ Refused(d)
     /\ closed' = TRUE /\ table' = d.table /\ UNCHANGED toPeer
  \/ /\ ~Refused(d)
     /\ LET res == http_handle_request(header_list_get(d.list, METHOD),
                                       header_list_get(d.list, PATH))
        IN  SendResponse(hpack_encoder_encode(d.table, ResponseList(res)))

\* A request is decoded, checked and answered, with one and the same table.
handle_end_stream ==
  /\ ~closed /\ toServer # <<>> /\ Len(toPeer) < MaxQueue
  /\ Head(toServer).type = "headers"
  /\ Respond(hpack_decoder_decode(table, Head(toServer).block))
  /\ toServer' = Tail(toServer)
  /\ UNCHANGED <<resources, registered, others, coder, decoder, resizing>>

PeerResponse ==
  /\ toPeer # <<>>
  /\ decoder' = PeerDecode(decoder, Head(toPeer).block).table
  /\ toPeer' = Tail(toPeer)
  /\ UNCHANGED <<resources, registered, others, table, closed, coder, toServer, resizing>>

Next ==
  \/ \E list \in Requests : PeerRequest(list)
  \/ \E n \in Sizes : PeerSettings(n)
  \/ hpack_dynamic_change_max_size
  \/ handle_end_stream
  \/ PeerResponse
  \/ /\ RNext
     /\ UNCHANGED <<table, closed, coder, decoder, toServer, toPeer, resizing>>

Spec == Init /\ [][Next]_vars

-----------------------------------------------------------------------------
(* Properties.                                                              *)

\* The decoded headers d are those of a well-formed list.
ReadAs(list, d) ==
  /\ ~Refused(d)
  /\ \A name \in NamesOf(list) : header_list_get(d.list, name) = Joined(list, name)
  /\ d.list.count = Cardinality(NamesOf(list))
  /\ d.list.count = Len(header_list_all(d.list))

RequestRead(list, d) == IF WellFormed(list) THEN ReadAs(list, d) ELSE Refused(d)

\* The request that handle_end_stream handles next is refused exactly if it is
\* malformed or too large for the header list; if not, header_list_get gives
\* for each name what the peer sent, and count, by which the array for
\* header_list_all is sized, is the number of headers that it writes.
RequestsRead ==
  toServer # <<>> /\ Head(toServer).type = "headers" =>
    RequestRead(Head(toServer).list, hpack_decoder_decode(table, Head(toServer).block))

\* The response that the peer reads next has the status, content type and
\* length that the resource last registered for the path of its request had
\* when handle_end_stream answered it: although both directions use one table
\* and the server changes its size without a size update.
ResponsesRead ==
  toPeer # <<>> => PeerDecode(decoder, Head(toPeer).block).headers = Head(toPeer).list
=============================================================================
