------------------------------- MODULE Hpack -------------------------------
(***************************************************************************)
(* Header compression in the server: hpack_decoder_decode turns a block    *)
(* into a header list, hpack_encoder_encode a header list into a block.    *)
(*                                                                         *)
(* A dynamic table is a record of the entries, the limit and the cap of    *)
(* HpackEntries, which HpackTable shows the code's to implement.  A search *)
(* finds the newest entry that is equal, as there for strings of which     *)
(* none begins another.                                                    *)
(*                                                                         *)
(* A block is the sequence of its representations                          *)
(*   [preamble, index, name, value]                                        *)
(* whose octets are the matter of HpackCode.  The index counts the static  *)
(* table, then the dynamic table from its newest entry on; it is 0 for a   *)
(* literal name and the size of a size update.  A header is a pair.        *)
(***************************************************************************)
EXTENDS HeaderList

CONSTANTS
  Overhead, MaxTable,   \* as in HpackTable
  Static                \* the static table: a sequence of headers

E == INSTANCE HpackEntries WITH
       Names <- {}, Values <- {}, entries <- <<>>, limit <- 0, cap <- 0

COMPRESSION_ERROR == -1
INTERNAL_ERROR == -2

NoHeader == <<>>

Rep(preamble, index, name, value) ==
  [preamble |-> preamble, index |-> index, name |-> name, value |-> value]

hpack_init == [entries |-> <<>>, limit |-> MaxTable, cap |-> MaxTable]

-----------------------------------------------------------------------------
(* A dynamic table t behind the static one.                                 *)

BothTables(t) == Static \o t.entries

\* The header of an index in either table.
hpack_tables_find_entry_name_and_value(t, index) ==
  IF index \in DOMAIN BothTables(t) THEN BothTables(t)[index] ELSE NoHeader

\* The first index whose header is in S, or 0.
FirstIndex(t, S) == MinOr({i \in DOMAIN BothTables(t) : BothTables(t)[i] \in S}, 0)

hpack_tables_find_index(t, name, value) == FirstIndex(t, {<<name, value>>})

hpack_tables_find_index_name(t, name) ==
  FirstIndex(t, {h \in ToSet(BothTables(t)) : h[1] = name})

Fits(t, h) == E!Size(h) <= t.limit

Insert(t, h) == [t EXCEPT !.entries = E!Newest(<<h>> \o @, t.limit)]

Limit(t, n) == [t EXCEPT !.limit = n, !.entries = E!Newest(@, n)]

-----------------------------------------------------------------------------
(* The server's decoder.                                                    *)

\* The state s of the decoder after an error, and after a header.
Fail(s, rc) == [s EXCEPT !.rc = rc]

\* The list of the state s is that of r.
WithList(s, r) == IF r.rc < 0 THEN Fail(s, r.rc) ELSE [s EXCEPT !.list = r.list]

\* hpack_decoder_decode drops a header without a name or without a value.
Keep(s, h) ==
  IF s.rc < 0 \/ h[1] = <<>> \/ h[2] = <<>> THEN s
  ELSE WithList(s, header_list_add(s.list, h[1], h[2]))

hpack_decoder_decode_indexed_header_field(s, rep) ==
  LET h == hpack_tables_find_entry_name_and_value(s.table, rep.index)
  IN  IF rep.index = 0 \/ h = NoHeader THEN Fail(s, COMPRESSION_ERROR) ELSE Keep(s, h)

\* The header is added to the table, if it has to be.
AddEntry(s, preamble, h) ==
  CASE preamble # "incremental" -> s
    [] preamble = "incremental" /\ ~Fits(s.table, h) -> Fail(s, INTERNAL_ERROR)
    [] preamble = "incremental" /\ Fits(s.table, h) -> [s EXCEPT !.table = Insert(@, h)]

KeepLiteral(s, preamble, h) == Keep(AddEntry(s, preamble, h), h)

\* The name is looked up before the header is added.
hpack_decoder_decode_literal_header_field(s, rep) ==
  LET h == IF rep.index = 0 THEN <<rep.name, rep.value>>
           ELSE hpack_tables_find_entry_name_and_value(s.table, rep.index)
  IN  IF h = NoHeader THEN Fail(s, COMPRESSION_ERROR)
      ELSE KeepLiteral(s, rep.preamble, <<h[1], rep.value>>)

hpack_decoder_decode_dynamic_table_size_update(s, rep) ==
  IF rep.index > s.table.cap THEN Fail(s, COMPRESSION_ERROR)
  ELSE [s EXCEPT !.table = Limit(@, rep.index)]

\* A size update may only come before the headers.
hpack_decoder_decode_header(s, rep) ==
  CASE rep.preamble = "size update" ->
         IF s.begun THEN Fail(s, COMPRESSION_ERROR)
         ELSE hpack_decoder_decode_dynamic_table_size_update(s, rep)
    [] rep.preamble = "indexed" ->
         hpack_decoder_decode_indexed_header_field([s EXCEPT !.begun = TRUE], rep)
    [] OTHER ->
         hpack_decoder_decode_literal_header_field([s EXCEPT !.begun = TRUE], rep)

\* The list of headers of a block, the table after it, and rc < 0 for an error.
hpack_decoder_decode(t, block) ==
  FoldLeft(LAMBDA s, rep : IF s.rc < 0 THEN s ELSE hpack_decoder_decode_header(s, rep),
           [table |-> t, list |-> header_list_reset, rc |-> 0, begun |-> FALSE], block)

-----------------------------------------------------------------------------
(* The server's encoder.                                                    *)

Name(index, name) == IF index = 0 THEN name ELSE <<>>

\* Variant: the peer is told to add a header that did not fit.
hpack_encoder_pack_header_unfit(s, h) ==
  LET index == hpack_tables_find_index(s.table, h[1], h[2])
      name  == hpack_tables_find_index_name(s.table, h[1])
      t     == IF Fits(s.table, h) THEN Insert(s.table, h) ELSE s.table
  IN  IF index > 0
      THEN [s EXCEPT !.block = Append(@, Rep("indexed", index, <<>>, <<>>))]
      ELSE [table |-> t,
            block |-> Append(s.block, Rep("incremental", name, Name(name, h[1]), h[2]))]

\* The representation of a header, which is added to the table if it is not
\* found and fits; the index of its name is the one before that.
hpack_encoder_pack_header(s, h) ==
  LET index == hpack_tables_find_index(s.table, h[1], h[2])
      name  == hpack_tables_find_index_name(s.table, h[1])
      fits  == Fits(s.table, h)
      t     == IF fits THEN Insert(s.table, h) ELSE s.table
      preamble == IF fits THEN "incremental" ELSE "never indexed"
  IN  IF index > 0
      THEN [s EXCEPT !.block = Append(@, Rep("indexed", index, <<>>, <<>>))]
      ELSE [table |-> t, block |-> Append(s.block, Rep(preamble, name, Name(name, h[1]), h[2]))]

\* The block of a list of headers and the table after it.
hpack_encoder_encode(t, list) ==
  FoldLeft(hpack_encoder_pack_header, [table |-> t, block |-> <<>>], header_list_all(list))
=============================================================================
