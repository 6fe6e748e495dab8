----------------------------- MODULE HpackTable -----------------------------
(***************************************************************************)
(* The dynamic table of hpack/tables.c: a circular buffer of characters    *)
(* that holds headers as  0 name 0 value 0 name 0 value 0, each zero       *)
(* shared by the strings on its two sides.  Positions are counted          *)
(* backwards from next; the header of index 61 + k is the k-th newest.     *)
(*                                                                         *)
(* A header that the static table holds is found there and never reaches   *)
(* this code: Names and Values stand for the others.                       *)
(***************************************************************************)
EXTENDS Integers, Sequences, FiniteSetsExt, Sums

CONSTANTS
  Names, Values,   \* strings, without their final zero
  Overhead,        \* 32 in the code
  MaxTable,        \* HPACK_MAX_DYNAMIC_TABLE_SIZE
  Sizes            \* bound: table sizes a peer asks for

UINT8_MAX  == 255     \* of the counter of a search
INT16_MAX  == 32767   \* of the distances that functions return
UINT16_MAX == 2 * INT16_MAX + 1   \* of the sizes and positions

\* The buffers of HPACK_HEADER_NAME_LEN and HPACK_HEADER_VALUE_LEN characters
\* that headers are decoded into bound the strings: 16 bits hold the size of
\* every header.
ASSUME TableAssumption ==
  /\ Overhead \in Nat /\ Overhead > 2
  /\ MaxTable \in 0 .. INT16_MAX /\ Sizes \subseteq Nat
  /\ Names \cup Values \subseteq Seq(Nat \ {0})
  /\ \A s \in Names \cup Values : 2 * Len(s) + Overhead <= UINT16_MAX

VARIABLES
  table,   \* hpack_dynamic_table_t
  stuck    \* a loop that removes entries does not end

vars == <<table, stuck>>

ERROR == -2   \* HPACK_INTERNAL_ERROR

\* The cell of the buffer of t at distance i after position p.
Cell(t, p, i) == t.buffer[(p + i + t.max_size) % t.max_size]

\* The least of the distances in D, or an error: what a loop finds first.
First(D) == IF D = {} THEN ERROR ELSE Min(D)

\* The zeros at the distances 1 .. i before next.
Zeros(t, i) == Cardinality({j \in 1 .. i : Cell(t, t.next, -j) = 0})

-----------------------------------------------------------------------------
(* Reading.                                                                 *)

\* The distance before next at which the k-th newest header begins.
hpack_tables_dynamic_pos_of_index(t, k) ==
  First({i \in 1 .. t.max_size - 1 : Zeros(t, i) = 2 * k})

\* The string that begins after the zero at distance pos.
hpack_tables_dynamic_copy_to_ext(t, pos) ==
  LET n == First({i \in 1 .. t.max_size - 1 : Cell(t, t.next - pos, i) = 0})
  IN  [i \in 1 .. n - 1 |-> Cell(t, t.next - pos, i)]

\* The header of index 61 + k.
hpack_tables_dynamic_find_entry_name_and_value(t, k) ==
  LET string == [pos \in Int |-> hpack_tables_dynamic_copy_to_ext(t, pos)]
      header == [pos \in Int |-> <<string[pos], string[pos - Len(string[pos]) - 1]>>]
  IN  header[hpack_tables_dynamic_pos_of_index(t, k)]

\* Whether the characters of str follow the zero at distance pos.
hpack_tables_dynamic_compare_string(t, pos, str) ==
  \A i \in 1 .. Len(str) : str[i] = Cell(t, t.next - pos, i)

\* The strings that a search has passed at distance i, in 8 bits.
strings_counter(t, i) == Zeros(t, i) % (UINT8_MAX + 1)

\* The distances at which a search compares: every second zero, until as many
\* headers are passed as there are.
Compared(t) ==
  {i \in 1 .. t.max_size :
     /\ Cell(t, t.next, -i) = 0
     /\ strings_counter(t, i) > 0 /\ strings_counter(t, i) % 2 = 0
     /\ \A j \in 1 .. i - 1 : strings_counter(t, j) \div 2 < t.n_entries}

\* Variant: the zero between name and value is not skipped.
Matches_unskipped(t, pos, name, value) ==
  /\ hpack_tables_dynamic_compare_string(t, pos, name)
  /\ hpack_tables_dynamic_compare_string(t, pos - Len(name), value)

\* The header at distance pos is taken for name and value.
Matches(t, pos, name, value) ==
  /\ hpack_tables_dynamic_compare_string(t, pos, name)
  /\ hpack_tables_dynamic_compare_string(t, pos - Len(name) - 1, value)

\* The k of the header that a search stops at, among those at the distances D.
FoundIn(t, D) == IF D = {} THEN ERROR ELSE strings_counter(t, Min(D)) \div 2

\* The first header that is taken for name and value.
hpack_tables_find_index(t, name, value) ==
  FoundIn(t, {i \in Compared(t) : Matches(t, i, name, value)})

\* The first header that is taken for one with this name.
hpack_tables_find_index_name(t, name) ==
  FoundIn(t, {i \in Compared(t) : hpack_tables_dynamic_compare_string(t, i, name)})

-----------------------------------------------------------------------------
(* Removing entries.                                                        *)

\* The distance after first at which the oldest header ends.
OldestEnd(t) ==
  First({i \in 1 .. t.max_size - 1 :
           Cardinality({j \in 1 .. i : Cell(t, t.first, j) = 0}) = 2})

\* Variant: the size counts the zeros of the entry, too.
hpack_tables_dynamic_pop_zeros(t) ==
  IF t.n_entries = 0 \/ OldestEnd(t) = ERROR THEN t
  ELSE [t EXCEPT !.first = (t.first + OldestEnd(t)) % t.max_size,
                 !.actual_size = (@ - (OldestEnd(t) + Overhead)) % (UINT16_MAX + 1),
                 !.n_entries = @ - 1]

\* Variant: only the characters are given back.
hpack_tables_dynamic_pop_chars(t) ==
  IF t.n_entries = 0 \/ OldestEnd(t) = ERROR THEN t
  ELSE [t EXCEPT !.first = (t.first + OldestEnd(t)) % t.max_size,
                 !.actual_size = (@ - (OldestEnd(t) - 2)) % (UINT16_MAX + 1),
                 !.n_entries = @ - 1]

hpack_tables_dynamic_pop(t) ==
  IF t.n_entries = 0 \/ OldestEnd(t) = ERROR THEN t
  ELSE [t EXCEPT !.first = (t.first + OldestEnd(t)) % t.max_size,
                 !.actual_size = (@ - (OldestEnd(t) - 2 + Overhead)) % (UINT16_MAX + 1),
                 !.n_entries = @ - 1]

\* The table after k calls; more than there are entries change nothing.
Popped(t) ==
  LET after[k \in 0 .. t.n_entries] ==
        IF k = 0 THEN t ELSE hpack_tables_dynamic_pop(after[k - 1])
  IN  after

\* The loops call pop until the size is at most n.
Ends(t, n) == \E k \in 0 .. t.n_entries : Popped(t)[k].actual_size <= n

Evicted(t, n) ==
  Popped(t)[Min({k \in 0 .. t.n_entries : Popped(t)[k].actual_size <= n})]

-----------------------------------------------------------------------------
(* Adding an entry.                                                         *)

\* The string str between two zeros, the first at distance pos after next.
hpack_tables_dynamic_copy_from_ext(t, pos, str) ==
  LET at(i) == (t.next + pos + i) % t.max_size
      written == {at(i) : i \in 0 .. Len(str) + 1}
      Char(c) == CHOOSE i \in 0 .. Len(str) + 1 : at(i) = c
  IN  [t EXCEPT !.buffer =
         [c \in DOMAIN @ |->
            IF c \notin written THEN @[c]
            ELSE IF Char(c) \in 1 .. Len(str) THEN str[Char(c)] ELSE 0]]

\* The name, the value from the name's end on, and the counters.
Written(t, name, value) ==
  [hpack_tables_dynamic_copy_from_ext(
     hpack_tables_dynamic_copy_from_ext(t, 0, name), Len(name) + 1, value)
   EXCEPT !.n_entries = @ + 1,
          !.actual_size = @ + Len(name) + Len(value) + Overhead,
          !.next = (@ + Len(name) + Len(value) + 2) % t.max_size]

\* What a new entry leaves of the table for older ones; it is not added if
\* this is negative.
Room(t, name, value) == t.max_size - (Len(name) + Len(value) + Overhead)

Added(t, name, value) == Written(Evicted(t, Room(t, name, value)), name, value)

hpack_tables_dynamic_table_add_entry(name, value) ==
  LET room == Room(table, name, value)
  IN  /\ room >= 0
      /\ stuck' = ~Ends(table, room)
      /\ table' = IF stuck' THEN table ELSE Added(table, name, value)

-----------------------------------------------------------------------------
(* Changing the size.                                                       *)

\* The characters between first and next.
Used(t) == IF t.next <= t.first THEN t.max_size - t.first + t.next
                                ELSE t.next - t.first

\* Variant: the zero at next is not moved.
Moved_short(t) ==
  IF t.n_entries = 0 THEN [t EXCEPT !.first = 0, !.next = 0]
  ELSE [t EXCEPT !.buffer = [c \in DOMAIN @ |->
                               IF c < Used(t) THEN Cell(t, t.first, c) ELSE @[c]],
                 !.first = 0, !.next = Used(t)]

\* The entries are moved to the start of the buffer.  The code does this in
\* one of three ways that write the same cells.
Moved(t) ==
  IF t.n_entries = 0 THEN [t EXCEPT !.first = 0, !.next = 0]
  ELSE [t EXCEPT !.buffer = [c \in DOMAIN @ |->
                               IF c <= Used(t) THEN Cell(t, t.first, c) ELSE @[c]],
                 !.first = 0, !.next = Used(t)]

Shrunk(t, n) == [Moved(Evicted(t, n)) EXCEPT !.max_size = n]

\* The table t is given the size n.
Resized(t, n) ==
  /\ stuck' = ~Ends(t, n)
  /\ table' = IF stuck' THEN t ELSE Shrunk(t, n)

hpack_tables_dynamic_table_resize(n) ==
  /\ n <= table.settings_max_table_size
  /\ Resized(table, n)

\* A SETTINGS frame; update_settings passes at most MaxTable.
hpack_dynamic_change_max_size(n) ==
  /\ n <= MaxTable
  /\ Resized([table EXCEPT !.settings_max_table_size = n], n)

-----------------------------------------------------------------------------
hpack_tables_init_dynamic_table ==
  [buffer |-> [c \in 0 .. MaxTable - 1 |-> 0], max_size |-> MaxTable,
   settings_max_table_size |-> MaxTable, actual_size |-> 0, n_entries |-> 0,
   first |-> 0, next |-> 0]

Init == table = hpack_tables_init_dynamic_table /\ stuck = FALSE

Next ==
  /\ ~stuck
  /\ \/ \E name \in Names, value \in Values :
          hpack_tables_dynamic_table_add_entry(name, value)
     \/ \E n \in Sizes : \/ hpack_tables_dynamic_table_resize(n)
                         \/ hpack_dynamic_change_max_size(n)

Spec == Init /\ [][Next]_vars

-----------------------------------------------------------------------------
\* The headers of the table, the newest first, as the decoder reads them.
Entries ==
  [k \in 1 .. table.n_entries |-> hpack_tables_dynamic_find_entry_name_and_value(table, k)]

\* The size that pop and add_entry keep up to date is that of the headers that
\* can be read, however the buffer has wrapped, and is within the limit.
SizesAgree ==
  /\ table.actual_size
       = Total([k \in 1 .. table.n_entries |->
                  Len(Entries[k][1]) + Len(Entries[k][2]) + Overhead])
  /\ table.actual_size <= table.max_size

\* The loops of add_entry and resize, which do not look at what pop returns,
\* end.
EvictionEnds == ~stuck

\* The string s is the beginning of the string t.
Begins(s, t) == Len(s) <= Len(t) /\ SubSeq(t, 1, Len(s)) = s

\* The strings of S that are not the beginning of another one.
Unextended(S) == {s \in S : \A t \in S : Begins(s, t) => s = t}

\* The encoder finds a header, or a name, exactly if the table holds it, and
\* the newest one (hpack_tables_find_index and hpack_tables_find_index_name),
\* as long as the strings it looks for are not the beginning of others, and the
\* strings of the table are not more than the search can count.
FindsNewest ==
  2 * table.n_entries <= UINT8_MAX => \A name \in Unextended(Names) :
    /\ hpack_tables_find_index_name(table, name)
         = First({k \in 1 .. table.n_entries : Entries[k][1] = name})
    /\ \A value \in Unextended(Values) :
         hpack_tables_find_index(table, name, value)
           = First({k \in 1 .. table.n_entries : Entries[k] = <<name, value>>})

Abs == INSTANCE HpackEntries WITH
         entries <- Entries, limit <- table.max_size, cap <- table.settings_max_table_size

\* The circular buffer implements the list of headers: what the decoder reads
\* for an index is the header that HPACK has at this index, after any sequence
\* of additions, evictions and changes of size.
IsEntries == Abs!Spec

-----------------------------------------------------------------------------
(* What a comment says of the code, and it does not do.                     *)

\* The index that find_index returns is that of a header with both this name
\* and this value.
FoundIsEqual ==
  \A name \in Names, value \in Values :
    LET k == hpack_tables_find_index(table, name, value)
    IN  k # ERROR => Entries[k] = <<name, value>>
=============================================================================
