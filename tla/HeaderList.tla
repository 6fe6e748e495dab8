----------------------------- MODULE HeaderList -----------------------------
(***************************************************************************)
(* The header list of header_list.c: an array of HEADER_LIST_MAX_SIZE      *)
(* characters with the strings  name 0 value 0 name 0 value 0 ...  and the *)
(* number of headers.  A list here is a record of the used part of the     *)
(* array, whose length is the size, and the count.  Characters are         *)
(* positive numbers, in lower case.  Positions are counted from 0.         *)
(***************************************************************************)
EXTENDS Integers, Sequences, SequencesExt, FiniteSetsExt

CONSTANT ListSize   \* HEADER_LIST_MAX_SIZE

ASSUME ListAssumption == ListSize \in Nat

COMMA == 44

NULL == <<0>>   \* no string

header_list_reset == [buffer |-> <<>>, count |-> 0]

\* The string at a position: up to the next zero or the end (strnlen).
StringAt(buffer, pos) ==
  SubSeq(buffer, pos + 1, CHOOSE end \in pos .. Len(buffer) :
                            /\ end = Len(buffer) \/ buffer[end + 1] = 0
                            /\ \A i \in pos + 1 .. end : buffer[i] # 0)

\* The position of the value of the header at pos.
ValuePos(buffer, pos) == pos + Len(StringAt(buffer, pos)) + 1

\* The first position from start on that holds no zero.
SkipZeros(buffer, start) ==
  CHOOSE pos \in start .. Len(buffer) :
    /\ pos = Len(buffer) \/ buffer[pos + 1] # 0
    /\ \A i \in start + 1 .. pos : buffer[i] = 0

\* The position after the header at pos and the zeros behind it.
NextPos(buffer, pos) ==
  LET v == ValuePos(buffer, pos) IN SkipZeros(buffer, v + Len(StringAt(buffer, v)))

\* The positions of the headers, in their order.
Positions(buffer) ==
  LET walk[pos \in 0 .. Len(buffer)] ==
        IF pos = Len(buffer) THEN <<>> ELSE <<pos>> \o walk[NextPos(buffer, pos)]
  IN  walk[0]

MinOr(S, x) == IF S = {} THEN x ELSE Min(S)

\* The position of the first header whose name is taken for this one: as many
\* characters are compared as the stored name has.
header_list_index(list, name) ==
  MinOr({pos \in ToSet(Positions(list.buffer)) : IsPrefix(StringAt(list.buffer, pos), name)}, -1)

\* The value of the header at pos.
ValueAt(list, pos) == IF pos < 0 THEN NULL ELSE StringAt(list.buffer, ValuePos(list.buffer, pos))

header_list_get(list, name) == ValueAt(list, header_list_index(list, name))

\* The headers at the positions p, as pairs.
HeadersAt(list, p) == [i \in DOMAIN p |-> <<StringAt(list.buffer, p[i]), ValueAt(list, p[i])>>]

\* An empty name ends the list; only the first can be empty, as the zeros
\* behind a value are skipped.
header_list_all(list) ==
  IF list.buffer # <<>> /\ list.buffer[1] = 0 THEN <<>>
  ELSE HeadersAt(list, Positions(list.buffer))

header_list_splice(list, start, count) ==
  [list EXCEPT !.buffer = SubSeq(@, 1, start) \o SubSeq(@, start + count + 1, Len(@))]

Result(rc, list) == [rc |-> rc, list |-> list]

header_list_append(list, name, value) ==
  IF Len(name) + 1 + Len(value) + 1 > ListSize - Len(list.buffer) THEN Result(-1, list)
  ELSE Result(0, [buffer |-> list.buffer \o name \o <<0>> \o value \o <<0>>,
                  count  |-> list.count + 1])

\* The list without the header at start.
Without(list, start) ==
  LET end == ValuePos(list.buffer, start) + Len(ValueAt(list, start)) + 1
  IN  [header_list_splice(list, start, end - start) EXCEPT !.count = @ - 1]

\* Variant: the number of headers is not kept when a header is moved.
AddAt_count(list, start, name, value) ==
  IF start < 0 THEN header_list_append(list, name, value)
  ELSE IF 1 + Len(value) > ListSize - Len(list.buffer) THEN Result(-1, list)
  ELSE header_list_append([Without(list, start) EXCEPT !.count = @ + 1],
                          name, ValueAt(list, start) \o <<COMMA>> \o value)

\* A value is added to those of the header at start; the header goes to the
\* end of the list.
AddAt(list, start, name, value) ==
  IF start < 0 THEN header_list_append(list, name, value)
  ELSE IF 1 + Len(value) > ListSize - Len(list.buffer) THEN Result(-1, list)
  ELSE header_list_append(Without(list, start), name, ValueAt(list, start) \o <<COMMA>> \o value)

header_list_add(list, name, value) == AddAt(list, header_list_index(list, name), name, value)

\* The value replaces that of the header at start.  The room is an unsigned
\* number: it counts as large if the difference is negative.
SetAt(list, start, name, value) ==
  LET room == ListSize - Len(list.buffer) - Len(ValueAt(list, start))
  IN  IF start < 0 THEN header_list_append(list, name, value)
      ELSE IF room >= 0 /\ 1 + Len(value) + 1 > room THEN Result(-1, list)
      ELSE header_list_append(Without(list, start), name, value)

header_list_set(list, name, value) == SetAt(list, header_list_index(list, name), name, value)
=============================================================================
