----------------------------- MODULE HpackCode -----------------------------
(***************************************************************************)
(* The octets of HPACK: the integer code of hpack/encoder.c, decoder.c and *)
(* utils.c, the Huffman code of hpack/huffman.c, strings, and the octets   *)
(* of one header.  A string is a sequence of octets, a header a record     *)
(*   [preamble, index, name, value]                                        *)
(* whose index is 0 if it has a name of its own.  What the index means is  *)
(* the matter of Hpack.                                                    *)
(*                                                                         *)
(* The specification enumerates integers and strings.                      *)
(***************************************************************************)
EXTENDS Integers, Sequences, SequencesExt, FiniteSetsExt

CONSTANTS
  MaxInteger,          \* HPACK_MAXIMUM_INTEGER
  NameLen, ValueLen,   \* HPACK_HEADER_NAME_LEN, HPACK_HEADER_VALUE_LEN
  BufferSize,          \* FRAME_MAX_SIZE - 9
  MaxN,                \* bound: integers that are tried
  Symbols, MaxString,  \* bound: strings that are tried
  Names, Indices       \* bound: names and indices of the headers with them

ASSUME CodeAssumption ==
  /\ MaxInteger \in 0 .. 2 ^ 28 - 1 /\ NameLen \in Nat /\ ValueLen \in Nat /\ BufferSize \in Nat
  /\ MaxN \in Nat /\ MaxString \in Nat
  /\ Symbols \subseteq 1 .. 255 /\ Indices \subseteq Nat

VARIABLES n, str

vars == <<n, str>>

COMPRESSION_ERROR == -1
INTERNAL_ERROR == -2
MEMORY_ERROR == -3

INDEXED       == 128   \* INDEXED_HEADER_FIELD
INCREMENTAL   == 64    \* LITERAL_HEADER_FIELD_WITH_INCREMENTAL_INDEXING
SIZE_UPDATE   == 32    \* DYNAMIC_TABLE_SIZE_UPDATE
NEVER_INDEXED == 16    \* LITERAL_HEADER_FIELD_NEVER_INDEXED
NOT_INDEXED   == 0     \* LITERAL_HEADER_FIELD_WITHOUT_INDEXING

\* The octets from the position at on, counted from 0.
From(octets, at) == SubSeq(octets, at + 1, Len(octets))

-----------------------------------------------------------------------------
(* Integers.                                                                *)

\* The largest power of 128 that is at most x, or 0 for 1 .. 127.
hpack_utils_log128(x) ==
  LET k == Min({i \in 0 .. 4 : 128 ^ i >= x})
  IN  IF 128 ^ k = x THEN k ELSE k - 1

\* Variant: the integer that fills the prefix is taken to need no octet more.
hpack_utils_encoded_integer_size_full(num, prefix) ==
  LET p == 2 ^ prefix - 1
  IN  IF num <= p THEN 1 ELSE hpack_utils_log128(num - p) + 2

hpack_utils_encoded_integer_size(num, prefix) ==
  LET p == 2 ^ prefix - 1
  IN  CASE num < p -> 1
        [] num = p -> 2
        [] num > p -> hpack_utils_log128(num - p) + 2

\* The octets after the first: seven bits each, the lowest first.
Septets[i \in Nat] ==
  IF i < 128 THEN <<i>> ELSE <<(i % 128) + 128>> \o Septets[i \div 128]

Octets(integer, prefix, preamble) ==
  LET p == 2 ^ prefix - 1
  IN  IF integer < p THEN <<preamble + integer>>
      ELSE <<preamble + p>> \o Septets[integer - p]

\* The octets of integer, the first with the bits of the preamble, or <<>>.
hpack_encoder_encode_integer(integer, prefix, preamble) ==
  IF integer > MaxInteger THEN <<>> ELSE Octets(integer, prefix, preamble)

\* The octets from the second to the first without a continuation bit.
Continuation(octets) ==
  SubSeq(octets, 2, Min({i \in 2 .. Len(octets) : octets[i] < 128}))

SumOfSeptets(octets) ==
  MapThenSumSet(LAMBDA i : (octets[i] % 128) * 128 ^ (i - 1), 1 .. Len(octets))

\* p and the septets, summed in an uint32_t, or -1 if that is above the limit:
\* low is the sum of the first four, and the four highest bits of the uint32_t
\* are what it carries and the fifth.  A septet after the fifth is shifted by
\* more than 31 bits, which has no defined result; there are none here.
SumWithin(p, septets) ==
  LET low   == p + SumOfSeptets(SubSeq(septets, 1, Min({4, Len(septets)})))
      fifth == IF Len(septets) < 5 THEN 0 ELSE septets[5] % 128
  IN  IF (fifth + low \div 2 ^ 28) % 16 # 0 \/ low % 2 ^ 28 > MaxInteger THEN -1
      ELSE low % 2 ^ 28

\* The integer at the start of octets, or -1.  A limit below 256 is compared
\* with an integer in the first octet, too, and there excludes itself.
hpack_decoder_decode_integer(octets, prefix) ==
  LET p  == 2 ^ prefix - 1
      b0 == octets[1] % 2 ^ prefix
  IN  IF b0 = p THEN SumWithin(p, Continuation(octets))
      ELSE IF MaxInteger < 256 /\ b0 >= MaxInteger THEN -1 ELSE b0

-----------------------------------------------------------------------------
(* The Huffman code.  The symbols in the order of their codes, the place of *)
(* each in it, and for each length the place and the code of the first      *)
(* symbol that has at least this length.                                    *)

L ==
  <<48, 49, 50, 97, 99, 101, 105, 111, 115, 116, 32, 37, 45, 46, 47, 51, 52, 53, 54, 55,
    56, 57, 61, 65, 95, 98, 100, 102, 103, 104, 108, 109, 110, 112, 114, 117, 58, 66, 67, 68,
    69, 70, 71, 72, 73, 74, 75, 76, 77, 78, 79, 80, 81, 82, 83, 84, 85, 86, 87, 89,
    106, 107, 113, 118, 119, 120, 121, 122, 38, 42, 44, 59, 88, 90, 33, 34, 40, 41, 63, 39,
    43, 124, 35, 62, 0, 36, 64, 91, 93, 126, 94, 125, 60, 96, 123, 92, 195, 208, 128, 130,
    131, 162, 184, 194, 224, 226, 153, 161, 167, 172, 176, 177, 179, 209, 216, 217, 227, 229, 230, 129,
    132, 133, 134, 136, 146, 154, 156, 160, 163, 164, 169, 170, 173, 178, 181, 185, 186, 187, 189, 190,
    196, 198, 228, 232, 233, 1, 135, 137, 138, 139, 140, 141, 143, 147, 149, 150, 151, 152, 155, 157,
    158, 165, 166, 168, 174, 175, 180, 182, 183, 188, 191, 197, 231, 239, 9, 142, 144, 145, 148, 159,
    171, 206, 215, 225, 236, 237, 199, 207, 234, 235, 192, 193, 200, 201, 202, 205, 210, 213, 218, 219,
    238, 240, 242, 243, 255, 203, 204, 211, 212, 214, 221, 222, 223, 241, 244, 245, 246, 247, 248, 250,
    251, 252, 253, 254, 2, 3, 4, 5, 6, 7, 8, 11, 12, 14, 15, 16, 17, 18, 19, 20,
    21, 23, 24, 25, 26, 27, 28, 29, 30, 31, 127, 220, 249, 10, 13, 22>>

L_inverse ==
  <<84, 145, 224, 225, 226, 227, 228, 229, 230, 174, 253, 231, 232, 254, 233, 234, 235, 236, 237, 238,
    239, 240, 255, 241, 242, 243, 244, 245, 246, 247, 248, 249, 10, 74, 75, 82, 85, 11, 68, 79,
    76, 77, 69, 80, 70, 12, 13, 14, 0, 1, 2, 15, 16, 17, 18, 19, 20, 21, 36, 71,
    92, 22, 83, 78, 86, 23, 37, 38, 39, 40, 41, 42, 43, 44, 45, 46, 47, 48, 49, 50,
    51, 52, 53, 54, 55, 56, 57, 58, 72, 59, 73, 87, 95, 88, 90, 24, 93, 3, 25, 4,
    26, 5, 27, 28, 29, 6, 60, 61, 30, 31, 32, 7, 33, 62, 34, 8, 9, 35, 63, 64,
    65, 66, 67, 94, 81, 91, 89, 250, 98, 119, 99, 100, 120, 121, 122, 146, 123, 147, 148, 149,
    150, 151, 175, 152, 176, 177, 124, 153, 178, 154, 155, 156, 157, 106, 125, 158, 126, 159, 160, 179,
    127, 107, 101, 128, 129, 161, 162, 108, 163, 130, 131, 180, 109, 132, 164, 165, 110, 111, 133, 112,
    166, 134, 167, 168, 102, 135, 136, 137, 169, 138, 139, 170, 190, 191, 103, 96, 140, 171, 141, 186,
    192, 193, 194, 205, 206, 195, 181, 187, 97, 113, 196, 207, 208, 197, 209, 182, 114, 115, 198, 199,
    251, 210, 211, 212, 104, 183, 105, 116, 142, 117, 118, 172, 143, 144, 188, 189, 184, 185, 200, 173,
    201, 213, 202, 203, 214, 215, 216, 217, 218, 252, 219, 220, 221, 222, 223, 204>>

F ==
  <<0, 0, 0, 0, 0, 0, 10, 36, 68, 74, 74, 79, 82, 84, 90, 92, 95, 95, 95, 95,
    98, 106, 119, 145, 174, 186, 190, 205, 224, 253, 253>>

C ==
  <<0, 0, 0, 0, 0, 0, 20, 92, 248, 508,
    1016, 2042, 4090, 8184, 16380, 32764, 65534, 131068, 262136, 524272,
    1048550, 2097116, 4194258, 8388568, 16777194, 33554412, 67108832, 134217694, 268435426, 536870910,
    1073741820>>

Bits(code, length) == [i \in 1 .. length |-> (code \div 2 ^ (length - i)) % 2]

Number(bits) == FoldLeft(LAMBDA acc, b : 2 * acc + b, 0, bits)

BitsOf(octets) == [i \in 1 .. 8 * Len(octets) |-> Bits(octets[((i - 1) \div 8) + 1], 8)[((i - 1) % 8) + 1]]

\* The bits of the code of a symbol.
hpack_huffman_encode(sym) ==
  LET place  == L_inverse[sym + 1]
      length == IF place >= F[31] THEN 30 ELSE Min({i \in 1 .. 30 : place < F[i + 1]}) - 1
  IN  Bits(place - F[length + 1] + C[length + 1], length)

\* The length of the code that begins the 30 bits of code.
CodeLength(code) == Min({30} \cup {i \in 5 .. 29 : code < C[i + 2] * 2 ^ (29 - i)})

Symbol(place, length) ==
  IF place < 256 THEN [sym |-> L[place + 1], length |-> length] ELSE [sym |-> 0, length |-> -1]

Place(code, length) == F[length + 1] + (code \div 2 ^ (30 - length)) - C[length + 1]

\* Variant: the code of a symbol is one bit shorter than it is.
hpack_huffman_decode_short(code) ==
  Symbol(Place(code, CodeLength(code)), CodeLength(code) - 1)

\* The symbol whose code begins the 30 bits of code, and its length, or -1.
hpack_huffman_decode(code) == Symbol(Place(code, CodeLength(code)), CodeLength(code))

\* The bits are filled up with ones to whole octets.
hpack_encoder_pack_encoded_words_to_bytes(words) ==
  LET bits == FlattenSeq(words)
      Bit(i) == IF i <= Len(bits) THEN bits[i] ELSE 1
  IN  [k \in 1 .. (Len(bits) + 7) \div 8 |-> Number([i \in 1 .. 8 |-> Bit(8 * (k - 1) + i)])]

\* What is left at the end of a string is less than an octet of ones.
hpack_decoder_check_huffman_padding(bits, pos) ==
  LET left == (Len(bits) - pos) % 256
  IN  IF left < 8 /\ \A i \in 1 .. left : bits[Len(bits) + 1 - i] = 1
      THEN 0 ELSE COMPRESSION_ERROR

\* The symbol at pos and the length of its code, 0 at the end of the string,
\* or an error.  The bits are filled up with ones to the longest code.
hpack_decoder_decode_huffman_word(bits, pos) ==
  LET left == Len(bits) - pos
      Bit(i) == IF i <= left THEN bits[pos + i] ELSE 1
      word == hpack_huffman_decode(Number([i \in 1 .. 30 |-> Bit(i)]))
  IN  IF left >= 5 /\ word.length >= 0 THEN word
      ELSE [sym |-> 0, length |-> hpack_decoder_check_huffman_padding(bits, pos)]

\* The symbols read at pos and the return code: an error, or 0.
HuffmanString(bits, max) ==
  LET step[pos \in Nat, i \in Nat] ==
        LET word == hpack_decoder_decode_huffman_word(bits, pos)
            rest == step[pos + word.length, i + 1]
        IN  IF pos > Len(bits) THEN [rc |-> 0, str |-> <<>>]
            ELSE IF max < i THEN [rc |-> MEMORY_ERROR, str |-> <<>>]
            ELSE IF word.length <= 0 THEN [rc |-> word.length, str |-> <<>>]
            ELSE [rc |-> rest.rc, str |-> <<word.sym>> \o rest.str]
  IN  step[0, 0]

-----------------------------------------------------------------------------
(* Strings.  The encoder returns <<>> for an error, which is no code.       *)

\* The length and the octets of a string, if there is room for them.
Lengthened(octets, huffman_bit) ==
  LET length == hpack_encoder_encode_integer(Len(octets), 7, huffman_bit)
  IN  IF length = <<>> \/ Len(length) + Len(octets) >= BufferSize THEN <<>>
      ELSE length \o octets

hpack_encoder_encode_huffman_string(s) ==
  Lengthened(hpack_encoder_pack_encoded_words_to_bytes(
               [i \in 1 .. Len(s) |-> hpack_huffman_encode(s[i])]), 128)

hpack_encoder_encode_non_huffman_string(s) == Lengthened(s, 0)

\* The shorter of the two codes.
hpack_encoder_encode_string(s) ==
  LET code == hpack_encoder_encode_huffman_string(s)
  IN  IF code = <<>> \/ Len(code) > Len(s)
      THEN hpack_encoder_encode_non_huffman_string(s) ELSE code

\* The string that octets stand for.
hpack_decoder_decode_string(octets, huffman_bit, max) ==
  IF huffman_bit THEN HuffmanString(BitsOf(octets), max)
  ELSE IF Len(octets) > max THEN [rc |-> MEMORY_ERROR, str |-> <<>>]
  ELSE [rc |-> 0, str |-> octets]

\* No 30 ones in a row, wherever a symbol begins, in the part of a string
\* whose length is left in eight bits.
hpack_check_eos_symbol(octets) ==
  LET bits == BitsOf(SubSeq(octets, 1, Len(octets) % 256))
  IN  IF \E pos \in 0 .. Len(bits) - 30 : \A i \in 1 .. 30 : bits[pos + i] = 1
      THEN COMPRESSION_ERROR ELSE 0

-----------------------------------------------------------------------------
(* Headers.                                                                 *)

\* Variant: the bit of a size update is looked at before those above it.
hpack_utils_get_preamble_low(octet) ==
  IF (octet \div SIZE_UPDATE) % 2 = 1 THEN SIZE_UPDATE
  ELSE Max({p \in {INDEXED, INCREMENTAL, NEVER_INDEXED} : (octet \div p) % 2 = 1}
           \cup {NOT_INDEXED})

\* The highest bit that is set tells the kind of header.
hpack_utils_get_preamble(octet) ==
  Max({p \in {INDEXED, INCREMENTAL, SIZE_UPDATE, NEVER_INDEXED} : (octet \div p) % 2 = 1}
      \cup {NOT_INDEXED})

hpack_utils_find_prefix_size(preamble) ==
  CASE preamble = INDEXED -> 7
    [] preamble = INCREMENTAL -> 6
    [] preamble = SIZE_UPDATE -> 5
    [] OTHER -> 4

\* The parts of a header, or <<>> if there is an error in one.
Parts(parts) == IF <<>> \in ToSet(parts) THEN <<>> ELSE FlattenSeq(parts)

\* The octets of a header, or <<>>.
hpack_encoder_encode_header(h) ==
  LET index == hpack_encoder_encode_integer(h.index, hpack_utils_find_prefix_size(h.preamble),
                                            h.preamble)
      name  == hpack_encoder_encode_string(h.name)
      value == hpack_encoder_encode_string(h.value)
  IN  CASE h.index = 0 -> Parts(<< <<h.preamble>>, name, value >>)
        [] h.index # 0 /\ h.preamble = INDEXED -> index
        [] h.index # 0 /\ h.preamble # INDEXED -> Parts(<<index, value>>)

\* The octets of a size update, after the table was resized.
hpack_encoder_encode_dynamic_size_update(max_size) ==
  hpack_encoder_encode_integer(max_size, 5, SIZE_UPDATE)

NoString == [at |-> 0, octets |-> <<>>, huffman_bit |-> FALSE, rc |-> 0]

\* The string of length len from start on.
StringAt(memory, start, len, huffman_bit, size) ==
  IF len < 0 \/ start > size \/ start + len > size
  THEN [NoString EXCEPT !.rc = COMPRESSION_ERROR]
  ELSE [at |-> start + len, octets |-> SubSeq(memory, start + 1, start + len),
        huffman_bit |-> huffman_bit, rc |-> 0]

\* A string at position at of the memory that begins with a block of this
\* size: where it ends and its octets, or an error.
ParseString(memory, at, size) ==
  LET len == hpack_decoder_decode_integer(From(memory, at), 7)
  IN  StringAt(memory, at + hpack_utils_encoded_integer_size(len, 7), len,
               memory[at + 1] >= 128, size)

Refused(rc) == [preamble |-> 0, index |-> 0, size |-> rc, name |-> NoString, value |-> NoString]

Literal(preamble, index, name, value) ==
  IF name.rc < 0 \/ value.rc < 0 THEN Refused(COMPRESSION_ERROR)
  ELSE [preamble |-> preamble, index |-> index, size |-> value.at, name |-> name, value |-> value]

\* The literal header with this name.
ParseValue(memory, size, preamble, index, name) ==
  Literal(preamble, index, name, ParseString(memory, name.at, size))

\* The header with this index, which ends at the position at.
ParseIndexed(memory, size, preamble, index, at) ==
  CASE index < 0 -> Refused(COMPRESSION_ERROR)
    [] index >= 0 /\ preamble \in {INDEXED, SIZE_UPDATE} ->
         [Refused(at) EXCEPT !.preamble = preamble, !.index = index]
    [] index >= 0 /\ preamble \notin {INDEXED, SIZE_UPDATE} ->
         IF at > size THEN Refused(COMPRESSION_ERROR)
         ELSE ParseValue(memory, size, preamble, index,
                         IF index = 0 THEN ParseString(memory, at, size)
                         ELSE [NoString EXCEPT !.at = at])

\* The header at the start of the memory, with the octets of its strings; size
\* is the number of octets read, or an error.
hpack_decoder_parse_encoded_header(memory, size) ==
  LET preamble == hpack_utils_get_preamble(memory[1])
      prefix   == hpack_utils_find_prefix_size(preamble)
      index    == hpack_decoder_decode_integer(memory, prefix)
  IN  ParseIndexed(memory, size, preamble, index, hpack_utils_encoded_integer_size(index, prefix))

\* The index 0 has no header, and a literal must not have the end symbol.
hpack_decoder_check_errors(h) ==
  CASE h.preamble = INDEXED -> IF h.index = 0 THEN COMPRESSION_ERROR ELSE 0
    [] h.preamble = SIZE_UPDATE -> 0
    [] OTHER -> Min({0} \cup {hpack_check_eos_symbol(s.octets) :
                                s \in {t \in {h.name, h.value} : Len(t.octets) >= 4}})

\* The first error, or else the header.
Checked(rcs, header) ==
  IF \E i \in DOMAIN rcs : rcs[i] < 0
  THEN [rc |-> rcs[Min({i \in DOMAIN rcs : rcs[i] < 0})]] ELSE header

\* Variant: the end of the header is not compared with that of the block.
Decoded_end(h, name, value, size) ==
  Checked(<<h.size, hpack_decoder_check_errors(h), name.rc, value.rc>>,
          [rc |-> h.size, preamble |-> h.preamble, index |-> h.index,
           name |-> name.str, value |-> value.str])

\* The header h with its strings decoded, in a block of this size.
Decoded(h, name, value, size) ==
  Checked(<<h.size, hpack_decoder_check_errors(h), name.rc, value.rc,
            IF h.size > size THEN INTERNAL_ERROR ELSE 0>>,
          [rc |-> h.size, preamble |-> h.preamble, index |-> h.index,
           name |-> name.str, value |-> value.str])

DecodeHeader(h, size) ==
  Decoded(h, hpack_decoder_decode_string(h.name.octets, h.name.huffman_bit, NameLen),
          hpack_decoder_decode_string(h.value.octets, h.value.huffman_bit, ValueLen), size)

\* The first header of a block as hpack_decoder_decode reads it, up to the
\* meaning of its index; rc is the number of its octets, or the first error.
Read(memory, size) == DecodeHeader(hpack_decoder_parse_encoded_header(memory, size), size)

-----------------------------------------------------------------------------
Init == n = 0 /\ str = <<>>

NextInteger ==
  /\ str = <<>> /\ n < MaxN
  /\ n' = n + 1
  /\ UNCHANGED str

Longer(sym) ==
  /\ n = 0 /\ Len(str) < MaxString
  /\ str' = Append(str, sym)
  /\ UNCHANGED n

Next == NextInteger \/ \E sym \in Symbols : Longer(sym)

Spec == Init /\ [][Next]_vars

-----------------------------------------------------------------------------
(* Properties.                                                              *)

Literals == {INCREMENTAL, NEVER_INDEXED, NOT_INDEXED}
Preambles == Literals \cup {INDEXED, SIZE_UPDATE}

\* hpack_decoder_decode_integer reads the integer that
\* hpack_encoder_encode_integer wrote, below every preamble, and
\* hpack_utils_encoded_integer_size is the number of its octets, by which the
\* decoder moves on; above HPACK_MAXIMUM_INTEGER both refuse it.
IntegersRead ==
  \A preamble \in Preambles :
    LET prefix == hpack_utils_find_prefix_size(preamble)
        code   == hpack_encoder_encode_integer(n, prefix, preamble)
    IN  IF n > MaxInteger
        THEN /\ code = <<>>
             /\ hpack_decoder_decode_integer(Octets(n, prefix, preamble), prefix) = -1
        ELSE /\ hpack_decoder_decode_integer(code, prefix) = n
             /\ hpack_utils_encoded_integer_size(n, prefix) = Len(code)

DecodeParsed(s, max) ==
  IF s.rc < 0 THEN s ELSE hpack_decoder_decode_string(s.octets, s.huffman_bit, max)

ReadBack(code, max) == DecodeParsed(ParseString(code, 0, Len(code)), max)

ReadsBack(s, huffman, raw, code) ==
  /\ \A c \in {huffman, raw, code} : ReadBack(c, ValueLen) = [rc |-> 0, str |-> s]
  /\ Len(code) = Min({Len(huffman), Len(raw)})

\* The octets of a Huffman code with one octet of padding too much.
Overlong(huffman) ==
  LET s == ParseString(huffman, 0, Len(huffman)) IN Append(s.octets, 255)

\* Every string is read as it was written, in the Huffman code and not, and
\* whichever of the two hpack_encoder_encode_string takes, which is the shorter.
\* This goes for every single symbol, too, the 30 bits of '\n' included.  With an
\* octet of padding too much the Huffman code is refused.
StringsRead ==
  \A s \in {str} \cup {<<sym>> : sym \in {n} \cap 1 .. 255} :
    LET huffman == hpack_encoder_encode_huffman_string(s)
    IN  /\ ReadsBack(s, huffman, hpack_encoder_encode_non_huffman_string(s),
                     hpack_encoder_encode_string(s))
        /\ hpack_decoder_decode_string(Overlong(huffman), TRUE, ValueLen).rc < 0

\* The headers with the value str, and the ones without a value of their own.
\* The index of a size update is the size.
Headers ==
  [preamble : Literals, index : {0}, name : Names, value : {str}]
    \cup [preamble : Literals, index : Indices, name : {<<>>}, value : {str}]
    \cup [preamble : {INDEXED}, index : Indices, name : {<<>>}, value : {<<>>}]
    \cup [preamble : {SIZE_UPDATE}, index : {0} \cup Indices, name : {<<>>}, value : {<<>>}]

CodeOf(h) ==
  IF h.preamble = SIZE_UPDATE THEN hpack_encoder_encode_dynamic_size_update(h.index)
  ELSE hpack_encoder_encode_header(h)

HeaderReadsBack(h, code) ==
  Read(code \o <<255, 255, 0>>, Len(code))
    = [rc |-> Len(code), preamble |-> h.preamble, index |-> h.index,
       name |-> h.name, value |-> h.value]

\* A header is read as it was written, whatever the preamble, with a name or
\* the index of one, and with no octet of what follows it in the buffer.
HeadersRead == n = 0 => \A h \in Headers : HeaderReadsBack(h, CodeOf(h))

\* The code is cut after size octets, and what follows in memory goes on with
\* three octets that end every number that is open, or with none and the code.
CutsRefused(code) ==
  \A size \in 1 .. Len(code) - 1, octet \in {0, 1, 127, 128, 255} :
    \A behind \in {<<>>, <<octet, octet % 128>>, <<octet, octet, octet % 128>>} :
      Read(SubSeq(code, 1, size) \o behind \o code \o <<0>>, size).rc < 0

\* A header whose last octets did not fit into the buffer that
\* http2.c:handle_header_block collects a block in is refused, and no other is
\* read in its place from the memory behind the buffer, if a number that is cut
\* ends there within four octets (a longer one may pass 2^32 and come out small).
\* A size update is not among these headers: one of three octets that is cut
\* after the second can be read as one of a smaller size.
CutRefused ==
  n = 0 => \A h \in {g \in Headers : g.preamble # SIZE_UPDATE} : CutsRefused(CodeOf(h))
=============================================================================
