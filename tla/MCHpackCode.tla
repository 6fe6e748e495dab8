---------------------------- MODULE MCHpackCode ----------------------------
(***************************************************************************)
(* HpackCode with the limits of the default configuration, all integers up *)
(* to the largest and some more, and strings over symbols of different     *)
(* code lengths.                                                           *)
(***************************************************************************)
EXTENDS HpackCode

MCNames == {<<97>>, <<58, 109, 10>>}

\* The last integers of a first and of a second octet and the ones after them,
\* up to the last index that a table of 4096 octets can have.
MCIndices == {1, 14, 15, 30, 31, 61, 62, 63, 126, 127, 142, 143, 158, 159, 189}

\* 5, 6, 7, 8, 10, 13, 22, 28 and 30 bits.
MCSymbols == {48, 45, 58, 38, 33, 36, 129, 249, 10}
=============================================================================
