------------------------------- MODULE MCCBuf -------------------------------
(***************************************************************************)
(* A buffer of three cells, so that a call may be split at every place, and *)
(* calls that ask for up to one byte more than fits.                       *)
(***************************************************************************)
EXTENDS CBuf

MCInputs == UNION {[1 .. n -> Bytes] : n \in 0 .. MaxLen + 1}
MCLengths == 0 .. MaxLen + 1
=============================================================================
