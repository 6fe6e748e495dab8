---------------------------- MODULE MCHpackTable ----------------------------
(* Instances of HpackTable for model checking.                             *)
EXTENDS HpackTable

\* Strings of which none begins another.
PrefixFreeNames  == {<<1>>, <<2, 1>>}
PrefixFreeValues == {<<1>>, <<2, 2>>}

\* Strings that begin others, the empty one among them.
NestedNames  == {<<1>>, <<1, 2>>}
NestedValues == {<<>>, <<2>>}
=============================================================================
