----------------------------- MODULE MCRequest -----------------------------
(***************************************************************************)
(* Instances of Request for model checking.  A name is one character, and  *)
(* the static table has the statuses 200, 404 and 500 and the names of the *)
(* other headers of a response, as that of the code.                       *)
(***************************************************************************)
EXTENDS Request

MCMETHOD == <<1>>
MCSCHEME == <<2>>
MCPATH == <<3>>
MCCONNECTION == <<4>>
MCTE == <<5>>
MCTRAILERS == <<6>>
MCSTATUS == <<7>>
MCCONTENT_TYPE == <<8>>
MCCONTENT_LENGTH == <<9>>

MCStatic ==
  << <<MCMETHOD, <<71>>>>, <<MCSTATUS, <<50, 48, 48>>>>, <<MCSTATUS, <<52, 48, 52>>>>,
     <<MCSTATUS, <<53, 48, 48>>>>, <<MCCONTENT_TYPE, <<>>>>, <<MCCONTENT_LENGTH, <<>>>> >>

MCGET == <<71>>
PUT == <<80>>
GETS == <<71, 83>>   \* another method that begins with GET
MCMethods == {MCGET, PUT, GETS}

\* "/a", "/b", "/" and, which is not valid, "a".
MCValidPaths == {<<47, 97>>, <<47, 98>>, <<47>>}
MCPaths == {<<47, 97>>, <<47, 98>>, <<47>>, <<97>>}

MCAllowedTypes == << <<112>> >>
MCTypes == {<<112, 59>>, <<120>>}

\* Valid registrations, and with another method, path or type ones that are not.
MCCalls ==
  {<<MCGET, p, <<112, 59>>, "long">> : p \in MCPaths}
    \cup {<<m, <<47, 97>>, <<112, 59>>, "fails">> : m \in {MCGET, GETS}}
    \cup {<<GETS, <<47, 97>>, <<112, 59>>, "long">>,
          <<PUT, <<47>>, <<112, 59>>, "long">>, <<MCGET, <<47>>, <<120>>, "long">>}

\* One returns more than fits into its buffer, one an error.
MCReturns == [h \in {"long", "fails"} |-> IF h = "long" THEN 9 ELSE -1]

Req(m, uri) == << <<MCMETHOD, m>>, <<MCSCHEME, <<104>>>>, <<MCPATH, uri>> >>

\* The name of another header.
X == <<10>>

\* GET /a; one that fills the header list, with a header that came twice; one
\* whose path is cut off; another method; a te that is not trailers; two paths;
\* and one that is by one character too large for the list.
MCRequests ==
  { Req(MCGET, <<47, 97>>),
    Req(MCGET, <<63, 97>>) \o << <<X, <<97>>>>, <<MCTE, MCTRAILERS>>, <<X, <<98>>>> >>,
    Req(MCGET, <<97, 97, 97, 97, 97>>),
    Req(PUT, <<47, 97>>),
    Req(MCGET, <<47, 97>>) \o << <<MCTE, X>> >>,
    Req(MCGET, <<47>>) \o << <<MCPATH, <<47>>>> >>,
    Req(MCGET, <<47>>) \o << <<X, <<97, 97>>>>, <<X, <<97, 97>>>>, <<X, <<97, 97, 97>>>> >> }

IndexedRequests == {Req(MCGET, <<47, 97>>)}
=============================================================================
