--------------------------- MODULE MCKeyProviders ---------------------------
(***************************************************************************)
(* Key providers listed c1, c2 (, c3) by the server, starting at priority  *)
(* 100, 0 or an unparsable value, and a search term matching c1 and c2 (as *)
(* "rsa" matches rsa-generated and rsa-enc-generated).  Two providers and  *)
(* two drags with a delete let a drag overlap another drag or a delete; a  *)
(* third provider that the search hides is needed for a drag of a filtered *)
(* list to leave two providers off the table.                              *)
(***************************************************************************)
EXTENDS KeyProviders

MCIds2 == {"c1", "c2"}
MCIdOrder2 == <<"c1", "c2">>
MCIds3 == {"c1", "c2", "c3"}
MCIdOrder3 == <<"c1", "c2", "c3">>
MCPrios == {100, 0, NaN}
MCTerms == {"", "rsa", "hmac"}
\* "rsa" shows c1 and c2; "hmac" shows c3 only.
MCMatches == [t \in MCTerms |-> CASE t = "rsa" -> {"c1", "c2"}
                                  [] t = "hmac" -> {"c3"}
                                  [] OTHER -> MCIds3]

=============================================================================
