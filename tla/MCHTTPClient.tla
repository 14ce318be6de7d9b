---------------------------- MODULE MCHTTPClient ----------------------------
(***************************************************************************)
(* Two threads deliver two messages; the server's replies are one of each  *)
(* kind, and in CutReplies one whose header is not ended.                  *)
(***************************************************************************)
EXTENDS HTTPClient

CONSTANTS c1, c2, m1, m2

MCMessage == {m1, m2}
MCCaller == {c1, c2}
OneCaller == {c1}

MCResponses == {<<"200", "Name: value", "", "text">>, \* complete
                <<"404", "", "text">>,                \* refused by the server
                <<"200", "">>,                        \* cut in the blank line
                <<"text", "">>,                       \* no status line
                <<"200", "Name:", "">>,               \* a header without a value
                <<"">>}                               \* nothing

\* The connection is closed within the header.
CutReplies == {<<"200", "", "text">>, <<"200", "text">>}
=============================================================================
