----------------------------- MODULE MCPipeline -----------------------------
(* Webs and edits for the TLC runs of Pipeline.                            *)
EXTENDS Pipeline

CONSTANTS a, b, c, \* pages
          S        \* the server

Pages == {a, b, c}

OnS == [u \in URLs |-> S]
NoLimit == -1

Html(v, links) == [status |-> "ok", ver |-> v, links |-> links,
                   noindex |-> FALSE, head |-> TRUE]
Failing(st) == [Html(1, <<>>) EXCEPT !.status = st]

Edit(u, p) == [url |-> u, page |-> p]

Star == [u \in URLs |-> IF u = a THEN Html(1, <<b, c>>) ELSE Html(1, <<>>)]

(* b changes, or moves to c and comes back; c is no longer to be indexed;  *)
(* a ceases to link to them *)
Turnover == {Edit(b, Html(2, <<>>)), Edit(b, [Html(1, <<c>>) EXCEPT !.status = "redirect"]),
             Edit(b, Html(1, <<>>)),
             Edit(c, [Html(2, <<>>) EXCEPT !.noindex = TRUE]),
             Edit(a, Html(2, <<>>))}

(* b disappears, asks for a password, and comes back *)
ComesBack == {Edit(b, Failing("not_found")), Edit(b, Failing("not_authorized")),
              Edit(b, Html(1, <<>>)), Edit(b, Html(2, <<a>>))}

(* a links to b, which changes, is no longer to be indexed, or disappears  *)
Couple == {a, b}
Path == [u \in URLs |-> IF u = a THEN Html(1, <<b>>) ELSE Html(1, <<>>)]
Rewritten == {Edit(b, Html(2, <<>>)), Edit(b, Failing("not_found")),
              Edit(b, [Html(3, <<>>) EXCEPT !.noindex = TRUE])}

Full      == {{"words", "docs"}}
AllJobs   == SUBSET {"words", "docs"} \ {{}}

=============================================================================
