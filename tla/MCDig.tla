------------------------------- MODULE MCDig -------------------------------
(* Webs, servers and edits for the TLC runs of Dig.                        *)
EXTENDS Dig

CONSTANTS a, b, c, d, e, f, g, \* pages
          S, T                 \* servers

Seven == {a, b, c, d, e, f, g}
Four  == {a, b, c, d}
Three == {a, b, c}

Html(v, links) == [status |-> "ok", ver |-> v, links |-> links,
                   noindex |-> FALSE, head |-> TRUE]
Failing(st)    == [Html(1, <<>>) EXCEPT !.status = st]
RedirectTo(u)  == [Html(1, <<u>>) EXCEPT !.status = "redirect"]

NoLimit == -1

OneServer  == [u \in URLs |-> S]
TwoServers == [u \in URLs |-> IF u \in {a, b} THEN S ELSE T]
ThreeOnS   == [u \in URLs |-> IF u \in {a, b, c} THEN S ELSE T]

(* Two start pages, a and b.  From a, c is one click away, d and e are     *)
(* two and f three; from b, d is one and f two.  From f it is one more to  *)
(* g, and back to b. *)
Ladder == [u \in URLs |->
    CASE u = a -> Html(1, <<c>>) [] u = b -> Html(1, <<d>>)
      [] u = c -> Html(1, <<d, e>>) [] u \in {d, e} -> Html(1, <<f>>)
      [] u = f -> Html(1, <<b, g>>) [] OTHER -> Html(1, <<>>)]

Fan == [u \in URLs |-> IF u = a THEN Html(1, <<b, c, d>>) ELSE Html(1, <<>>)]

(* a links to b and c; b may move to c, vanish, need a password or change; *)
(* c may change so that it links back, or ask not to be indexed *)
Small == [u \in URLs |-> IF u = a THEN Html(1, <<b, c>>) ELSE Html(1, <<>>)]

Edit(u, p) == [url |-> u, page |-> p]

Moves == {Edit(b, RedirectTo(c)), Edit(b, Failing("not_found")),
          Edit(c, [Html(2, <<>>) EXCEPT !.noindex = TRUE])}

Fades == {Edit(b, Failing("not_authorized")), Edit(b, Html(2, <<c, a, b>>)),
          Edit(a, Failing("not_html"))}

Changes == Moves \cup Fades

(* b moves to c, vanishes, or changes so that it links back. *)
Turns == {Edit(b, RedirectTo(c)), Edit(b, Failing("not_found")), Edit(b, Html(2, <<c, a, b>>))}

(* Two start pages that lead to one page each. *)
Pairs == [u \in URLs |->
    CASE u = a -> Html(1, <<c>>) [] u = b -> Html(1, <<d>>) [] OTHER -> Html(1, <<>>)]

(* Three start pages on S and one on T, d.  From d, f is two clicks away,  *)
(* from the third one on S it is one, and from f one more to g. *)
Shortcut == [u \in URLs |->
    CASE u = c -> Html(1, <<f>>) [] u = d -> Html(1, <<e>>)
      [] u = e -> Html(1, <<f>>) [] u = f -> Html(1, <<g>>)
      [] OTHER -> Html(1, <<>>)]

=============================================================================
