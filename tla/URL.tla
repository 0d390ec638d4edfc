--------------------------------- MODULE URL ---------------------------------
(***************************************************************************)
(* Class URL: a reference in a page is resolved against the URL of the     *)
(* page, and the string of the URL that results is parsed again when its   *)
(* turn comes, for the queues of the servers hold strings.  A string is a  *)
(* sequence of characters; "http", "index.html" and the numbers count as   *)
(* one, and there are no blanks.  The empty sequence stands for a null     *)
(* pointer, too.  The names of hosts, with which normalize() and           *)
(* server_aliases deal, and rewrite() are left out.                        *)
(***************************************************************************)
EXTENDS NormalPath

CONSTANTS
    References,  \* what stands in the pages
    Parents      \* the URLs of the pages

HTTP == <<"http">>
HTTPPort == <<"80">>
NoPort == <<"0">>
Alphas == {"http", "a", "b"}
Numbers == {"80", "81"}

ASSUME URLAssumption ==
    \A p \in Parents : p.service = HTTP /\ p.path # <<>> /\ p.path[1] = "/"

VARIABLES
    ref,       \* history: the reference
    parent,    \* the URL of the page it stands in
    server,     \* _service, _host and _port (path is _path)
    found      \* the string that is pushed on the queue, or none yet

urlVars == <<pathVars, ref, parent, server, found>>

strchr(s, c) == SelectInSeq(s, LAMBDA x : x = c)
Left(s, n) == SubSeq(s, 1, n)
From(s, n) == SubSeq(s, n, Len(s))

(* The number of characters at the start of s for which Test holds. *)
Span(s, Test(_)) ==
    LET others == {i \in 1..Len(s) : ~Test(s[i])}
    IN IF others = {} THEN Len(s) ELSE Min(others) - 1

IsAlpha(c) == c \in Alphas
IsDigit(c) == c \in Numbers

(* The next token, and what follows the delimiter behind it; delimiters in *)
(* front of it are skipped. *)
strtok(s, c) ==
    LET t == From(s, Span(s, LAMBDA x : x = c) + 1)
        end == Span(t, LAMBDA x : x # c)
    IN [token |-> Left(t, end), rest |-> From(t, end + 2)]

(* Mutant: only an anchor at the end is removed. *)
LastAnchor(r) ==
    LET anchor == strchr(r, "#")
    IN IF anchor = 0 \/ anchor < strchr(r, "?") THEN r ELSE Left(r, anchor - 1)

(* "Strip any optional anchor from the reference ... the parameters will   *)
(* be moved left to replace the anchor." *)
NoAnchor(r) ==
    LET anchor == strchr(r, "#")
        params == strchr(r, "?")
    IN IF anchor = 0 THEN r
       ELSE Left(r, anchor - 1) \o (IF anchor < params THEN From(r, params) ELSE <<>>)

(* What follows the "//" of a URL: the host, perhaps a port, the path. *)
ParseHost(s, p) ==
    LET colon == strchr(p, ":")
        slash == strchr(p, "/")
        ported == colon # 0 /\ (slash > colon \/ slash = 0)
        host == strtok(p, IF ported THEN ":" ELSE "/")
        port == strtok(host.rest, "/")
        number == Left(port.token, Span(port.token, IsDigit))
    IN [service |-> s, host |-> host.token,
        port |-> IF ported /\ number # <<>> THEN number ELSE HTTPPort,
        path |-> <<"/">> \o (IF ported THEN port.rest ELSE host.rest)]

(* URL::parse before normalizePath.  Without a host there is no port, and  *)
(* the rest stays as it is. *)
Parse(u) ==
    LET s == Left(u, Span(u, LAMBDA x : x # "#"))
        split == strtok(s, ":")
        named == strchr(s, ":") # 0
        service == IF named THEN split.token ELSE HTTP
        rest == IF named THEN split.rest ELSE s
    IN IF IsPrefix(TWICE, rest) THEN ParseHost(service, From(rest, 3))
       ELSE [service |-> service, host |-> <<>>, port |-> NoPort, path |-> rest]

HasService(r) ==
    LET n == Span(r, IsAlpha) IN n < Len(r) /\ r[n + 1] = ":"

(* "No need to look at the parent url since this is a complete url". *)
Complete(r) ==
    \/ HasService(r) /\ (IsPrefix(HTTP \o <<":", "/", "/">>, r) \/ ~IsPrefix(HTTP \o <<":">>, r))
    \/ IsPrefix(TWICE, r)

(* "./" in front of a reference, as often as it is there, is skipped. *)
SkipDots(r) ==
    LET pairs == {n \in 0..(Len(r) \div 2) :
                    \A i \in 1..n : r[2 * i - 1] = "." /\ r[2 * i] = "/"}
    IN From(r, 2 * Max(pairs) + 1)

(* Mutant: the query of the parent counts as part of its directory. *)
WholeDirectory(p) == Left(p, SelectLastInSeq(p, LAMBDA c : c = "/"))

(* The path of the parent up to its last slash, without its query. *)
Directory(p) ==
    LET file == Left(p, Span(p, LAMBDA c : c # "?"))
    IN Left(file, SelectLastInSeq(file, LAMBDA c : c = "/"))

(* A reference to the same server. *)
OnSameServer(r) ==
    LET rest == SkipDots(IF HasService(r) THEN From(r, Span(r, IsAlpha) + 2) ELSE r)
    IN [parent EXCEPT !.path =
            IF IsPrefix(<<"/">>, rest) THEN rest ELSE Directory(@) \o rest]

(* The path that was taken over is normalized next, unless it is none. *)
TakeOver(u, next) ==
    /\ server' = [service |-> u.service, host |-> u.host, port |-> u.port]
    /\ path' = u.path
    /\ step' = IF u.port = NoPort THEN "done" ELSE next

(* URL::URL(char *ref, URL &parent); nothing is left to do for an empty    *)
(* reference. *)
Resolve ==
    /\ step = "new"
    /\ LET r == NoAnchor(ref)
       IN IF r = <<>> THEN TakeOver(parent, "done")
          ELSE TakeOver(IF Complete(r) THEN Parse(r) ELSE OnSameServer(r), "up")
    /\ UNCHANGED <<ref, parent, found>>

(* The string of it with path p, as the constructor and normalize build it. *)
Spelled(p) ==
    server.service \o <<":">>
    \o (IF server.host # <<>> THEN TWICE \o server.host ELSE <<>>)
    \o (IF server.port # HTTPPort /\ server.service = HTTP THEN <<":">> \o server.port ELSE <<>>)
    \o p

(* "make .../ the same as .../index.html" *)
RemoveIndex(p) ==
    IF IsSuffix(<<"/", "index.html">>, p) /\ indexOf(p, <<"?">>) = 0
    THEN Left(p, Len(p) - 1) ELSE p

(* The string, as parse builds it at its end. *)
ParsedURL ==
    IF server.port = NoPort THEN <<>>
    ELSE server.service \o <<":">> \o TWICE \o server.host
         \o (IF server.port # HTTPPort THEN <<":">> \o server.port ELSE <<>>) \o path

(* The test of IsValidURL for what htdig can retrieve at all. *)
Retrievable(u) == IsPrefix(HTTP \o <<":", "/", "/">>, u) /\ indexOf(u, UP) = 0

(* got_href accepts the URL, normalizes and pushes it; parse_url takes its *)
(* string from the queue. *)
Again ==
    /\ step = "done" /\ found = <<>>
    /\ Retrievable(Spelled(path))
    /\ found' = Spelled(RemoveIndex(path))
    /\ TakeOver(Parse(found'), "up")
    /\ UNCHANGED <<ref, parent>>

Normalize == PathNext /\ UNCHANGED <<ref, parent, server, found>>

URLInit ==
    /\ ref \in References /\ parent \in Parents
    /\ server = [service |-> <<>>, host |-> <<>>, port |-> NoPort]
    /\ path = <<>> /\ step = "new"
    /\ found = <<>>

URLNext == Resolve \/ Normalize \/ Again

URLSpec == URLInit /\ [][URLNext]_urlVars

-----------------------------------------------------------------------------
(* Properties.                                                             *)

Scheme(r) == IF HasService(r) THEN Left(r, Span(r, IsAlpha)) ELSE parent.service
Hierarchy(r) == IF HasService(r) THEN From(r, Len(Scheme(r)) + 2) ELSE r

Authority(r) == LET q == From(Hierarchy(r), 3) IN Left(q, Span(q, LAMBDA c : c # "/"))
HostName(a) == Left(a, Span(a, LAMBDA c : c # ":"))
PortOf(a) == From(a, Len(HostName(a)) + 2)

(* The path that a reference names before it is normalized. *)
RawPath(r) ==
    LET h == Hierarchy(r)
    IN IF r = <<>> THEN parent.path
       ELSE IF IsPrefix(TWICE, h)
            THEN IF Len(h) = 2 + Len(Authority(r)) THEN <<"/">> ELSE From(h, 3 + Len(Authority(r)))
       ELSE IF IsPrefix(<<"/">>, h) THEN h
       ELSE Left(parent.path, SelectLastInSeq(PathOnly(parent.path), LAMBDA c : c = "/")) \o h

(* What a reference means (RFC 1808): it is complete, or takes over what   *)
(* it does not name.  "http:" without a host counts as nothing. *)
Reached(r) ==
    LET a == Authority(r)
        full == Tilde(Minimal(PathOnly(RawPath(r)))) \o Query(RawPath(r))
    IN IF r # <<>> /\ IsPrefix(TWICE, Hierarchy(r))
       THEN [service |-> Scheme(r), host |-> HostName(a),
             port |-> IF HostName(a) = a THEN HTTPPort ELSE PortOf(a), path |-> full]
       ELSE IF Scheme(r) # HTTP
       THEN [service |-> Scheme(r), host |-> <<>>, port |-> NoPort, path |-> Hierarchy(r)]
       ELSE [parent EXCEPT !.path = full]

TwoAnchors == Cardinality({i \in 1..Len(ref) : ref[i] = "#"}) > 1
NoHost(r) == IsPrefix(TWICE, Hierarchy(r)) /\ HostName(Authority(r)) = <<>>

(* The references that are not understood: two anchors, or no scheme where *)
(* a colon is; a query or nothing but "http:"; "./" before a slash; and of *)
(* hosts, one that is empty, one with a query but no path, a port that is  *)
(* no number, and "//" with a colon anywhere. *)
Tame(r) ==
    LET h == Hierarchy(r)
        a == Authority(r)
    IN /\ ~TwoAnchors /\ ~NoHost(r)
       /\ ~IsPrefix(<<":">>, r) /\ ~IsPrefix(<<"?">>, h)
       /\ h = <<>> => r = <<>> \/ Scheme(r) # HTTP
       /\ SkipDots(h) # h => ~IsPrefix(<<"/">>, SkipDots(h))
       /\ IsPrefix(TWICE, h) =>
             /\ strchr(a, "?") = 0
             /\ a # HostName(a) => PortOf(a) # <<>> /\ \A i \in DOMAIN PortOf(a) : IsDigit(PortOf(a)[i])
             /\ HasService(r) \/ strchr(r, ":") = 0

(* Any other reference leads where it says, but for the paths that         *)
(* normalizePath misreads (URL::URL(char *, URL &), parse).                *)
LeadsThere ==
    step = "done" /\ found = <<>> =>
        LET r == NoAnchor(ref)
        IN Tame(r) /\ ~Misread(PathOnly(RawPath(r))) =>
              Reached(r) = [service |-> server.service, host |-> server.host,
                            port |-> server.port, path |-> path]

(* A URL has one name: what parse_url makes of the string in the queue,    *)
(* under which it looks for the record and stores the document, is that    *)
(* string, under which got_href stored the record.  Not so if an anchor or *)
(* a missing host is left in it. *)
SameURLAgain ==
    step = "done" /\ found # <<>> =>
        ParsedURL = found \/ TwoAnchors \/ NoHost(NoAnchor(ref))

=============================================================================
