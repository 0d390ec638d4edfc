-------------------------------- MODULE Dig --------------------------------
(***************************************************************************)
(* htdig: the Retriever, its Servers and its DocumentDB.  One run loads    *)
(* the URLs to visit (the log of an interrupted run, the document          *)
(* database, start_url), then retrieves one URL from each server in turn   *)
(* until every queue is empty or a signal stops it.                        *)
(*                                                                         *)
(* Abstractions: the order in which a run enumerates the log, the database *)
(* and the servers is arbitrary, the latter fixed within a run; a page is  *)
(* a version number and a list of links, every link has a text, and        *)
(* max_descriptions is never reached; anchors and backlink counts are left *)
(* out, and so is retrieval from local files (local_urls).                 *)
(***************************************************************************)
EXTENDS Files, Integers, Sequences, FiniteSets

CONSTANTS
    Servers,      \* host:port signatures
    ServerOf,     \* the server of each URL
    StartURLs,    \* start_url
    Limits,       \* the URLs that pass IsValidURL and limit_normalized
    Disallowed,   \* the URLs the robots.txt of their server disallows
    MaxHops,      \* max_hop_count
    MaxDocs,      \* server_max_docs; -1 is no limit
    MarkDead,     \* ignore_dead_servers
    Web0,         \* what each URL answers at first
    Edits,        \* what the answers may change to: [url, page] records
    Flaky,        \* the servers that may go down and come back
    GrowAt,       \* the numbers of servers at which their dictionary grows
    InitialFlags, \* how htdig is started: TRUE stands for the option -i
    UsesHtdump,   \* whether htdump is run between the digs
    MaxRuns,      \* bound: how often htdig is started
    MaxCrashes,   \* bound: how often it is killed without closing its files
    NoCur         \* no document is being parsed

Statuses == {"ok", "redirect", "not_found", "not_html", "not_authorized"}

(* A redirect's only link is its target.  Versions start at 1. *)
Page == {p \in [status : Statuses, ver : Nat \ {0}, links : Seq(URLs),
                noindex : BOOLEAN, head : BOOLEAN] :
            p.status = "redirect" => p.links # <<>>}

(* What is heard of a page: a request may fail before there is an answer,  *)
(* and 0 stands for a date that was not heard. *)
Answer == {p \in [status : Statuses \cup {"no_server"}, ver : Nat, links : Seq(URLs),
                  noindex : BOOLEAN, head : BOOLEAN] :
              p.status = "redirect" => p.links # <<>>}

ASSUME DigAssumption ==
    /\ NoDoc \notin Doc
    /\ IsFiniteSet(Servers)
    /\ ServerOf \in [URLs -> Servers]
    /\ StartURLs \subseteq URLs
    /\ Limits \subseteq URLs
    /\ Disallowed \subseteq URLs
    /\ MaxHops \in Nat
    /\ MaxDocs \in Nat \cup {-1}
    /\ MarkDead \in BOOLEAN
    /\ Web0 \in [URLs -> Page]
    /\ Edits \subseteq [url : URLs, page : Page]
    /\ Flaky \subseteq Servers
    /\ GrowAt \subseteq Nat
    /\ InitialFlags \subseteq BOOLEAN
    /\ UsesHtdump \in BOOLEAN
    /\ MaxRuns \in Nat
    /\ MaxCrashes \in Nat

VARIABLES
    phase,     \* down | log | db | start | dig | parse
    todo,      \* the URLs this loading phase has still to pass to Initial
    restart,   \* Initial(List) found URLs from the log and uses from = 3
    nextID,    \* DocumentDB::nextDocID
    visited,   \* Retriever::visited
    known,     \* the servers a Server object exists for
    bad,       \* those whose _bad_server is set
    queue,     \* Server::_paths
    pushed,    \* Server::_documents
    place,     \* the order in which the dictionary has the servers
    turn,      \* the servers the current round has still to look at
    more,      \* a URL was taken in this round
    noSignal,  \* the flag the signal handler clears
    cur,       \* the document being parsed
    web,       \* what each URL answers now
    down,      \* the servers that do not answer now
    runs,      \* number of starts so far
    crashes,   \* number of kills so far
    last,      \* history: what the last retrieval of each URL found
    fetched,   \* history: retrieved since the last fresh start
    refused,   \* history: given to Server::push and not queued
    cut        \* history: a signal cut the retrieval of these URLs short

memVars   == <<todo, restart, nextID, visited, known, bad, queue, pushed,
               place, turn, more, noSignal, cur>>
worldVars == <<web, down>>
countVars == <<runs, crashes>>
histVars  == <<last, fetched, refused, cut>>
vars == <<fileVars, phase, memVars, worldVars, countVars, histVars>>

Answers == Statuses \cup {"none", "no_server", "not_changed", "cut"}

URLRef == [url : URLs, hop : Nat]

(* left: the links still to be followed; page: what was retrieved *)
Cur == [url : URLs, ref : Doc, left : Seq(URLs), page : Answer]

DigTypeOK ==
    /\ FilesTypeOK
    /\ phase \in {"down", "log", "db", "start", "dig", "parse"}
    /\ todo \in SUBSET URLs
    /\ restart \in BOOLEAN
    /\ nextID \in Nat
    /\ visited \in SUBSET URLs
    /\ known \in SUBSET Servers
    /\ bad \in SUBSET Servers
    /\ queue \in [Servers -> Seq(URLRef)]
    /\ pushed \in [Servers -> Nat]
    /\ place \in [Servers -> Nat]
    /\ turn \in SUBSET Servers
    /\ more \in BOOLEAN
    /\ noSignal \in BOOLEAN
    /\ cur \in Cur \cup {NoCur}
    /\ (phase = "parse") => cur \in Cur
    /\ web \in [URLs -> Page]
    /\ down \in SUBSET Servers
    /\ runs \in Nat
    /\ crashes \in Nat
    /\ last \in [URLs -> Answers]
    /\ fetched \in SUBSET URLs
    /\ refused \in SUBSET URLs
    /\ cut \in SUBSET URLs

(* The memory of a process that is not running. *)
MemInit ==
    /\ todo = {}
    /\ restart = FALSE
    /\ nextID = 0
    /\ visited = {}
    /\ known = {}
    /\ bad = {}
    /\ queue = [s \in Servers |-> <<>>]
    /\ pushed = [s \in Servers |-> 0]
    /\ place = [s \in Servers |-> 0]
    /\ turn = {}
    /\ more = FALSE
    /\ noSignal = TRUE
    /\ cur = NoCur

DigInit ==
    /\ FilesInit
    /\ MemInit
    /\ phase = "down"
    /\ web = Web0
    /\ down = {}
    /\ runs = 0
    /\ crashes = 0
    /\ last = [u \in URLs |-> "none"]
    /\ fetched = {}
    /\ refused = {}
    /\ cut = {}

ClearMemory ==
    /\ todo' = {}
    /\ restart' = FALSE
    /\ nextID' = 0
    /\ visited' = {}
    /\ known' = {}
    /\ bad' = {}
    /\ queue' = [s \in Servers |-> <<>>]
    /\ pushed' = [s \in Servers |-> 0]
    /\ place' = [s \in Servers |-> 0]
    /\ turn' = {}
    /\ more' = FALSE
    /\ noSignal' = TRUE
    /\ cur' = NoCur

Queued == {u \in URLs : \E s \in Servers : \E i \in 1..Len(queue[s]) :
                            queue[s][i].url = u}

-----------------------------------------------------------------------------
(* Server::Server and Server::push.                                        *)

(* The constructor asks for robots.txt; a server that cannot be reached,   *)
(* or whose connection a signal interrupts, is remembered as bad.  (What a *)
(* signal leaves of robots.txt itself is left out: the next run reads it   *)
(* again.) *)
Connect(s, interrupted) ==
    /\ known' = known \cup {s}
    /\ bad' = IF s \notin known /\ (s \in down \/ interrupted)
              THEN bad \cup {s} ELSE bad

(* Whether push returns without queueing u, asked after Connect. *)
Refuses(u) ==
    \/ ServerOf[u] \in bad'
    \/ u \in Disallowed
    \/ MaxDocs # -1 /\ pushed[ServerOf[u]] >= MaxDocs

(* The queues are given as q, since one URL is taken and another pushed in *)
(* the same step when a page redirects. *)
Push(q, u, h) ==
    /\ visited' = visited \cup {u}
    /\ IF Refuses(u)
       THEN /\ refused' = refused \cup {u}
            /\ queue' = q
            /\ UNCHANGED pushed
       ELSE /\ queue' = [q EXCEPT ![ServerOf[u]] =
                                    Append(@, [url |-> u, hop |-> h])]
            /\ pushed' = [pushed EXCEPT ![ServerOf[u]] = @ + 1]
            /\ UNCHANGED refused

(* A dictionary is iterated over in the order of its buckets. *)
Orders ==
    {f \in [Servers -> 1..Cardinality(Servers)] :
        \A s, t \in Servers : f[s] = f[t] => s = t}

(* A server met while the round is at server s joins the dictionary of     *)
(* servers before or behind it; when that makes the dictionary grow, the   *)
(* iterator goes on anywhere in the new table, which has another order. *)
JoinRound(t, s, u) ==
    LET new == ServerOf[u]
    IN  IF new \in known THEN turn' = t /\ UNCHANGED place
        ELSE IF Cardinality(known) \in GrowAt
        THEN turn' \in SUBSET (known \cup {new}) /\ place' \in Orders
        ELSE /\ turn' = IF place[new] > place[s] THEN t \cup {new} ELSE t
             /\ UNCHANGED place

-----------------------------------------------------------------------------
(* main and the constructor: a run starts and loads the URLs to visit.     *)

(* htdig, or htdig -i.  A log left by an interrupted run is used whichever *)
(* it is; without one, or with -i, a new dig begins. *)
Start(initial) ==
    /\ phase = "down"
    /\ runs < MaxRuns
    /\ runs' = runs + 1
    /\ phase' = "log"
    /\ todo' = urlLog
    /\ IF initial
       THEN /\ docdb' = [u \in URLs |-> NoDoc]
            /\ nextOnDisk' = 0
            /\ words' = {}
            /\ marks' = {}
            /\ listed' = FALSE
            /\ disk' = docdb'
            /\ nextID' = 0
       ELSE /\ nextID' = nextOnDisk
            /\ UNCHANGED <<docdb, nextOnDisk, words, marks, listed, disk>>
    /\ IF initial \/ urlLog = {} THEN fetched' = {} /\ refused' = {}
       ELSE UNCHANGED <<fetched, refused>>
    /\ UNCHANGED <<urlLog, restart, visited, known, bad, queue, pushed, place,
                   turn, more, noSignal, cur, worldVars, crashes, last, cut>>

(* Initial(url, from): skips a visited URL unless its server is new or     *)
(* from = 0, and queues the others at hop 0 unless from = 3. *)
Initial(u, skipVisited, pushes) ==
    /\ u \in todo
    /\ todo' = todo \ {u}
    /\ IF ServerOf[u] \in known /\ skipVisited /\ u \in visited
       THEN UNCHANGED <<visited, known, bad, queue, pushed, refused>>
       ELSE /\ Connect(ServerOf[u], FALSE)
            /\ IF pushes THEN Push(queue, u, 0)
               ELSE /\ visited' = visited \cup {u}
                    /\ UNCHANGED <<queue, pushed, refused>>
    /\ UNCHANGED <<fileVars, phase, restart, nextID, place, turn, more,
                   noSignal, cur, worldVars, countVars, last, fetched, cut>>

(* Mutants: the values of from mixed up.  The database is never read with  *)
(* 3, start_url is read with 0. *)
InitialDbUnqueued(u)  == phase = "db" /\ Initial(u, restart, FALSE)
InitialStartAgain(u)  == phase = "start" /\ Initial(u, FALSE, TRUE)

InitialLog(u)   == phase = "log" /\ Initial(u, TRUE, TRUE)
InitialDb(u)    == phase = "db" /\ Initial(u, restart, ~restart)
InitialStart(u) == phase = "start" /\ Initial(u, TRUE, TRUE)

(* The log is unlinked once it has been read; then comes the database.     *)
(* URLs that were logged leave no mark but in visited. *)
LogRead ==
    /\ phase = "log" /\ todo = {}
    /\ phase' = "db"
    /\ urlLog' = {}
    /\ todo' = Stored
    /\ restart' = (visited # {})
    /\ UNCHANGED <<docdb, nextOnDisk, words, marks, listed, disk, nextID,
                   visited, known, bad, queue, pushed, place, turn, more,
                   noSignal, cur, worldVars, countVars, histVars>>

DbRead ==
    /\ phase = "db" /\ todo = {}
    /\ phase' = "start"
    /\ todo' = StartURLs
    /\ UNCHANGED <<fileVars, restart, nextID, visited, known, bad, queue,
                   pushed, place, turn, more, noSignal, cur, worldVars,
                   countVars, histVars>>

(* Start installs the signal handlers, sets noSignal and opens the first   *)
(* round; from here on the order of the servers matters. *)
Loaded ==
    /\ phase = "start" /\ todo = {}
    /\ phase' = "dig"
    /\ noSignal' = TRUE
    /\ more' = FALSE
    /\ turn' = known
    /\ place' \in Orders
    /\ UNCHANGED <<fileVars, todo, restart, nextID, visited, known, bad,
                   queue, pushed, cur, worldVars, countVars, histVars>>

-----------------------------------------------------------------------------
(* Retriever::Start and parse_url: one URL of a server is retrieved.       *)

(* The server the iterator comes to next. *)
IsNext(s) ==
    /\ phase = "dig" /\ noSignal /\ s \in turn
    /\ \A t \in turn : place[s] <= place[t]

SkipServer(s) ==
    /\ IsNext(s)
    /\ queue[s] = <<>>
    /\ turn' = turn \ {s}
    /\ UNCHANGED <<fileVars, phase, todo, restart, nextID, visited, known,
                   bad, queue, pushed, place, more, noSignal, cur, worldVars,
                   countVars, histVars>>

NewRound ==
    /\ phase = "dig" /\ noSignal /\ turn = {} /\ more
    /\ turn' = known
    /\ more' = FALSE
    /\ UNCHANGED <<fileVars, phase, todo, restart, nextID, visited, known,
                   bad, queue, pushed, place, noSignal, cur, worldVars,
                   countVars, histVars>>

(* Mutant: old_document is never set. *)
NeverOld(u) == FALSE

(* old_document: retrieved, or at least tried, before this run. *)
Old(u) == docdb[u] # NoDoc /\ docdb[u].got

(* The server is not there, or htdig does not ask it any more. *)
Unreachable(u) == ServerOf[u] \in bad \cup down

WholeAnswer(u) ==
    IF Unreachable(u) THEN [web[u] EXCEPT !.status = "no_server"] ELSE web[u]

(* What parse_url makes of an answer. *)
Status(u, p) ==
    IF p.status = "ok" /\ Old(u) /\ p.ver = docdb[u].time THEN "not_changed"
    ELSE p.status

(* What may be left of the answer when a signal ends connect(), or ends    *)
(* the wait for the rest of the header or of one of its lines: nothing, or *)
(* half a type, *)
Failures(u) ==
    {[web[u] EXCEPT !.status = st] : st \in {"no_server", "not_found", "not_html"}}

(* a redirect whose Location is cut, or half a 304, a redirect without     *)
(* Location, which leads to the page itself, *)
HalfRedirects(u) ==
    {[web[u] EXCEPT !.status = "redirect", !.links = <<v>>] :
        v \in CASE web[u].status = "redirect" -> URLs
              [] Status(u, web[u]) = "not_changed" -> {u}
              [] OTHER -> {}}

(* or a document without its date, its type, or both; without its type it  *)
(* is plain text, and so there are no links and there is no noindex. *)
Plain(p) == [p EXCEPT !.status = "ok", !.links = <<>>, !.noindex = FALSE, !.head = TRUE]

HalfPages(u) ==
    CASE web[u].status = "ok" -> {Plain(web[u]), [web[u] EXCEPT !.ver = 0], [Plain(web[u]) EXCEPT !.ver = 0]}
      [] web[u].status = "not_html" -> {Plain(web[u]), [Plain(web[u]) EXCEPT !.ver = 0]}
      [] OTHER -> {}

CutAnswers(u) ==
    IF Unreachable(u) THEN {} ELSE Failures(u) \cup HalfRedirects(u) \cup HalfPages(u)

(* Mutant: the head of the queue is looked at and left there. *)
Peeked(s) == queue

Popped(s) == [queue EXCEPT ![s] = Tail(@)]

(* What htdig hears of u is the answer, if a signal comes when it does no  *)
(* harm (the body is read on), or what a signal leaves of it. *)
Hear(u, p) ==
    \/ /\ p = WholeAnswer(u)
       /\ last' = [last EXCEPT ![u] = Status(u, p)]
       /\ noSignal' \in BOOLEAN
       /\ UNCHANGED cut
    \/ /\ p \in CutAnswers(u)
       /\ last' = [last EXCEPT ![u] = "cut"]
       /\ noSignal' = FALSE
       /\ cut' = cut \cup {u}

Take(s, p) ==
    /\ IsNext(s)
    /\ queue[s] # <<>>
    /\ more' = TRUE
    /\ Hear(Head(queue[s]).url, p)
    /\ fetched' = fetched \cup {Head(queue[s]).url}
    /\ UNCHANGED <<nextOnDisk, urlLog, disk, todo, restart, worldVars,
                   countVars>>

(* Mutant: a new document counts its hops from -1. *)
FreshLow(h, id) == [id |-> id, hop |-> h - 1, got |-> TRUE, time |-> 0,
                    state |-> "normal", head |-> FALSE, descriptions |-> {}]

(* The record of the URL at the head of s: the stored one, or a new one    *)
(* under a fresh ID; in both cases it is marked as accessed and normal. *)
Fresh(h, id) == [id |-> id, hop |-> h, got |-> TRUE, time |-> 0,
                 state |-> "normal", head |-> FALSE, descriptions |-> {}]

Registered(r) ==
    IF docdb[r.url] = NoDoc THEN Fresh(r.hop, nextID)
    ELSE [docdb[r.url] EXCEPT !.got = TRUE, !.state = "normal"]

(* Mutant: NextDocID does not count. *)
SameNextID(r) == nextID

AfterRegister(r) == IF docdb[r.url] = NoDoc THEN nextID + 1 ELSE nextID

(* Mutant: hop counts stay what they were first. *)
NeverLower(hop, h) == hop

(* A hop count that a new way to the document makes smaller. *)
Lower(hop, h) == IF hop > h THEN h ELSE hop

(* not_found, no_host, no_server and not_html: the document is marked gone *)
(* and a server that does not answer is not asked again. *)
RetrieveGone(s, p) ==
    /\ Take(s, p)
    /\ LET r == Head(queue[s])
           st == Status(r.url, p)
           ref == Registered(r)
           state == IF st = "not_html" THEN "normal" ELSE "not_found"
       IN  /\ st \in {"not_found", "no_server", "not_html"}
           /\ docdb' = [docdb EXCEPT ![r.url] = [ref EXCEPT !.state = state]]
           /\ nextID' = AfterRegister(r)
           /\ AppendMarks({[mark |-> "-", id |-> ref.id]})
           /\ bad' = IF st = "no_server" /\ MarkDead THEN bad \cup {s} ELSE bad
    /\ queue' = Popped(s)
    /\ turn' = turn \ {s}
    /\ UNCHANGED <<phase, visited, known, pushed, place, cur, refused>>

RetrieveUnchanged(s, p) ==
    /\ Take(s, p)
    /\ LET r == Head(queue[s])
           ref == Registered(r)
       IN  /\ Status(r.url, p) = "not_changed"
           /\ docdb' = [docdb EXCEPT ![r.url] = ref]
           /\ AppendMarks({[mark |-> "+", id |-> ref.id]})
    /\ queue' = Popped(s)
    /\ turn' = turn \ {s}
    /\ UNCHANGED <<phase, nextID, visited, known, bad, pushed, place, cur,
                   refused>>

RetrieveUnauthorized(s, p) ==
    /\ Take(s, p)
    /\ LET r == Head(queue[s])
       IN  /\ Status(r.url, p) = "not_authorized"
           /\ docdb' = [docdb EXCEPT ![r.url] = Registered(r)]
           /\ nextID' = AfterRegister(r)
    /\ KeepList
    /\ queue' = Popped(s)
    /\ turn' = turn \ {s}
    /\ UNCHANGED <<phase, visited, known, bad, pushed, place, cur, refused>>

(* The record of the document v that a link or a redirect leads to: the    *)
(* stored one or a new one, with the texts of the links to it. *)
Linked(v, h, id, texts) ==
    IF docdb[v] = NoDoc
    THEN [Fresh(h, id) EXCEPT !.got = FALSE, !.descriptions = texts]
    ELSE [docdb[v] EXCEPT !.hop = Lower(@, h), !.descriptions = @ \cup texts]

(* Mutant: only a document that is new is described. *)
DescribedOnce(v, id, texts) ==
    {[id |-> id, url |-> v, text |-> t] :
        t \in IF docdb[v] = NoDoc THEN texts ELSE {}}

(* AddDescription files the words of the texts under the document's ID. *)
Described(v, id, texts) == {[id |-> id, url |-> v, text |-> t] : t \in texts}

(* got_redirect: the target gets a record, with a fresh ID if it is new,   *)
(* inherits the descriptions, and is pushed unless it was visited; then    *)
(* the redirecting document is stored over whatever was written under its  *)
(* URL. *)
RetrieveRedirect(s, p) ==
    /\ Take(s, p)
    /\ LET r == Head(queue[s])
           ref == Registered(r)
           v == p.links[1]
           id == AfterRegister(r)
           target == Linked(v, ref.hop, id, ref.descriptions)
           gone == {[mark |-> "-", id |-> ref.id]}
       IN  /\ Status(r.url, p) = "redirect"
           /\ IF v \in Limits
              THEN /\ docdb' = [docdb EXCEPT ![v] = target, ![r.url] = ref]
                   /\ nextID' = IF docdb[v] = NoDoc THEN id + 1 ELSE id
                   /\ AppendLines(gone, Described(v, target.id, ref.descriptions))
              ELSE /\ docdb' = [docdb EXCEPT ![r.url] = ref]
                   /\ nextID' = id
                   /\ AppendMarks(gone)
           /\ IF v \in Limits /\ v \notin visited
              THEN /\ \E interrupted \in {FALSE, ~noSignal'} :
                         Connect(ServerOf[v], interrupted)
                   /\ Push(Popped(s), v, target.hop)
                   /\ JoinRound(turn \ {s}, s, v)
              ELSE /\ queue' = Popped(s)
                   /\ turn' = turn \ {s}
                   /\ UNCHANGED <<visited, known, bad, pushed, place, refused>>
    /\ UNCHANGED <<phase, cur>>

(* A page was retrieved.  If an older version is in the database it is     *)
(* marked superseded and the page gets a new ID and a new record; either   *)
(* way the record is filled in and parsing begins. *)
RetrievePage(s, p) ==
    /\ Take(s, p)
    /\ LET r == Head(queue[s])
           old == Registered(r)
           id == IF Old(r.url) THEN nextID ELSE old.id
           ref == [old EXCEPT !.id = id, !.time = p.ver, !.head = p.head,
                     !.state = IF p.noindex THEN "noindex" ELSE "normal",
                     !.descriptions = IF Old(r.url) THEN {} ELSE @]
       IN  /\ Status(r.url, p) = "ok"
           /\ cur' = [url |-> r.url, ref |-> ref, left |-> p.links, page |-> p]
           /\ IF Old(r.url)
              THEN /\ nextID' = nextID + 1
                   /\ AppendMarks({[mark |-> "!", id |-> old.id]})
              ELSE /\ nextID' = AfterRegister(r)
                   /\ KeepList
    /\ phase' = "parse"
    /\ queue' = Popped(s)
    /\ turn' = turn \ {s}
    /\ UNCHANGED <<docdb, visited, known, bad, pushed, place, refused>>

(* Mutant: max_hop_count is off by one. *)
FollowsMore(v, h) == v \in Limits /\ v # cur.url /\ h <= MaxHops + 1

(* The links got_href follows. *)
Follows(v, h) == v \in Limits /\ v # cur.url /\ h <= MaxHops

(* got_href: the link's text describes its target, even one too far away   *)
(* if that is stored already ("if ref exists we have to call               *)
(* AddDescription even if max_hop_count is reached"); the target is        *)
(* registered (or its hop count lowered) and, unless it was visited,       *)
(* pushed on its server's queue.  A page's link to itself describes it. *)
GotHref ==
    /\ phase = "parse" /\ cur.left # <<>>
    /\ LET v == Head(cur.left)
           h == cur.ref.hop + 1
           texts == {LinkText(cur.url, cur.page.ver)}
           self == v \in Limits /\ v = cur.url
           ref == Linked(v, h, nextID, texts)
           follow == Follows(v, h)
       IN  /\ cur' = [cur EXCEPT
                !.left = Tail(@),
                !.ref.descriptions = IF self THEN @ \cup texts ELSE @]
           /\ IF self THEN AppendWords(Described(v, cur.ref.id, texts))
              ELSE IF follow \/ (v \in Limits /\ docdb[v] # NoDoc)
                   THEN AppendWords(Described(v, ref.id, texts))
                   ELSE KeepList
           /\ IF follow
              THEN /\ docdb' = [docdb EXCEPT ![v] = ref]
                   /\ nextID' = IF docdb[v] = NoDoc THEN nextID + 1 ELSE nextID
              ELSE UNCHANGED <<docdb, nextID>>
           /\ IF follow /\ v \notin visited
              THEN /\ noSignal' \in {noSignal, FALSE}
                   /\ \E interrupted \in {FALSE, ~noSignal'} :
                         Connect(ServerOf[v], interrupted)
                   /\ Push(queue, v, ref.hop)
                   /\ JoinRound(turn, ServerOf[cur.url], v)
              ELSE UNCHANGED <<visited, known, bad, queue, pushed, place, turn,
                               noSignal, refused>>
    /\ UNCHANGED <<nextOnDisk, urlLog, phase, disk, todo, restart, more,
                   worldVars, countVars, last, fetched, cut>>

(* The whole page was parsed: its words go to the word list, or a marker   *)
(* when it is not to be indexed, and its record to the database. *)
Parsed ==
    /\ phase = "parse" /\ cur.left = <<>>
    /\ IF cur.ref.state = "noindex"
       THEN AppendMarks({[mark |-> "!", id |-> cur.ref.id]})
       ELSE AppendWords({[id |-> cur.ref.id, url |-> cur.url,
                          text |-> PageText(cur.url, cur.page.ver)]})
    /\ docdb' = [docdb EXCEPT ![cur.url] = cur.ref]
    /\ phase' = "dig"
    /\ cur' = NoCur
    /\ UNCHANGED <<nextOnDisk, urlLog, disk, todo, restart, nextID, visited,
                   known, bad, queue, pushed, place, turn, more, noSignal,
                   worldVars, countVars, histVars>>

-----------------------------------------------------------------------------
(* The ways a run ends.                                                    *)

(* The destructor of the DocumentDB stores nextDocID and closes the file.  *)
CloseDb ==
    /\ nextOnDisk' = nextID
    /\ disk' = docdb
    /\ phase' = "down"
    /\ ClearMemory
    /\ UNCHANGED <<docdb, words, marks, listed>>

(* A round in which no server had anything. *)
Finish ==
    /\ phase = "dig" /\ noSignal /\ turn = {} /\ ~more
    /\ CloseDb
    /\ UNCHANGED <<urlLog, worldVars, countVars, histVars>>

(* The loop saw the signal: what is left in the queues goes to the log. *)
DumpLog ==
    /\ phase = "dig" /\ ~noSignal
    /\ urlLog' = Queued
    /\ CloseDb
    /\ UNCHANGED <<worldVars, countVars, histVars>>

(* A signal between two retrievals, or where it does not disturb one. *)
Signal ==
    /\ phase \in {"dig", "parse"} /\ noSignal
    /\ noSignal' = FALSE
    /\ UNCHANGED <<fileVars, phase, todo, restart, nextID, visited, known,
                   bad, queue, pushed, place, turn, more, cur, worldVars,
                   countVars, histVars>>

(* A signal before the handlers are installed, or SIGKILL: the process is  *)
(* gone without closing the database. *)
Crash ==
    /\ phase # "down"
    /\ crashes < MaxCrashes
    /\ crashes' = crashes + 1
    /\ phase' = "down"
    /\ LoseDb
    /\ ClearMemory
    /\ UNCHANGED <<nextOnDisk, words, marks, listed, urlLog, worldVars, runs,
                   histVars>>

(* htdump is the same program.  It opens the database for reading, and it  *)
(* never calls Start; but its Retriever, too, reads the log and unlinks it. *)
Htdump ==
    /\ phase = "down" /\ UsesHtdump
    /\ urlLog' = {}
    /\ UNCHANGED <<docdb, disk, nextOnDisk, words, marks, listed, phase,
                   memVars, worldVars, countVars, histVars>>

(* Meanwhile pages change, and servers go down and come back. *)
Publish ==
    /\ \E e \in Edits :
         /\ e.page # web[e.url] /\ e.page.ver >= web[e.url].ver
         /\ web' = [web EXCEPT ![e.url] = e.page]
    /\ UNCHANGED <<fileVars, phase, memVars, down, countVars, histVars>>

Outage ==
    /\ \E s \in Flaky :
         down' = IF s \in down THEN down \ {s} ELSE down \cup {s}
    /\ UNCHANGED <<fileVars, phase, memVars, web, countVars, histVars>>

-----------------------------------------------------------------------------
Load ==
    \/ \E u \in URLs : InitialLog(u) \/ InitialDb(u) \/ InitialStart(u)
    \/ LogRead \/ DbRead \/ Loaded

Heard(s) ==
    IF queue[s] = <<>> THEN {}
    ELSE LET u == Head(queue[s]).url IN {WholeAnswer(u)} \cup CutAnswers(u)

Retrieve(s) ==
    \E p \in Heard(s) :
        \/ RetrieveGone(s, p) \/ RetrieveUnchanged(s, p)
        \/ RetrieveUnauthorized(s, p)
        \/ RetrieveRedirect(s, p) \/ RetrievePage(s, p)

(* The steps htdig takes by itself once it was started. *)
Work ==
    \/ Load
    \/ \E s \in Servers : SkipServer(s) \/ Retrieve(s)
    \/ NewRound \/ GotHref \/ Parsed \/ Finish \/ DumpLog

World == Publish \/ Outage

DigNext ==
    \/ \E initial \in InitialFlags : Start(initial)
    \/ Work
    \/ Signal
    \/ Crash
    \/ Htdump
    \/ World

DigSpec == DigInit /\ [][DigNext]_vars

(* A started process is scheduled until it ends. *)
FairDigSpec == DigSpec /\ WF_vars(Work)

-----------------------------------------------------------------------------
(* Properties.                                                             *)

Running == phase \in {"dig", "parse"}

(* The next ID that the database will hand out. *)
NextFree == IF phase = "down" THEN nextOnDisk ELSE nextID

(* No two stored documents share an ID: htmerge knows a document by its ID *)
(* only (got_href: "a unique document ID"). *)
DistinctIDs ==
    \A u, v \in Stored : docdb[u].id = docdb[v].id => u = v

(* ... and no ID that is in use, by a document or by a line of the word    *)
(* list, will be handed out again, in this run or the next. *)
UniqueIDs ==
    /\ DistinctIDs
    /\ \A u \in Stored : docdb[u].id < NextFree
    /\ \A w \in words : w.id < NextFree

(* All words filed under one ID are for one document, and the document's   *)
(* own among them come from one version of it.  The word list is only ever *)
(* appended to, so a changed page must change IDs (parse_url), and a page  *)
(* whose retrieval failed before must not reuse an ID under which words of *)
(* its own were filed. *)
OneContentPerID ==
    /\ \A w, x \in words : w.id = x.id => w.url = x.url
    /\ \A w, x \in OwnWords(words) : w.id = x.id => w = x

(* Why these two hold, in a form that every step preserves: the database,  *)
(* the word list and the next free ID agree, and a document that was never *)
(* retrieved has no words of its own. *)
IDsAgree(db, lines, free) ==
    /\ \A u, v \in URLs : db[u] # NoDoc /\ db[v] # NoDoc
                           /\ db[u].id = db[v].id => u = v
    /\ \A u \in URLs : db[u] # NoDoc => db[u].id < free
    /\ \A w \in lines : w.id < free
    /\ \A w, x \in lines : w.id = x.id => w.url = x.url
    /\ \A w, x \in OwnWords(lines) : w.id = x.id => w = x
    /\ \A u \in URLs, w \in lines :
          db[u] # NoDoc /\ w.id = db[u].id =>
              w.url = u /\ (w.text.link \/ db[u].got)

(* ... nor, while a page is parsed, under the ID it will be stored with,   *)
(* which no other document has. *)
IDInv ==
    /\ IDsAgree(docdb, words, NextFree)
    /\ phase = "parse" =>
          /\ cur.ref.id < nextID
          /\ cur.ref.got
          /\ \A w \in words : w.id = cur.ref.id =>
                                w.url = cur.url /\ w.text.link
          /\ \A u \in Stored \ {cur.url} : docdb[u].id # cur.ref.id

(* A document is found by the texts of the links to it, too                *)
(* (description_factor): what a record says of them, which is what a       *)
(* redirect passes on, is in the word list under the record's ID, whatever *)
(* became of the document's ID, its hop count or its URL since (got_href,  *)
(* got_redirect and parse_url, which begins a new record under a new ID).  *)
Filed(ref, u, lines) ==
    \A t \in ref.descriptions : [id |-> ref.id, url |-> u, text |-> t] \in lines

DescriptionsFiled == \A u \in Stored : Filed(docdb[u], u, words)

(* ... also of the records that a killed run falls back to, and of the one *)
(* that is being filled in. *)
AllFiled(db, lines) ==
    \A u \in URLs : db[u] # NoDoc => Filed(db[u], u, lines)

FiledInv ==
    /\ AllFiled(docdb, words)
    /\ AllFiled(disk, words)
    /\ phase = "parse" => Filed(cur.ref, cur.url, words)

(* No URL that a dig came across is lost: it is queued, was retrieved, or  *)
(* was refused by its server's limits; when an interrupted dig leaves a    *)
(* log, that log names every stored URL that still waits (Retriever::Start *)
(* writes it, the constructor and Initial read it back). *)
NothingForgotten ==
    /\ visited \subseteq Queued \cup fetched \cup refused
    /\ Running => Stored \subseteq visited
    /\ phase = "down" /\ urlLog # {} =>
          Stored \subseteq urlLog \cup fetched \cup refused

(* A dig retrieves no URL twice, however often it is interrupted: nothing  *)
(* waits that was retrieved, and nothing waits in two places. *)
NoSecondVisit ==
    /\ Queued \cap fetched = {}
    /\ \A s \in Servers : \A i, j \in 1..Len(queue[s]) :
          /\ ServerOf[queue[s][i].url] = s
          /\ queue[s][i].url = queue[s][j].url => i = j

(* A dig that is stopped by signals and started again any number of times  *)
(* is one crawl (Crawl): what waits is what the queues hold or, between    *)
(* two runs and until it has been read back, what the log names. *)
Waiting ==
    CASE phase = "down" -> urlLog
      [] phase = "log" -> todo \cup Queued
      [] OTHER -> Queued

TheCrawl ==
    INSTANCE Crawl WITH waiting <- Waiting, done <- fetched, kills <- crashes

OneCrawl == TheCrawl!CrawlSpec

(* Every process that was started ends, whatever the web answers and       *)
(* whether it is interrupted or not. *)
RunsEnd == phase # "down" ~> phase = "down"

(* What a dig of the web as it is should retrieve: the start URLs, what a  *)
(* page at most MaxHops - 1 clicks away links to, and what those redirect  *)
(* to.  Distances count clicks; a redirect costs none. *)
Targets(u, statuses) ==
    IF web[u].status \in statuses
    THEN {web[u].links[i] : i \in 1..Len(web[u].links)} \cap Limits
    ELSE {}

(* S and where its redirects lead: what every set holds that holds S and   *)
(* the targets of its own redirects. *)
ThroughRedirects(S) ==
    {u \in URLs : \A T \in SUBSET URLs :
        S \subseteq T /\ (\A x \in T : Targets(x, {"redirect"}) \subseteq T) => u \in T}

(* One click further. *)
Click(S) == ThroughRedirects(S \cup UNION {Targets(u, {"ok"}) : u \in S})

Within(n) ==
    LET Clicks[k \in 0..n] ==
          IF k = 0 THEN ThroughRedirects(StartURLs) ELSE Click(Clicks[k - 1])
    IN  Clicks[n]

DigDone == phase = "down" /\ runs > 0 /\ urlLog = {}

(* A finished dig of a web that stands still has retrieved all pages at    *)
(* most max_hop_count clicks away, if no server's limits kept it from one  *)
(* and no signal cut a retrieval short. *)
ReachesEnough ==
    DigDone /\ refused = {} /\ cut = {} => Within(MaxHops) \subseteq fetched

(* ... and nothing that is further away is even asked for. *)
ReachesExactly ==
    ReachesEnough /\ (cut = {} => fetched \cup Queued \subseteq Within(MaxHops))

(* The hop count a finished dig stores is the number of clicks from the    *)
(* start (DocHopCount is lowered when a shorter way is found), if no       *)
(* retrieval was cut short. *)
HopsAreClicks ==
    DigDone /\ cut = {} => \A u \in Stored, n \in 0..MaxHops :
                  (u \in Within(n)) <=> (docdb[u].hop <= n)

(* A dig that comes to its end, whether it was stopped and started again   *)
(* ("The htdig program can be safely stopped and restarted in the middle   *)
(* of a dig", RELEASE.html:409) or not, has retrieved all it should.  It   *)
(* does not hold: a page whose retrieval a signal cut short is not asked   *)
(* for again, and its links are lost (Connection.cc:438-447); and with     *)
(* several servers a shorter way may be found too late (Retriever.cc:1350).*)
EndsComplete ==
    phase = "dig" /\ noSignal /\ turn = {} /\ ~more /\ refused = {} =>
        Within(MaxHops) \subseteq fetched

=============================================================================
