----------------------------- MODULE DigProofs -----------------------------
(***************************************************************************)
(* Theorems about htdig, for every web, every set of servers, any number   *)
(* of runs and whether they are stopped or killed: type correctness; that  *)
(* document IDs are unique and never reused as long as no run is killed;   *)
(* that no URL is retrieved twice in one dig and none that was found is    *)
(* lost; that a dig that is interrupted and started again is one crawl.    *)
(* And, for a web that stands still: nothing beyond max_hop_count is asked *)
(* for, and a dig of one server, even if it was stopped once and started   *)
(* again, retrieves all that is within it and counts the clicks to it,     *)
(* unless the signal that stopped it cut a retrieval short.                *)
(***************************************************************************)
EXTENDS Dig, FiniteSetTheorems, WellFoundedInduction, TLAPS

-----------------------------------------------------------------------------
(* Lemmas about the operators that the actions share.                      *)

(* What a signal leaves of an answer is one. *)
LEMMA CutType ==
    ASSUME DigTypeOK, NEW u \in URLs, NEW p \in CutAnswers(u)
    PROVE  p \in Answer /\ ~Unreachable(u)
<1>1. web[u] \in Page
  BY DEF DigTypeOK
<1>2. /\ web[u] = [status |-> web[u].status, ver |-> web[u].ver, links |-> web[u].links,
                   noindex |-> web[u].noindex, head |-> web[u].head]
      /\ web[u].status \in Statuses /\ web[u].ver \in Nat /\ web[u].links \in Seq(URLs)
      /\ web[u].noindex \in BOOLEAN /\ web[u].head \in BOOLEAN
  BY <1>1 DEF Page
<1>3. /\ ~Unreachable(u)
      /\ p \in Failures(u) \/ p \in HalfRedirects(u) \/ p \in HalfPages(u)
  BY DEF CutAnswers
<1>4. CASE p \in Failures(u)
  <2>1. PICK st \in {"no_server", "not_found", "not_html"} : p = [web[u] EXCEPT !.status = st]
    BY <1>4 DEF Failures
  <2> QED
    BY <1>2, <1>3, <2>1 DEF Answer, Statuses
<1>5. CASE p \in HalfRedirects(u)
  <2>1. PICK v \in URLs : p = [web[u] EXCEPT !.status = "redirect", !.links = <<v>>]
    BY <1>5 DEF HalfRedirects
  <2>2. <<v>> \in Seq(URLs) /\ <<v>> # <<>>
    OBVIOUS
  <2> QED
    BY <1>2, <1>3, <2>1, <2>2 DEF Answer, Statuses
<1>6. CASE p \in HalfPages(u)
  <2>1. <<>> \in Seq(URLs)
    OBVIOUS
  <2>2. Plain(web[u]) \in Answer /\ [Plain(web[u]) EXCEPT !.ver = 0] \in Answer
    BY <1>2, <2>1 DEF Plain, Answer, Statuses
  <2>3. web[u].status = "ok" => [web[u] EXCEPT !.ver = 0] \in Answer
    BY <1>2 DEF Answer, Statuses
  <2>4. \/ p \in {Plain(web[u]), [Plain(web[u]) EXCEPT !.ver = 0]}
        \/ web[u].status = "ok" /\ p = [web[u] EXCEPT !.ver = 0]
    <3>1. CASE web[u].status = "ok"
      BY <1>6, <3>1 DEF HalfPages
    <3>2. CASE web[u].status = "not_html"
      BY <1>6, <3>2 DEF HalfPages
    <3>3. CASE web[u].status \notin {"ok", "not_html"}
      BY <1>6, <3>3 DEF HalfPages
    <3> QED
      BY <3>1, <3>2, <3>3
  <2> QED
    BY <1>3, <2>2, <2>3, <2>4
<1> QED
  BY <1>3, <1>4, <1>5, <1>6

(* What is heard of the URL at the head of a queue is an answer. *)
LEMMA HeardType ==
    ASSUME DigTypeOK, NEW s \in Servers, NEW p \in Heard(s)
    PROVE  /\ p \in Answer /\ p.status \in Statuses \cup {"no_server"}
           /\ queue[s] # <<>> /\ Head(queue[s]).url \in URLs
           /\ \/ p = WholeAnswer(Head(queue[s]).url)
              \/ p \in CutAnswers(Head(queue[s]).url)
<1> DEFINE u == Head(queue[s]).url
<1>1. queue[s] # <<>> /\ p \in {WholeAnswer(u)} \cup CutAnswers(u)
  BY DEF Heard
<1>2. queue[s] \in Seq(URLRef)
  BY DEF DigTypeOK
<1>3. u \in URLs
  <2>1. Head(queue[s]) \in URLRef
    BY <1>1, <1>2
  <2> QED
    BY <2>1 DEF URLRef
<1>4. WholeAnswer(u) \in Answer
  <2>1. web[u] \in Page
    BY <1>3 DEF DigTypeOK
  <2>2. web[u] \in Answer
    BY <2>1 DEF Page, Answer
  <2>3. [web[u] EXCEPT !.status = "no_server"] \in Answer
    BY <2>2 DEF Answer
  <2> QED
    BY <2>2, <2>3 DEF WholeAnswer
<1>5. p \in Answer
  BY <1>1, <1>3, <1>4, CutType
<1>6. p.status \in Statuses \cup {"no_server"}
  BY <1>5 DEF Answer
<1> QED
  BY <1>1, <1>3, <1>5, <1>6

(* The outcome of a retrieval is one of those parse_url handles. *)
LEMMA StatusType ==
    ASSUME NEW u, NEW p \in Answer
    PROVE  Status(u, p) \in Answers
<1>1. p.status \in Statuses \cup {"no_server"}
  BY DEF Answer
<1> QED
  BY <1>1 DEF Status, Answers

(* A redirect leads to a URL. *)
LEMMA TargetType ==
    ASSUME NEW u, NEW p \in Answer, Status(u, p) = "redirect"
    PROVE  /\ p.status = "redirect" /\ p.links[1] \in URLs
           /\ ServerOf[p.links[1]] \in Servers
<1>1. p.status = "redirect"
  BY DEF Status
<1>2. p.links \in Seq(URLs) /\ p.links # <<>>
  BY <1>1 DEF Answer
<1>3. p.links[1] \in URLs
  BY <1>2, SMTT(30)
<1> QED
  BY <1>1, <1>3, DigAssumption

(* The order of the servers is a numbering. *)
LEMMA OrdersType == ASSUME NEW f \in Orders PROVE f \in [Servers -> Nat]
<1>1. Cardinality(Servers) \in Nat
  BY DigAssumption, FS_CardinalityType
<1> QED
  BY <1>1 DEF Orders

(* parse_url's record for a URL is a document that counts as accessed.     *)
LEMMA RegisteredType ==
    ASSUME DigTypeOK, NEW r \in URLRef
    PROVE  /\ Registered(r) \in Doc
           /\ Registered(r).got = TRUE
           /\ Registered(r).hop \in Nat
           /\ Registered(r).descriptions \in SUBSET LinkTexts
           /\ AfterRegister(r) \in Nat
<1>1. r.url \in URLs /\ r.hop \in Nat
  BY DEF URLRef
<1>2. nextID \in Nat /\ docdb[r.url] \in Doc \cup {NoDoc}
  BY <1>1 DEF DigTypeOK, FilesTypeOK
<1>3. CASE docdb[r.url] = NoDoc
  BY <1>1, <1>2, <1>3 DEF Registered, AfterRegister, Fresh, Doc, States
<1>4. CASE docdb[r.url] # NoDoc
  BY <1>2, <1>4 DEF Registered, AfterRegister, Doc, States
<1> QED
  BY <1>3, <1>4

(* The record of a link's target is new or has the ID it had, and it has   *)
(* the link's text. *)
LEMMA LinkedType ==
    ASSUME DigTypeOK, NEW v \in URLs, NEW h \in Nat, NEW id \in Nat,
           NEW texts \in SUBSET LinkTexts
    PROVE  LET ref == Linked(v, h, id, texts)
           IN  /\ ref \in Doc /\ ref.hop \in Nat /\ ref.id \in Nat
               /\ docdb[v] = NoDoc =>
                     ref.id = id /\ ~ref.got /\ ref.descriptions = texts
               /\ docdb[v] # NoDoc =>
                     /\ ref.id = docdb[v].id /\ ref.got = docdb[v].got
                     /\ ref.descriptions = docdb[v].descriptions \cup texts
<1>1. CASE docdb[v] = NoDoc
  BY <1>1 DEF Linked, Fresh, Doc, States
<1>2. CASE docdb[v] # NoDoc
  <2>1. docdb[v] \in Doc
    BY <1>2 DEF DigTypeOK, FilesTypeOK
  <2> QED
    BY <1>2, <2>1 DEF Linked, Lower, Doc
<1> QED
  BY <1>1, <1>2

(* The words of the texts of links are lines of the word list. *)
LEMMA DescribedType ==
    ASSUME NEW v \in URLs, NEW id \in Nat, NEW texts \in SUBSET LinkTexts
    PROVE  Described(v, id, texts) \in SUBSET WordLine
BY DEF Described, WordLine, LinkTexts

(* The text of the links of the page being parsed is one of those. *)
LEMMA LinkTextType ==
    ASSUME NEW u \in URLs, NEW n \in Nat
    PROVE  {LinkText(u, n)} \in SUBSET LinkTexts
BY DEF LinkText, LinkTexts, Token

(* A new Server object is one of the servers. *)
LEMMA ConnectType ==
    ASSUME DigTypeOK, NEW s \in Servers, NEW interrupted, Connect(s, interrupted)
    PROVE  known' \in SUBSET Servers /\ bad' \in SUBSET Servers
BY DEF DigTypeOK, Connect

(* Server::push leaves queues of URLs, whichever queues it is given.       *)
LEMMA PushType ==
    ASSUME DigTypeOK, NEW q \in [Servers -> Seq(URLRef)],
           NEW u \in URLs, NEW h \in Nat, Push(q, u, h)
    PROVE  /\ visited' \in SUBSET URLs
           /\ queue' \in [Servers -> Seq(URLRef)]
           /\ pushed' \in [Servers -> Nat]
           /\ refused' \in SUBSET URLs
<1>1. [url |-> u, hop |-> h] \in URLRef /\ ServerOf[u] \in Servers
  BY DigAssumption DEF URLRef
<1>2. q[ServerOf[u]] \in Seq(URLRef) /\ pushed[ServerOf[u]] \in Nat
  BY <1>1 DEF DigTypeOK
<1>3. Append(q[ServerOf[u]], [url |-> u, hop |-> h]) \in Seq(URLRef)
  BY <1>1, <1>2
<1>4. visited' \in SUBSET URLs
  BY DEF Push, DigTypeOK
<1>5. CASE Refuses(u)
  BY <1>4, <1>5 DEF Push, DigTypeOK
<1>6. CASE ~Refuses(u)
  <2> DEFINE p == Append(q[ServerOf[u]], [url |-> u, hop |-> h])
  <2>1. queue' = [q EXCEPT ![ServerOf[u]] = p]
    BY <1>6 DEF Push
  <2>2. pushed' = [pushed EXCEPT ![ServerOf[u]] = @ + 1] /\ refused' = refused
    BY <1>6 DEF Push
  <2>3. queue' \in [Servers -> Seq(URLRef)]
    <3>1. p \in Seq(URLRef)
      BY <1>3
    <3> HIDE DEF p
    <3> QED
      BY <2>1, <3>1, <1>1
  <2>4. pushed' \in [Servers -> Nat]
    <3>1. pushed[ServerOf[u]] + 1 \in Nat
      BY <1>2
    <3> DEFINE n == pushed[ServerOf[u]] + 1
    <3>2. n \in Nat /\ pushed' = [pushed EXCEPT ![ServerOf[u]] = n]
      BY <2>2, <3>1
    <3> HIDE DEF n
    <3> QED
      BY <3>2, <1>1 DEF DigTypeOK
  <2> QED
    BY <1>4, <2>2, <2>3, <2>4 DEF DigTypeOK
<1> QED
  BY <1>5, <1>6

(* The round is always over servers. *)
LEMMA JoinRoundType ==
    ASSUME DigTypeOK, NEW t \in SUBSET Servers, NEW s \in Servers, NEW u \in URLs,
           JoinRound(t, s, u)
    PROVE  turn' \in SUBSET Servers /\ place' \in [Servers -> Nat]
<1>1. ServerOf[u] \in Servers /\ known \in SUBSET Servers
  BY DigAssumption DEF DigTypeOK
<1>2. turn' = t \/ turn' \in SUBSET (known \cup {ServerOf[u]})
        \/ turn' = t \cup {ServerOf[u]}
  BY DEF JoinRound
<1>3. place' = place \/ place' \in Orders
  BY DEF JoinRound
<1>4. place' \in [Servers -> Nat]
  BY <1>3, OrdersType DEF DigTypeOK
<1> QED
  BY <1>1, <1>2, <1>4

(* The head of a queue is a URL and what remains is a queue. *)
LEMMA TakenType ==
    ASSUME DigTypeOK, NEW s \in Servers, queue[s] # <<>>
    PROVE  /\ Head(queue[s]) \in URLRef
           /\ Head(queue[s]).url \in URLs
           /\ Popped(s) \in [Servers -> Seq(URLRef)]
<1>1. queue[s] \in Seq(URLRef)
  BY DEF DigTypeOK
<1>2. Head(queue[s]) \in URLRef /\ Tail(queue[s]) \in Seq(URLRef)
  BY <1>1
<1> QED
  BY <1>2 DEF Popped, URLRef, DigTypeOK

(* What every retrieval does to the round and the history. *)
LEMMA TakeType ==
    ASSUME DigTypeOK, NEW s \in Servers, NEW p \in Heard(s), Take(s, p)
    PROVE  /\ nextOnDisk' \in Nat /\ urlLog' \in SUBSET URLs
           /\ disk' \in [URLs -> Doc \cup {NoDoc}]
           /\ todo' \in SUBSET URLs /\ restart' \in BOOLEAN
           /\ noSignal' \in BOOLEAN /\ more' \in BOOLEAN
           /\ web' \in [URLs -> Page] /\ down' \in SUBSET Servers
           /\ runs' \in Nat /\ crashes' \in Nat
           /\ last' \in [URLs -> Answers] /\ fetched' \in SUBSET URLs
           /\ cut' \in SUBSET URLs
<1>1. Head(queue[s]).url \in URLs /\ p \in Answer
  BY HeardType
<1>2. Status(Head(queue[s]).url, p) \in Answers /\ "cut" \in Answers
  BY <1>1, StatusType DEF Answers
<1>3. Hear(Head(queue[s]).url, p)
  BY DEF Take
<1>4. /\ last' \in [URLs -> Answers] /\ noSignal' \in BOOLEAN /\ cut' \in SUBSET URLs
  BY <1>1, <1>2, <1>3 DEF Hear, DigTypeOK
<1> QED
  BY <1>1, <1>4 DEF Take, DigTypeOK, FilesTypeOK, worldVars, countVars

(* Appending markers or words keeps the word list a word list. *)
LEMMA AppendType ==
    ASSUME DigTypeOK
    PROVE  /\ \A m \in SUBSET Mark : AppendMarks(m) =>
                 words' \in SUBSET WordLine /\ marks' \in SUBSET Mark
                   /\ listed' \in BOOLEAN
           /\ \A w \in SUBSET WordLine : AppendWords(w) =>
                 words' \in SUBSET WordLine /\ marks' \in SUBSET Mark
                   /\ listed' \in BOOLEAN
           /\ \A m \in SUBSET Mark, w \in SUBSET WordLine : AppendLines(m, w) =>
                 words' \in SUBSET WordLine /\ marks' \in SUBSET Mark
                   /\ listed' \in BOOLEAN
           /\ KeepList =>
                 words' \in SUBSET WordLine /\ marks' \in SUBSET Mark
                   /\ listed' \in BOOLEAN
BY DEF DigTypeOK, FilesTypeOK, AppendMarks, AppendWords, AppendLines,
   KeepList

-----------------------------------------------------------------------------
(* Type correctness. *)

(* A killed or finished process leaves memory of the right types. *)
LEMMA ClearedType ==
    ASSUME ClearMemory
    PROVE  /\ todo' \in SUBSET URLs /\ restart' \in BOOLEAN
           /\ nextID' \in Nat /\ visited' \in SUBSET URLs
           /\ known' \in SUBSET Servers /\ bad' \in SUBSET Servers
           /\ queue' \in [Servers -> Seq(URLRef)]
           /\ pushed' \in [Servers -> Nat] /\ place' \in [Servers -> Nat]
           /\ turn' \in SUBSET Servers
           /\ more' \in BOOLEAN /\ noSignal' \in BOOLEAN
           /\ cur' \in Cur \cup {NoCur}
<1>1. /\ queue' \in [Servers -> Seq(URLRef)] /\ pushed' \in [Servers -> Nat]
      /\ place' \in [Servers -> Nat]
  BY DEF ClearMemory
<1>2. restart' \in BOOLEAN /\ more' \in BOOLEAN /\ noSignal' \in BOOLEAN
  BY DEF ClearMemory
<1>3. /\ todo' = {} /\ visited' = {} /\ known' = {} /\ bad' = {}
      /\ turn' = {} /\ nextID' = 0 /\ cur' = NoCur
  BY DEF ClearMemory
<1> QED
  BY <1>1, <1>2, <1>3

(* Nothing runs and no file exists at first: every variable has its type. *)
LEMMA InitType == DigInit => DigTypeOK
<1> SUFFICES ASSUME DigInit PROVE DigTypeOK
  OBVIOUS
<1>1. FilesTypeOK
  BY DEF DigInit, FilesInit, FilesTypeOK
<1>2. /\ queue \in [Servers -> Seq(URLRef)] /\ pushed \in [Servers -> Nat]
      /\ place \in [Servers -> Nat]
  BY DEF DigInit, MemInit
<1>3. last \in [URLs -> Answers] /\ web \in [URLs -> Page]
  BY DigAssumption DEF DigInit, Answers
<1>4. restart \in BOOLEAN /\ more \in BOOLEAN /\ noSignal \in BOOLEAN
  BY DEF DigInit, MemInit
<1>5. nextID \in Nat /\ runs \in Nat /\ crashes \in Nat
  BY DEF DigInit, MemInit
<1>6. /\ todo = {} /\ visited = {} /\ known = {} /\ bad = {} /\ turn = {}
      /\ down = {} /\ fetched = {} /\ refused = {} /\ cut = {} /\ cur = NoCur
      /\ phase = "down"
  BY DEF DigInit, MemInit
<1> QED
  BY <1>1, <1>2, <1>3, <1>4, <1>5, <1>6 DEF DigTypeOK

(* The steps that load the URLs to visit. *)
LEMMA LoadType == DigTypeOK /\ Load => DigTypeOK'
<1> SUFFICES ASSUME DigTypeOK, Load PROVE DigTypeOK'
  OBVIOUS
<1>1. ASSUME NEW u \in URLs, NEW skip, NEW pushes, Initial(u, skip, pushes),
             phase \in {"log", "db", "start"}
      PROVE  DigTypeOK'
  <2>1. /\ visited' \in SUBSET URLs
        /\ queue' \in [Servers -> Seq(URLRef)] /\ pushed' \in [Servers -> Nat]
        /\ known' \in SUBSET Servers /\ bad' \in SUBSET Servers
        /\ refused' \in SUBSET URLs
    <3>1. CASE ServerOf[u] \in known /\ skip /\ u \in visited
      BY <1>1, <3>1 DEF Initial, DigTypeOK
    <3>2. CASE ~(ServerOf[u] \in known /\ skip /\ u \in visited)
      <4>1. Connect(ServerOf[u], FALSE) /\ ServerOf[u] \in Servers
        BY <1>1, <3>2, DigAssumption DEF Initial
      <4>2. CASE pushes
        <5>1. Push(queue, u, 0)
          BY <1>1, <3>2, <4>2 DEF Initial
        <5>2. queue \in [Servers -> Seq(URLRef)]
          BY DEF DigTypeOK
        <5> QED
          BY <4>1, <5>1, <5>2, ConnectType, PushType
      <4>3. CASE ~pushes
        BY <1>1, <3>2, <4>1, <4>3, ConnectType DEF Initial, DigTypeOK
      <4> QED
        BY <4>2, <4>3
    <3> QED
      BY <3>1, <3>2
  <2>2. FilesTypeOK'
    BY <1>1 DEF Initial, fileVars, DigTypeOK, FilesTypeOK
  <2> QED
    BY <1>1, <2>1, <2>2 DEF Initial, worldVars, countVars, DigTypeOK
<1>2. CASE \E u \in URLs : InitialLog(u) \/ InitialDb(u) \/ InitialStart(u)
  BY <1>1, <1>2 DEF InitialLog, InitialDb, InitialStart
<1>3. CASE LogRead
  <2>1. FilesTypeOK'
    BY <1>3 DEF LogRead, DigTypeOK, FilesTypeOK
  <2> QED
    BY <1>3, <2>1 DEF LogRead, worldVars, countVars, histVars, Stored, DigTypeOK
<1>4. CASE DbRead
  <2>1. FilesTypeOK'
    BY <1>4 DEF DbRead, fileVars, DigTypeOK, FilesTypeOK
  <2> QED
    BY <1>4, <2>1, DigAssumption
       DEF DbRead, worldVars, countVars, histVars, DigTypeOK
<1>5. CASE Loaded
  <2>1. FilesTypeOK'
    BY <1>5 DEF Loaded, fileVars, DigTypeOK, FilesTypeOK
  <2>2. place' \in [Servers -> Nat]
    BY <1>5, OrdersType DEF Loaded
  <2> QED
    BY <1>5, <2>1, <2>2 DEF Loaded, worldVars, countVars, histVars, DigTypeOK
<1> QED
  BY <1>2, <1>3, <1>4, <1>5 DEF Load

(* The steps that retrieve one URL. *)
LEMMA RetrieveType ==
    ASSUME DigTypeOK, NEW s \in Servers, Retrieve(s)
    PROVE  DigTypeOK'
<1> DEFINE r == Head(queue[s])
<1>0. PICK p \in Heard(s) :
        \/ RetrieveGone(s, p) \/ RetrieveUnchanged(s, p) \/ RetrieveUnauthorized(s, p)
        \/ RetrieveRedirect(s, p) \/ RetrievePage(s, p)
  BY DEF Retrieve
<1>1. Take(s, p)
  BY <1>0 DEF RetrieveGone, RetrieveUnchanged, RetrieveUnauthorized, RetrieveRedirect,
              RetrievePage
<1>2. /\ r \in URLRef /\ r.url \in URLs
      /\ Popped(s) \in [Servers -> Seq(URLRef)]
      /\ turn \ {s} \in SUBSET Servers
  BY <1>1, TakenType DEF Take, DigTypeOK
<1>3. Registered(r) \in Doc /\ AfterRegister(r) \in Nat /\ nextID \in Nat
  BY <1>2, RegisteredType DEF DigTypeOK
<1>4. ASSUME docdb' \in [URLs -> Doc \cup {NoDoc}],
             words' \in SUBSET WordLine, marks' \in SUBSET Mark,
             listed' \in BOOLEAN, nextID' \in Nat,
             visited' \in SUBSET URLs, known' \in SUBSET Servers,
             bad' \in SUBSET Servers, queue' \in [Servers -> Seq(URLRef)],
             pushed' \in [Servers -> Nat], place' \in [Servers -> Nat],
             turn' \in SUBSET Servers,
             refused' \in SUBSET URLs,
             \/ cur' \in Cur /\ phase' = "parse"
             \/ cur' = cur /\ phase' = phase
      PROVE  DigTypeOK'
  <2>1. FilesTypeOK'
    BY <1>1, <1>4, TakeType DEF FilesTypeOK
  <2>2. cur' \in Cur \cup {NoCur} /\ (phase' = "parse" => cur' \in Cur)
          /\ phase' \in {"down", "log", "db", "start", "dig", "parse"}
    BY <1>4 DEF DigTypeOK
  <2> QED
    BY <1>1, <1>4, <2>1, <2>2, TakeType DEF DigTypeOK
<1>5. ASSUME NEW ref \in Doc
      PROVE  [docdb EXCEPT ![r.url] = ref] \in [URLs -> Doc \cup {NoDoc}]
  BY <1>2, <1>5 DEF DigTypeOK, FilesTypeOK
<1>6. \A k \in {"+", "-", "!"} :
          {[mark |-> k, id |-> Registered(r).id]} \in SUBSET Mark
  BY <1>3 DEF Mark, Doc
<1>7. CASE RetrieveGone(s, p)
  <2> DEFINE st == IF Status(r.url, p) = "not_html" THEN "normal" ELSE "not_found"
             ref == [Registered(r) EXCEPT !.state = st]
  <2>1. docdb' = [docdb EXCEPT ![r.url] = ref] /\ nextID' = AfterRegister(r)
    BY <1>7 DEF RetrieveGone
  <2>2. AppendMarks({[mark |-> "-", id |-> Registered(r).id]})
    BY <1>7 DEF RetrieveGone
  <2>3. ref \in Doc
    BY <1>3 DEF Doc, States
  <2>4. docdb' \in [URLs -> Doc \cup {NoDoc}]
    BY <2>1, <2>3, <1>5
  <2>5. words' \in SUBSET WordLine /\ marks' \in SUBSET Mark /\ listed' \in BOOLEAN
    BY <2>2, <1>6, AppendType
  <2>6. bad' \in SUBSET Servers
    BY <1>7 DEF RetrieveGone, DigTypeOK
  <2>7. /\ queue' = Popped(s) /\ turn' = turn \ {s}
        /\ UNCHANGED <<phase, visited, known, pushed, place, cur, refused>>
    BY <1>7 DEF RetrieveGone
  <2> QED
    BY <1>2, <1>3, <1>4, <2>1, <2>4, <2>5, <2>6, <2>7 DEF DigTypeOK
<1>8. CASE RetrieveUnchanged(s, p)
  <2>1. docdb' = [docdb EXCEPT ![r.url] = Registered(r)]
    BY <1>8 DEF RetrieveUnchanged
  <2>2. AppendMarks({[mark |-> "+", id |-> Registered(r).id]})
    BY <1>8 DEF RetrieveUnchanged
  <2>3. docdb' \in [URLs -> Doc \cup {NoDoc}]
    BY <2>1, <1>3, <1>5
  <2>4. words' \in SUBSET WordLine /\ marks' \in SUBSET Mark /\ listed' \in BOOLEAN
    BY <2>2, <1>6, AppendType
  <2>5. /\ queue' = Popped(s) /\ turn' = turn \ {s}
        /\ UNCHANGED <<phase, nextID, visited, known, bad, pushed, place, cur, refused>>
    BY <1>8 DEF RetrieveUnchanged
  <2> QED
    BY <1>2, <1>3, <1>4, <2>3, <2>4, <2>5 DEF DigTypeOK
<1>9. CASE RetrieveUnauthorized(s, p)
  <2>1. docdb' = [docdb EXCEPT ![r.url] = Registered(r)]
          /\ nextID' = AfterRegister(r)
    BY <1>9 DEF RetrieveUnauthorized
  <2>2. docdb' \in [URLs -> Doc \cup {NoDoc}]
    BY <2>1, <1>3, <1>5
  <2>3. words' \in SUBSET WordLine /\ marks' \in SUBSET Mark /\ listed' \in BOOLEAN
    BY <1>9, AppendType DEF RetrieveUnauthorized
  <2>4. /\ queue' = Popped(s) /\ turn' = turn \ {s}
        /\ UNCHANGED <<phase, visited, known, bad, pushed, place, cur, refused>>
    BY <1>9 DEF RetrieveUnauthorized
  <2> QED
    BY <1>2, <1>3, <1>4, <2>1, <2>2, <2>3, <2>4 DEF DigTypeOK
<1>10. CASE RetrieveRedirect(s, p)
  <2> DEFINE ref == Registered(r)
             v == p.links[1]
             id == AfterRegister(r)
             target == Linked(v, ref.hop, id, ref.descriptions)
             gone == {[mark |-> "-", id |-> ref.id]}
  <2>1. v \in URLs /\ ServerOf[v] \in Servers
    <3>1. Status(r.url, p) = "redirect" /\ p \in Answer
      BY <1>10, HeardType DEF RetrieveRedirect
    <3> QED
      BY <3>1, TargetType
  <2>2. /\ ref \in Doc /\ ref.hop \in Nat /\ id \in Nat
        /\ ref.descriptions \in SUBSET LinkTexts
    BY <1>2, <1>3, RegisteredType
  <2>3. target \in Doc /\ target.hop \in Nat /\ target.id \in Nat
    <3> HIDE DEF v, ref, id
    <3> QED
      BY <2>1, <2>2, LinkedType
  <2>4. docdb' \in [URLs -> Doc \cup {NoDoc}] /\ nextID' \in Nat
    <3>1. CASE v \in Limits
      <4>1. docdb' = [docdb EXCEPT ![v] = target, ![r.url] = ref]
        BY <1>10, <3>1 DEF RetrieveRedirect
      <4>2. nextID' = IF docdb[v] = NoDoc THEN id + 1 ELSE id
        BY <1>10, <3>1 DEF RetrieveRedirect
      <4>3. docdb' \in [URLs -> Doc \cup {NoDoc}]
        <5> HIDE DEF target, ref, v, r
        <5> QED
          BY <4>1, <2>1, <2>2, <2>3 DEF DigTypeOK, FilesTypeOK
      <4> QED
        BY <4>2, <4>3, <2>2
    <3>2. CASE v \notin Limits
      <4>1. docdb' = [docdb EXCEPT ![r.url] = ref] /\ nextID' = id
        BY <1>10, <3>2 DEF RetrieveRedirect
      <4> QED
        BY <4>1, <2>2, <1>5
    <3> QED
      BY <3>1, <3>2
  <2>5. words' \in SUBSET WordLine /\ marks' \in SUBSET Mark /\ listed' \in BOOLEAN
    <3>1. CASE v \in Limits
      <4>1. AppendLines(gone, Described(v, target.id, ref.descriptions))
        BY <1>10, <3>1 DEF RetrieveRedirect
      <4>2. gone \in SUBSET Mark
        BY <1>6
      <4> HIDE DEF v, ref, target, gone
      <4> QED
        BY <4>1, <4>2, <2>1, <2>2, <2>3, DescribedType, AppendType
    <3>2. CASE v \notin Limits
      BY <1>10, <1>6, <3>2, AppendType DEF RetrieveRedirect
    <3> QED
      BY <3>1, <3>2
  <2>6. /\ visited' \in SUBSET URLs /\ known' \in SUBSET Servers
        /\ bad' \in SUBSET Servers /\ queue' \in [Servers -> Seq(URLRef)]
        /\ pushed' \in [Servers -> Nat] /\ turn' \in SUBSET Servers
        /\ place' \in [Servers -> Nat] /\ refused' \in SUBSET URLs
    <3>1. CASE v \in Limits /\ v \notin visited
      <4>1. /\ Push(Popped(s), v, target.hop) /\ JoinRound(turn \ {s}, s, v)
            /\ \E interrupted \in {FALSE, ~noSignal'} : Connect(ServerOf[v], interrupted)
        BY <1>10, <3>1 DEF RetrieveRedirect
      <4>2. target.hop \in Nat
        BY <2>3
      <4>3. turn' \in SUBSET Servers /\ place' \in [Servers -> Nat]
        <5> HIDE DEF v
        <5> QED
          BY <4>1, <2>1, <1>2, JoinRoundType
      <4> HIDE DEF target, v
      <4> QED
        BY <4>1, <4>2, <4>3, <2>1, <1>2, ConnectType, PushType
    <3>2. CASE ~(v \in Limits /\ v \notin visited)
      <4>1. /\ queue' = Popped(s) /\ turn' = turn \ {s}
            /\ UNCHANGED <<visited, known, bad, pushed, place, refused>>
        BY <1>10, <3>2 DEF RetrieveRedirect
      <4> QED
        BY <4>1, <1>2 DEF DigTypeOK
    <3> QED
      BY <3>1, <3>2
  <2>7. UNCHANGED <<phase, cur>>
    BY <1>10 DEF RetrieveRedirect
  <2> QED
    BY <1>4, <2>4, <2>5, <2>6, <2>7
<1>11. CASE RetrievePage(s, p)
  <2> DEFINE old == Registered(r)
             id == IF Old(r.url) THEN nextID ELSE old.id
             ref == [old EXCEPT !.id = id, !.time = p.ver, !.head = p.head,
                       !.state = IF p.noindex THEN "noindex" ELSE "normal",
                       !.descriptions = IF Old(r.url) THEN {} ELSE @]
  <2>1. /\ p \in Answer /\ p.ver \in Nat /\ p.head \in BOOLEAN
        /\ p.links \in Seq(URLs)
    BY HeardType DEF Answer
  <2>2. id \in Nat
    BY <1>3 DEF Doc
  <2>3. ref \in Doc
    BY <1>3, <2>1, <2>2 DEF Doc, States
  <2>4. cur' = [url |-> r.url, ref |-> ref, left |-> p.links, page |-> p]
          /\ phase' = "parse"
    BY <1>11 DEF RetrievePage
  <2>5. cur' \in Cur
    <3> HIDE DEF ref, r
    <3> QED
      BY <2>1, <2>3, <2>4, <1>2 DEF Cur
  <2>6. /\ words' \in SUBSET WordLine /\ marks' \in SUBSET Mark
        /\ listed' \in BOOLEAN /\ nextID' \in Nat
    <3>1. CASE Old(r.url)
      BY <1>11, <3>1, <1>3, <1>6, AppendType DEF RetrievePage
    <3>2. CASE ~Old(r.url)
      BY <1>11, <3>2, <1>3, AppendType DEF RetrievePage
    <3> QED
      BY <3>1, <3>2
  <2>7. /\ queue' = Popped(s) /\ turn' = turn \ {s}
        /\ UNCHANGED <<docdb, visited, known, bad, pushed, place, refused>>
    BY <1>11 DEF RetrievePage
  <2> QED
    BY <1>2, <1>4, <2>4, <2>5, <2>6, <2>7 DEF DigTypeOK, FilesTypeOK
<1> QED
  BY <1>0, <1>7, <1>8, <1>9, <1>10, <1>11

(* The steps that parse the page, and those that begin and end a run. *)
LEMMA ParseType == DigTypeOK /\ (GotHref \/ Parsed) => DigTypeOK'
<1> SUFFICES ASSUME DigTypeOK, GotHref \/ Parsed PROVE DigTypeOK'
  OBVIOUS
<1>1. /\ phase = "parse" /\ cur \in Cur
      /\ cur.url \in URLs /\ cur.ref \in Doc /\ cur.left \in Seq(URLs)
      /\ cur.page \in Answer
  BY DEF GotHref, Parsed, DigTypeOK, Cur
<1>2. cur.ref.hop \in Nat /\ cur.ref.id \in Nat /\ cur.page.ver \in Nat
  BY <1>1 DEF Doc, Answer
<1>3. CASE GotHref
  <2> DEFINE v == Head(cur.left)
             h == cur.ref.hop + 1
             texts == {LinkText(cur.url, cur.page.ver)}
             self == v \in Limits /\ v = cur.url
             ref == Linked(v, h, nextID, texts)
             follow == Follows(v, h)
  <2>1. cur.left # <<>>
    BY <1>3 DEF GotHref
  <2>2. v \in URLs /\ ServerOf[v] \in Servers /\ Tail(cur.left) \in Seq(URLs)
    BY <1>1, <2>1, DigAssumption
  <2>3. h \in Nat /\ nextID \in Nat
    BY <1>2 DEF DigTypeOK
  <2>4. texts \in SUBSET LinkTexts
    BY <1>1, <1>2, LinkTextType
  <2>5. ref \in Doc /\ ref.hop \in Nat /\ ref.id \in Nat
    <3> HIDE DEF v, h, texts
    <3> QED
      BY <2>2, <2>3, <2>4, LinkedType
  <2>6. cur' \in Cur
    <3> DEFINE described == IF self THEN cur.ref.descriptions \cup texts
                        ELSE cur.ref.descriptions
    <3>1. cur' = [cur EXCEPT !.left = Tail(cur.left), !.ref.descriptions = described]
      BY <1>3 DEF GotHref
    <3>2. described \in SUBSET LinkTexts
      <4> HIDE DEF texts, self
      <4> QED
        BY <1>1, <2>4 DEF Doc
    <3> HIDE DEF described
    <3>3. [cur.ref EXCEPT !.descriptions = described] \in Doc
      BY <1>1, <3>2 DEF Doc
    <3> QED
      BY <3>1, <3>3, <1>1, <2>2 DEF Cur
  <2>7. /\ words' \in SUBSET WordLine /\ marks' \in SUBSET Mark
        /\ listed' \in BOOLEAN
    <3>1. \/ AppendWords(Described(v, cur.ref.id, texts))
          \/ AppendWords(Described(v, ref.id, texts))
          \/ KeepList
      BY <1>3 DEF GotHref
    <3> HIDE DEF v, texts, ref
    <3> QED
      BY <3>1, <1>2, <2>2, <2>4, <2>5, DescribedType, AppendType
  <2>8. docdb' \in [URLs -> Doc \cup {NoDoc}] /\ nextID' \in Nat
    <3>1. CASE follow
      <4>1. /\ docdb' = [docdb EXCEPT ![v] = ref]
            /\ nextID' = IF docdb[v] = NoDoc THEN nextID + 1 ELSE nextID
        BY <1>3, <3>1 DEF GotHref
      <4> HIDE DEF ref, v
      <4> QED
        BY <4>1, <2>2, <2>3, <2>5 DEF DigTypeOK, FilesTypeOK
    <3>2. CASE ~follow
      BY <1>3, <3>2 DEF GotHref, DigTypeOK, FilesTypeOK
    <3> QED
      BY <3>1, <3>2
  <2>9. /\ visited' \in SUBSET URLs /\ known' \in SUBSET Servers
        /\ bad' \in SUBSET Servers /\ queue' \in [Servers -> Seq(URLRef)]
        /\ pushed' \in [Servers -> Nat] /\ turn' \in SUBSET Servers
        /\ place' \in [Servers -> Nat] /\ noSignal' \in BOOLEAN
        /\ refused' \in SUBSET URLs
    <3>1. CASE follow /\ v \notin visited
      <4>1. /\ Push(queue, v, ref.hop) /\ JoinRound(turn, ServerOf[cur.url], v)
            /\ noSignal' \in {noSignal, FALSE}
            /\ \E interrupted \in {FALSE, ~noSignal'} : Connect(ServerOf[v], interrupted)
        BY <1>3, <3>1 DEF GotHref
      <4>2. /\ queue \in [Servers -> Seq(URLRef)] /\ turn \in SUBSET Servers
            /\ noSignal' \in BOOLEAN /\ ServerOf[cur.url] \in Servers
        BY <1>1, <4>1, DigAssumption DEF DigTypeOK
      <4> HIDE DEF ref, v
      <4>3. turn' \in SUBSET Servers /\ place' \in [Servers -> Nat]
        BY <4>1, <4>2, <2>2, JoinRoundType
      <4> QED
        BY <4>1, <4>2, <4>3, <2>2, <2>5, ConnectType, PushType
    <3>2. CASE ~(follow /\ v \notin visited)
      BY <1>3, <3>2 DEF GotHref, DigTypeOK
    <3> QED
      BY <3>1, <3>2
  <2>10. UNCHANGED <<nextOnDisk, urlLog, phase, disk, todo, restart, more,
                     worldVars, countVars, last, fetched, cut>>
    BY <1>3 DEF GotHref
  <2>11. FilesTypeOK'
    BY <2>7, <2>8, <2>10 DEF DigTypeOK, FilesTypeOK
  <2> QED
    BY <2>6, <2>8, <2>9, <2>10, <2>11 DEF worldVars, countVars, DigTypeOK
<1>4. CASE Parsed
  <2>1. docdb' \in [URLs -> Doc \cup {NoDoc}]
    BY <1>1, <1>4 DEF Parsed, DigTypeOK, FilesTypeOK
  <2>2. words' \in SUBSET WordLine /\ marks' \in SUBSET Mark /\ listed' \in BOOLEAN
    <3>1. {[mark |-> "!", id |-> cur.ref.id]} \in SUBSET Mark
      BY <1>2 DEF Mark
    <3>2. {[id |-> cur.ref.id, url |-> cur.url,
            text |-> PageText(cur.url, cur.page.ver)]} \in SUBSET WordLine
      BY <1>1, <1>2 DEF WordLine, PageText, Token
    <3> QED
      BY <1>4, <3>1, <3>2, AppendType DEF Parsed
  <2>3. FilesTypeOK'
    BY <1>4, <2>1, <2>2 DEF Parsed, DigTypeOK, FilesTypeOK
  <2> QED
    BY <1>4, <2>3 DEF Parsed, worldVars, countVars, histVars, DigTypeOK
<1> QED
  BY <1>3, <1>4

(* Starting, ending, interrupting or killing a run, htdump between runs,   *)
(* and the changes of the web keep every type. *)
LEMMA RunType ==
    DigTypeOK /\ ((\E initial \in InitialFlags : Start(initial)) \/ Finish
                    \/ DumpLog \/ Crash) => DigTypeOK'
<1> SUFFICES ASSUME DigTypeOK,
                    (\E initial \in InitialFlags : Start(initial)) \/ Finish
                      \/ DumpLog \/ Crash
             PROVE  DigTypeOK'
  OBVIOUS
<1>1. ASSUME NEW initial \in InitialFlags, Start(initial)
      PROVE  DigTypeOK'
  <2>1. /\ docdb' \in [URLs -> Doc \cup {NoDoc}] /\ nextOnDisk' \in Nat
        /\ words' \in SUBSET WordLine /\ marks' \in SUBSET Mark
        /\ listed' \in BOOLEAN /\ disk' \in [URLs -> Doc \cup {NoDoc}]
        /\ nextID' \in Nat
    <3>1. CASE initial
      <4>1. /\ docdb' = [u \in URLs |-> NoDoc] /\ disk' = docdb'
            /\ nextOnDisk' = 0 /\ nextID' = 0 /\ words' = {} /\ marks' = {}
        BY <1>1, <3>1 DEF Start
      <4>2. listed' \in BOOLEAN
        BY <1>1, <3>1 DEF Start
      <4>3. docdb' \in [URLs -> Doc \cup {NoDoc}]
        BY <4>1
      <4> QED
        BY <4>1, <4>2, <4>3
    <3>2. CASE ~initial
      BY <1>1, <3>2 DEF Start, DigTypeOK, FilesTypeOK
    <3> QED
      BY <3>1, <3>2
  <2>2. fetched' \in SUBSET URLs /\ refused' \in SUBSET URLs
    BY <1>1 DEF Start, DigTypeOK
  <2>3. FilesTypeOK' /\ todo' \in SUBSET URLs
    BY <1>1, <2>1 DEF Start, DigTypeOK, FilesTypeOK
  <2>4. runs' \in Nat
    BY <1>1 DEF Start, DigTypeOK
  <2> QED
    BY <1>1, <2>1, <2>2, <2>3, <2>4 DEF Start, worldVars, DigTypeOK
<1>2. CASE Finish \/ DumpLog
  <2>1. CloseDb /\ UNCHANGED <<worldVars, countVars, histVars>>
    BY <1>2 DEF Finish, DumpLog
  <2>2. urlLog' \in SUBSET URLs
    BY <1>2 DEF Finish, DumpLog, Queued, DigTypeOK, FilesTypeOK
  <2>3. ClearMemory /\ phase' = "down"
    BY <2>1 DEF CloseDb
  <2>4. FilesTypeOK'
    BY <2>1, <2>2 DEF CloseDb, DigTypeOK, FilesTypeOK
  <2> QED
    BY <2>1, <2>3, <2>4, ClearedType
       DEF worldVars, countVars, histVars, DigTypeOK
<1>3. CASE Crash
  <2>1. docdb' \in [URLs -> Doc \cup {NoDoc}] /\ disk' = docdb'
    <3>1. LoseDb
      BY <1>3 DEF Crash
    <3> QED
      BY <3>1 DEF LoseDb, DigTypeOK, FilesTypeOK
  <2>2. FilesTypeOK'
    BY <1>3, <2>1 DEF Crash, DigTypeOK, FilesTypeOK
  <2>3. ClearMemory /\ crashes' \in Nat /\ phase' = "down"
    BY <1>3 DEF Crash, DigTypeOK
  <2> QED
    BY <1>3, <2>2, <2>3, ClearedType DEF Crash, worldVars, histVars, DigTypeOK
<1> QED
  BY <1>1, <1>2, <1>3

(* No step of htdig, and nothing that happens to it, breaks a type. *)
LEMMA TypeStep ==
    ASSUME DigTypeOK, [DigNext]_vars
    PROVE  DigTypeOK'
<1>1. CASE \E s \in Servers : SkipServer(s)
  <2>1. FilesTypeOK'
    BY <1>1 DEF SkipServer, fileVars, DigTypeOK, FilesTypeOK
  <2> QED
    BY <1>1, <2>1
       DEF SkipServer, worldVars, countVars, histVars, DigTypeOK
<1>2. CASE NewRound
  <2>1. FilesTypeOK'
    BY <1>2 DEF NewRound, fileVars, DigTypeOK, FilesTypeOK
  <2> QED
    BY <1>2, <2>1
       DEF NewRound, worldVars, countVars, histVars, DigTypeOK
<1>3. CASE Signal
  <2>1. FilesTypeOK'
    BY <1>3 DEF Signal, fileVars, DigTypeOK, FilesTypeOK
  <2> QED
    BY <1>3, <2>1
       DEF Signal, worldVars, countVars, histVars, DigTypeOK
<1>4. CASE World
  <2>1. FilesTypeOK'
    BY <1>4 DEF World, Publish, Outage, fileVars, DigTypeOK, FilesTypeOK
  <2>2. web' \in [URLs -> Page] /\ down' \in SUBSET Servers
    BY <1>4, DigAssumption DEF World, Publish, Outage, DigTypeOK
  <2> QED
    BY <1>4, <2>1, <2>2
       DEF World, Publish, Outage, memVars, countVars, histVars, DigTypeOK
<1>5. CASE Htdump
  <2>1. FilesTypeOK'
    BY <1>5 DEF Htdump, DigTypeOK, FilesTypeOK
  <2> QED
    BY <1>5, <2>1
       DEF Htdump, memVars, worldVars, countVars, histVars, DigTypeOK
<1>6. CASE UNCHANGED vars
  <2>1. FilesTypeOK'
    BY <1>6 DEF vars, fileVars, DigTypeOK, FilesTypeOK
  <2> QED
    BY <1>6, <2>1
       DEF vars, memVars, worldVars, countVars, histVars, DigTypeOK
<1> QED
  BY <1>1, <1>2, <1>3, <1>4, <1>5, <1>6, LoadType, RetrieveType, ParseType,
     RunType DEF DigNext, Work

(* Every variable has its type in every reachable state. *)
THEOREM TypeCorrect == DigSpec => []DigTypeOK
BY InitType, TypeStep, PTL DEF DigSpec

-----------------------------------------------------------------------------
(* Document IDs. *)

(* Storing a known document again under its ID keeps the IDs consistent,   *)
(* unless it takes back that the document was retrieved. *)
LEMMA PutKnown ==
    ASSUME NEW db \in [URLs -> Doc \cup {NoDoc}], NEW lines, NEW free,
           IDsAgree(db, lines, free), NEW u \in URLs, db[u] # NoDoc,
           NEW ref \in Doc, ref.id = db[u].id, db[u].got => ref.got
    PROVE  IDsAgree([db EXCEPT ![u] = ref], lines, free)
BY DEF IDsAgree

(* Storing a new document under the next free ID uses that ID up. *)
LEMMA PutNew ==
    ASSUME NEW db \in [URLs -> Doc \cup {NoDoc}],
           NEW lines \in SUBSET WordLine, NEW free \in Nat,
           IDsAgree(db, lines, free), NEW u \in URLs, db[u] = NoDoc,
           NEW ref \in Doc, ref.id = free
    PROVE  IDsAgree([db EXCEPT ![u] = ref], lines, free + 1)
<1>1. \A v \in URLs : db[v] # NoDoc => db[v].id \in Nat
  BY DEF Doc
<1>2. \A w \in lines : w.id \in Nat
  BY DEF WordLine
<1> QED
  BY <1>1, <1>2 DEF IDsAgree

(* Words of links may be added under an ID that was handed out, if all     *)
(* that is known under it is about the document they describe.             *)
LEMMA Describe ==
    ASSUME NEW db \in [URLs -> Doc \cup {NoDoc}],
           NEW lines \in SUBSET WordLine, NEW free \in Nat,
           IDsAgree(db, lines, free), NEW u \in URLs, NEW id \in Nat,
           NEW texts \in SUBSET LinkTexts, id < free,
           \A w \in lines : w.id = id => w.url = u,
           \A v \in URLs : db[v] # NoDoc /\ db[v].id = id => v = u
    PROVE  IDsAgree(db, lines \cup Described(u, id, texts), free)
<1> DEFINE new == Described(u, id, texts)
<1>1. \A w \in new : w.id = id /\ w.url = u /\ w.text.link
  BY DEF Described, LinkTexts
<1>2. OwnWords(lines \cup new) = OwnWords(lines)
  BY <1>1 DEF OwnWords
<1> HIDE DEF new
<1>3. \A w, x \in lines \cup new : w.id = x.id => w.url = x.url
  BY <1>1 DEF IDsAgree
<1>4. \A w \in lines \cup new : w.id < free
  BY <1>1 DEF IDsAgree
<1>5. \A v \in URLs, w \in lines \cup new :
         db[v] # NoDoc /\ w.id = db[v].id =>
            w.url = v /\ (w.text.link \/ db[v].got)
  BY <1>1 DEF IDsAgree
<1>6. IDsAgree(db, lines \cup new, free)
  BY <1>2, <1>3, <1>4, <1>5 DEF IDsAgree
<1> QED
  BY <1>6 DEF new

(* ... such as the ID of a stored document. *)
LEMMA DescribeStored ==
    ASSUME NEW db \in [URLs -> Doc \cup {NoDoc}],
           NEW lines \in SUBSET WordLine, NEW free \in Nat,
           IDsAgree(db, lines, free), NEW u \in URLs, db[u] # NoDoc,
           NEW texts \in SUBSET LinkTexts
    PROVE  IDsAgree(db, lines \cup Described(u, db[u].id, texts), free)
<1>1. db[u].id \in Nat /\ db[u].id < free
  BY DEF IDsAgree, Doc
<1>2. /\ \A w \in lines : w.id = db[u].id => w.url = u
      /\ \A v \in URLs : db[v] # NoDoc /\ db[v].id = db[u].id => v = u
  BY DEF IDsAgree
<1> QED
  BY <1>1, <1>2, Describe

(* IDs may be left unused. *)
LEMMA SkipID ==
    ASSUME NEW db \in [URLs -> Doc \cup {NoDoc}],
           NEW lines \in SUBSET WordLine, NEW free \in Nat,
           IDsAgree(db, lines, free)
    PROVE  IDsAgree(db, lines, free + 1)
<1>1. \A v \in URLs : db[v] # NoDoc => db[v].id \in Nat
  BY DEF Doc
<1>2. \A w \in lines : w.id \in Nat
  BY DEF WordLine
<1> QED
  BY <1>1, <1>2 DEF IDsAgree

(* A step that leaves the database, the word list and the page being       *)
(* parsed alone, and hands the next ID over between file and memory.       *)
LEMMA IDFrame ==
    ASSUME IDInv, docdb' = docdb, words' = words, NextFree' = NextFree,
           phase' = "parse" => phase = "parse" /\ cur' = cur /\ nextID' = nextID
    PROVE  IDInv'
BY DEF IDInv, Stored

(* parse_url's record of the URL it takes: what the database holds after   *)
(* storing it is consistent again. *)
LEMMA PutRegistered ==
    ASSUME DigTypeOK, IDsAgree(docdb, words, nextID), NEW r \in URLRef,
           NEW ref \in Doc, ref.id = Registered(r).id, ref.got
    PROVE  IDsAgree([docdb EXCEPT ![r.url] = ref], words, AfterRegister(r))
<1>1. /\ r.url \in URLs /\ docdb \in [URLs -> Doc \cup {NoDoc}]
      /\ words \in SUBSET WordLine /\ nextID \in Nat
  BY DEF URLRef, DigTypeOK, FilesTypeOK
<1>2. CASE docdb[r.url] = NoDoc
  <2>1. ref.id = nextID /\ AfterRegister(r) = nextID + 1
    BY <1>2 DEF Registered, Fresh, AfterRegister
  <2>2. IDsAgree([docdb EXCEPT ![r.url] = ref], words, nextID + 1)
    BY <1>1, <1>2, <2>1, PutNew
  <2> QED
    BY <2>1, <2>2
<1>3. CASE docdb[r.url] # NoDoc
  <2>1. docdb[r.url] \in Doc
    BY <1>1, <1>3
  <2>2. ref.id = docdb[r.url].id /\ AfterRegister(r) = nextID
    BY <1>3, <2>1 DEF Registered, Doc, AfterRegister
  <2> QED
    BY <1>1, <1>3, <2>2, PutKnown
<1> QED
  BY <1>2, <1>3

(* Without documents and words no two IDs can clash. *)
LEMMA InitIDs == DigInit => IDInv
BY DEF DigInit, FilesInit, IDInv, IDsAgree, OwnWords, NextFree

(* Storing the outcome of a retrieval keeps the IDs consistent: a changed  *)
(* page leaves the ID of its old words, every new record takes the next.   *)
LEMMA RetrieveIDs ==
    ASSUME DigTypeOK, IDInv, NEW s \in Servers, Retrieve(s)
    PROVE  IDInv'
<1> DEFINE r == Head(queue[s])
           reg == Registered(r)
<1>0. PICK p \in Heard(s) :
        \/ RetrieveGone(s, p) \/ RetrieveUnchanged(s, p) \/ RetrieveUnauthorized(s, p)
        \/ RetrieveRedirect(s, p) \/ RetrievePage(s, p)
  BY DEF Retrieve
<1>1. Take(s, p) /\ phase = "dig"
  BY <1>0 DEF RetrieveGone, RetrieveUnchanged, RetrieveUnauthorized, RetrieveRedirect,
              RetrievePage, Take, IsNext
<1>2. r \in URLRef /\ r.url \in URLs
  BY <1>1, TakenType DEF Take
<1>3. reg \in Doc /\ reg.got = TRUE /\ AfterRegister(r) \in Nat
  BY <1>2, RegisteredType
<1>4. /\ docdb \in [URLs -> Doc \cup {NoDoc}] /\ nextID \in Nat
      /\ words \in SUBSET WordLine
  BY DEF DigTypeOK, FilesTypeOK
<1>5. IDsAgree(docdb, words, nextID)
  BY <1>1 DEF IDInv, NextFree
<1>6. ASSUME NEW ref \in Doc, ref.id = reg.id, ref.got,
             docdb' = [docdb EXCEPT ![r.url] = ref], words' = words,
             nextID' = AfterRegister(r), phase' = "dig"
      PROVE  IDInv'
  <2>1. IDsAgree([docdb EXCEPT ![r.url] = ref], words, AfterRegister(r))
    BY <1>2, <1>5, <1>6, PutRegistered
  <2> QED
    BY <1>6, <2>1 DEF IDInv, NextFree
<1>7. CASE RetrieveGone(s, p)
  <2> DEFINE st == IF Status(r.url, p) = "not_html" THEN "normal" ELSE "not_found"
             ref == [reg EXCEPT !.state = st]
  <2>1. ref \in Doc /\ ref.id = reg.id /\ ref.got
    BY <1>3 DEF Doc, States
  <2>2. docdb' = [docdb EXCEPT ![r.url] = ref] /\ nextID' = AfterRegister(r)
    BY <1>7 DEF RetrieveGone
  <2>3. words' = words /\ phase' = "dig"
    BY <1>1, <1>7 DEF RetrieveGone, AppendMarks
  <2> HIDE DEF ref, reg
  <2> QED
    BY <1>6, <2>1, <2>2, <2>3
<1>8. CASE RetrieveUnchanged(s, p)
  <2>1. docdb[r.url] # NoDoc
    <3>1. p.status # "not_changed"
      BY HeardType DEF Statuses
    <3>2. Status(r.url, p) = "not_changed"
      BY <1>8 DEF RetrieveUnchanged
    <3> QED
      BY <3>1, <3>2 DEF Status, Old
  <2>2. docdb' = [docdb EXCEPT ![r.url] = reg] /\ nextID' = AfterRegister(r)
    BY <1>8, <2>1 DEF RetrieveUnchanged, AfterRegister
  <2>3. words' = words /\ phase' = "dig"
    BY <1>1, <1>8 DEF RetrieveUnchanged, AppendMarks
  <2> HIDE DEF reg
  <2> QED
    BY <1>3, <1>6, <2>2, <2>3
<1>9. CASE RetrieveUnauthorized(s, p)
  <2>1. docdb' = [docdb EXCEPT ![r.url] = reg] /\ nextID' = AfterRegister(r)
    BY <1>9 DEF RetrieveUnauthorized
  <2>2. words' = words /\ phase' = "dig"
    BY <1>1, <1>9 DEF RetrieveUnauthorized, KeepList
  <2> HIDE DEF reg
  <2> QED
    BY <1>3, <1>6, <2>1, <2>2
<1>10. CASE RetrieveRedirect(s, p)
  <2> DEFINE v == p.links[1]
             id == AfterRegister(r)
             texts == reg.descriptions
             target == Linked(v, reg.hop, id, texts)
             db == [docdb EXCEPT ![r.url] = reg]
  <2>1. phase' = "dig"
    BY <1>1, <1>10 DEF RetrieveRedirect
  <2>2. IDsAgree(db, words, id) /\ db \in [URLs -> Doc \cup {NoDoc}]
    <3> HIDE DEF reg
    <3> QED
      BY <1>2, <1>3, <1>4, <1>5, PutRegistered DEF reg
  <2>3. reg.hop \in Nat /\ texts \in SUBSET LinkTexts
    BY <1>2, RegisteredType
  <2>4. CASE v \notin Limits
    <3>1. words' = words /\ docdb' = db /\ nextID' = id
      BY <1>10, <2>4 DEF RetrieveRedirect, AppendMarks
    <3> QED
      BY <2>1, <2>2, <3>1 DEF IDInv, NextFree
  <2>5. ASSUME v \in Limits
        PROVE  /\ v \in URLs
               /\ docdb' = [docdb EXCEPT ![v] = target, ![r.url] = reg]
               /\ nextID' = IF docdb[v] = NoDoc THEN id + 1 ELSE id
               /\ words' = words \cup Described(v, target.id, texts)
    BY <1>10, <2>5, DigAssumption DEF RetrieveRedirect, AppendLines
  <2>6. ASSUME v \in Limits
        PROVE  /\ target \in Doc /\ target.id \in Nat
               /\ docdb[v] = NoDoc => target.id = id
               /\ docdb[v] # NoDoc =>
                     target.id = docdb[v].id /\ target.got = docdb[v].got
    <3>1. v \in URLs
      BY <2>5, <2>6
    <3> HIDE DEF v, reg, id, texts
    <3> QED
      BY <3>1, <2>3, <1>3, LinkedType DEF id
  <2>7. CASE v \in Limits /\ v = r.url
    <3>1. docdb' = db
      BY <1>2, <1>4, <2>5, <2>7
    <3>2. CASE docdb[v] = NoDoc
      <4>1. texts = {}
        BY <2>7, <3>2 DEF Registered, Fresh
      <4>2. words' = words /\ nextID' = id + 1
        BY <4>1, <3>2, <2>5, <2>7 DEF Described
      <4>3. IDsAgree(db, words, id + 1)
        <5> HIDE DEF db, id
        <5> QED
          BY <1>3, <1>4, <2>2, SkipID DEF id
      <4> QED
        BY <4>2, <4>3, <3>1, <2>1 DEF IDInv, NextFree
    <3>3. CASE docdb[v] # NoDoc
      <4>1. docdb[v] \in Doc /\ reg.id = docdb[v].id
        BY <1>2, <1>4, <2>7, <3>3 DEF Registered, Doc
      <4>2. db[v] = reg /\ db[v] # NoDoc
        BY <1>2, <1>3, <1>4, <2>7, DigAssumption
      <4>3. target.id = db[v].id
        BY <4>1, <4>2, <3>3, <2>6, <2>7
      <4>4. words' = words \cup Described(v, db[v].id, texts) /\ nextID' = id
        BY <4>3, <3>3, <2>5, <2>7
      <4>5. v \in URLs
        BY <1>2, <2>7
      <4>6. IDsAgree(db, words \cup Described(v, db[v].id, texts), id)
        <5> HIDE DEF db, id, v, texts
        <5> QED
          BY <4>2, <4>5, <2>2, <2>3, <1>3, <1>4, DescribeStored DEF id
      <4> QED
        BY <4>4, <4>6, <3>1, <2>1 DEF IDInv, NextFree
    <3> QED
      BY <3>2, <3>3
  <2>8. CASE v \in Limits /\ v # r.url
    <3> DEFINE stored == [db EXCEPT ![v] = target]
    <3>1. v \in URLs /\ db[v] = docdb[v]
      BY <2>5, <2>8, <1>4
    <3>2. docdb' = stored
      <4> HIDE DEF target, reg, v, r
      <4> QED
        BY <2>5, <2>8, <3>1, <1>2, <1>4
    <3>3. /\ stored \in [URLs -> Doc \cup {NoDoc}] /\ stored[v] = target
          /\ stored[v] # NoDoc
      <4>1. target \in Doc
        BY <2>6, <2>8
      <4> HIDE DEF target, db, v
      <4> QED
        BY <4>1, <2>2, <3>1, DigAssumption
    <3>4. nextID' \in Nat /\ IDsAgree(stored, words, nextID')
      <4>1. CASE docdb[v] = NoDoc
        <5>1. target \in Doc /\ target.id = id /\ nextID' = id + 1
          BY <4>1, <2>5, <2>6, <2>8
        <5>2. id \in Nat
          BY <1>3
        <5>3. IDsAgree(stored, words, id + 1)
          <6> HIDE DEF target, db, id, v
          <6> QED
            BY <5>1, <5>2, <4>1, <3>1, <2>2, <1>4, PutNew
        <5> HIDE DEF stored, id
        <5> QED
          BY <5>1, <5>2, <5>3
      <4>2. CASE docdb[v] # NoDoc
        <5>1. /\ target \in Doc /\ target.id = docdb[v].id
              /\ target.got = docdb[v].got /\ nextID' = id
          BY <4>2, <2>5, <2>6, <2>8
        <5>2. id \in Nat
          BY <1>3
        <5> HIDE DEF target, db, id, v
        <5> QED
          BY <5>1, <5>2, <4>2, <3>1, <2>2, PutKnown
      <4> QED
        BY <4>1, <4>2
    <3>5. words' = words \cup Described(v, stored[v].id, texts)
      BY <2>5, <2>8, <3>3
    <3>6. IDsAgree(stored, words', nextID')
      <4> HIDE DEF stored, v, texts
      <4> QED
        BY <3>1, <3>3, <3>4, <3>5, <2>3, <1>4, DescribeStored
    <3> QED
      BY <2>1, <3>2, <3>6 DEF IDInv, NextFree
  <2> QED
    BY <2>4, <2>7, <2>8
<1>11. CASE RetrievePage(s, p)
  <2> DEFINE id == IF Old(r.url) THEN nextID ELSE reg.id
             ref == [reg EXCEPT !.id = id, !.time = p.ver, !.head = p.head,
                       !.state = IF p.noindex THEN "noindex" ELSE "normal",
                       !.descriptions = IF Old(r.url) THEN {} ELSE @]
  <2>1. /\ docdb' = docdb /\ words' = words /\ phase' = "parse"
        /\ cur' = [url |-> r.url, ref |-> ref, left |-> p.links, page |-> p]
    BY <1>11 DEF RetrievePage, AppendMarks, KeepList
  <2>2. cur'.url = r.url /\ cur'.ref.id = id /\ cur'.ref.got
    BY <2>1, <1>3 DEF Doc
  <2>3. \A u \in URLs : docdb[u] # NoDoc => docdb[u] \in Doc /\ docdb[u].id \in Nat
    BY <1>4 DEF Doc
  <2>4. \A w \in words : w.id \in Nat
    BY <1>4 DEF WordLine
  <2>5. /\ id < nextID' /\ nextID' \in {nextID, nextID + 1}
        /\ \A w \in words : w.id = id => w.url = r.url /\ w.text.link
        /\ \A u \in URLs \ {r.url} : docdb[u] # NoDoc => docdb[u].id # id
    <3>1. CASE Old(r.url)
      <4>1. id = nextID /\ nextID' = nextID + 1
        BY <1>11, <3>1 DEF RetrievePage
      <4> QED
        BY <4>1, <1>4, <1>5, <2>3, <2>4 DEF IDsAgree
    <3>2. CASE ~Old(r.url) /\ docdb[r.url] = NoDoc
      <4>1. id = nextID /\ nextID' = nextID + 1
        BY <1>11, <3>2 DEF RetrievePage, Registered, Fresh, AfterRegister
      <4> QED
        BY <4>1, <1>4, <1>5, <2>3, <2>4 DEF IDsAgree
    <3>3. CASE ~Old(r.url) /\ docdb[r.url] # NoDoc
      <4>1. nextID' = nextID
        BY <1>11, <3>3 DEF RetrievePage, AfterRegister
      <4>2. id = docdb[r.url].id /\ ~docdb[r.url].got
        BY <3>3, <1>2, <2>3 DEF Old, Registered, Doc
      <4> HIDE DEF id, r
      <4> QED
        BY <3>3, <4>1, <4>2, <1>2, <1>5 DEF IDsAgree
    <3> QED
      BY <3>1, <3>2, <3>3
  <2>6. IDsAgree(docdb, words, nextID')
    BY <1>4, <1>5, <2>5, SkipID
  <2> HIDE DEF id, ref, r
  <2> QED
    BY <2>1, <2>2, <2>5, <2>6 DEF IDInv, NextFree, Stored
<1> QED
  BY <1>0, <1>7, <1>8, <1>9, <1>10, <1>11

(* Registering the target of a link uses the next ID, or an existing one.  *)
LEMMA GotHrefIDs == DigTypeOK /\ IDInv /\ GotHref => IDInv'
<1> SUFFICES ASSUME DigTypeOK, IDInv, GotHref PROVE IDInv'
  OBVIOUS
<1> DEFINE v == Head(cur.left)
           h == cur.ref.hop + 1
           texts == {LinkText(cur.url, cur.page.ver)}
           self == v \in Limits /\ v = cur.url
           ref == Linked(v, h, nextID, texts)
<1>1. /\ phase = "parse" /\ phase' = "parse"
      /\ cur \in Cur /\ cur.left # <<>>
  BY DEF GotHref, DigTypeOK
<1>2. /\ cur.ref \in Doc /\ cur.ref.id \in Nat /\ cur.left \in Seq(URLs)
      /\ cur.url \in URLs /\ h \in Nat /\ texts \in SUBSET LinkTexts
  BY <1>1, LinkTextType DEF Cur, Doc, Answer
<1>3. v \in URLs
  BY <1>1, <1>2
<1>4. /\ docdb \in [URLs -> Doc \cup {NoDoc}] /\ nextID \in Nat
      /\ words \in SUBSET WordLine
  BY DEF DigTypeOK, FilesTypeOK
<1>5. cur'.ref.id = cur.ref.id /\ cur'.ref.got = cur.ref.got /\ cur'.url = cur.url
  <2>1. cur' = [cur EXCEPT !.left = Tail(cur.left),
                   !.ref.descriptions = IF self THEN @ \cup texts ELSE @]
    BY DEF GotHref
  <2> QED
    BY <2>1, <1>1, <1>2 DEF Cur, Doc
<1>6. /\ IDsAgree(docdb, words, nextID)
      /\ cur.ref.id < nextID /\ cur.ref.got
      /\ \A w \in words : w.id = cur.ref.id => w.url = cur.url /\ w.text.link
      /\ \A u \in URLs \ {cur.url} : docdb[u] # NoDoc => docdb[u].id # cur.ref.id
  BY <1>1 DEF IDInv, NextFree, Stored
<1>7. ASSUME IDsAgree(docdb', words', nextID'), nextID' \in {nextID, nextID + 1},
             \A w \in words' : w.id = cur.ref.id => w.url = cur.url /\ w.text.link,
             \A u \in URLs \ {cur.url} :
                docdb'[u] # NoDoc => docdb'[u].id # cur.ref.id
      PROVE  IDInv'
  BY <1>1, <1>2, <1>4, <1>5, <1>6, <1>7 DEF IDInv, NextFree, Stored
<1>8. \A id \in Nat : \A w \in Described(v, id, texts) :
         w.id = id /\ w.url = v /\ w.text.link
  BY DEF Described, LinkText
<1>9. /\ ref \in Doc /\ ref.id \in Nat
      /\ docdb[v] = NoDoc => ref.id = nextID
      /\ docdb[v] # NoDoc => ref.id = docdb[v].id /\ ref.got = docdb[v].got
  <2> HIDE DEF v, h, texts
  <2>1. ref \in Doc /\ ref.id \in Nat
    BY <1>2, <1>3, <1>4, LinkedType
  <2>2. docdb[v] = NoDoc => ref.id = nextID
    BY <1>2, <1>3, <1>4, LinkedType
  <2>3. docdb[v] # NoDoc => ref.id = docdb[v].id
    BY <1>2, <1>3, <1>4, LinkedType
  <2>4. docdb[v] # NoDoc => ref.got = docdb[v].got
    BY <1>2, <1>3, <1>4, LinkedType
  <2> QED
    BY <2>1, <2>2, <2>3, <2>4
<1>10. CASE self
  <2>1. docdb' = docdb /\ nextID' = nextID
          /\ words' = words \cup Described(v, cur.ref.id, texts)
    BY <1>10 DEF GotHref, Follows, AppendWords
  <2>2. v = cur.url
    BY <1>10
  <2> HIDE DEF v, texts
  <2>3. IDsAgree(docdb, words \cup Described(v, cur.ref.id, texts), nextID)
    BY <2>2, <1>2, <1>3, <1>4, <1>6, Describe
  <2> QED
    BY <2>1, <2>2, <2>3, <1>2, <1>6, <1>7, <1>8
<1>11. CASE ~self /\ ~Follows(v, h)
  <2>1. docdb' = docdb /\ nextID' = nextID
    BY <1>11 DEF GotHref
  <2>2. CASE ~(v \in Limits /\ docdb[v] # NoDoc)
    <3>1. words' = words
      BY <1>11, <2>2 DEF GotHref, KeepList
    <3> QED
      BY <2>1, <3>1, <1>6, <1>7
  <2>3. CASE v \in Limits /\ docdb[v] # NoDoc
    <3>1. words' = words \cup Described(v, docdb[v].id, texts)
      BY <1>9, <1>11, <2>3 DEF GotHref, AppendWords
    <3>2. v # cur.url /\ docdb[v].id \in Nat
      BY <1>9, <1>11, <2>3
    <3> HIDE DEF v, texts
    <3>3. IDsAgree(docdb, words \cup Described(v, docdb[v].id, texts), nextID)
      BY <2>3, <1>2, <1>3, <1>4, <1>6, DescribeStored
    <3> QED
      BY <2>1, <2>3, <3>1, <3>2, <3>3, <1>3, <1>6, <1>7, <1>8
  <2> QED
    BY <2>2, <2>3
<1>12. CASE Follows(v, h)
  <2> DEFINE stored == [docdb EXCEPT ![v] = ref]
  <2>1. /\ docdb' = stored
        /\ nextID' = IF docdb[v] = NoDoc THEN nextID + 1 ELSE nextID
        /\ words' = words \cup Described(v, ref.id, texts)
    BY <1>12 DEF GotHref, Follows, AppendWords
  <2>2. v # cur.url
    BY <1>12 DEF Follows
  <2> HIDE DEF v, texts, ref
  <2>3. /\ stored \in [URLs -> Doc \cup {NoDoc}] /\ stored[v] = ref
        /\ stored[v] # NoDoc
    BY <1>3, <1>4, <1>9, DigAssumption
  <2>4. nextID' \in {nextID, nextID + 1} /\ IDsAgree(stored, words, nextID')
    <3>1. CASE docdb[v] = NoDoc
      BY <3>1, <2>1, <1>3, <1>4, <1>6, <1>9, PutNew
    <3>2. CASE docdb[v] # NoDoc
      BY <3>2, <2>1, <1>3, <1>6, <1>4, <1>9, PutKnown
    <3> QED
      BY <3>1, <3>2
  <2>5. ref.id # cur.ref.id
    BY <2>2, <1>2, <1>3, <1>4, <1>6, <1>9
  <2>6. \A u \in URLs \ {cur.url} : stored[u] # NoDoc => stored[u].id # cur.ref.id
    BY <2>3, <2>5, <1>3, <1>4, <1>6
  <2>7. IDsAgree(stored, words \cup Described(v, stored[v].id, texts), nextID')
    <3>1. nextID' \in Nat
      BY <2>4, <1>4
    <3> HIDE DEF stored
    <3> QED
      BY <3>1, <2>3, <2>4, <1>2, <1>3, <1>4, DescribeStored
  <2>8. \A w \in words' : w.id = cur.ref.id => w.url = cur.url /\ w.text.link
    BY <2>1, <2>5, <1>6, <1>8, <1>9
  <2> HIDE DEF stored
  <2> QED
    BY <2>1, <2>3, <2>4, <2>6, <2>7, <2>8, <1>7
<1> QED
  BY <1>10, <1>11, <1>12

(* The words of a page are filed under an ID that only had words of links. *)
LEMMA ParsedIDs == DigTypeOK /\ IDInv /\ Parsed => IDInv'
<1> SUFFICES ASSUME DigTypeOK, IDInv, Parsed PROVE IDInv'
  OBVIOUS
<1> DEFINE line == [id |-> cur.ref.id, url |-> cur.url,
                    text |-> PageText(cur.url, cur.page.ver)]
<1>1. /\ phase = "parse" /\ phase' = "dig" /\ nextID' = nextID
      /\ cur \in Cur /\ docdb' = [docdb EXCEPT ![cur.url] = cur.ref]
  BY DEF Parsed, DigTypeOK
<1>2. cur.url \in URLs /\ cur.ref \in Doc /\ cur.ref.id \in Nat
  BY <1>1 DEF Cur, Doc
<1>3. words' \in {words, words \cup {line}}
  BY DEF Parsed, AppendMarks, AppendWords
<1>4. line.id = cur.ref.id /\ line.url = cur.url
  OBVIOUS
<1>5. docdb \in [URLs -> Doc \cup {NoDoc}]
  BY DEF DigTypeOK, FilesTypeOK
<1>6. /\ IDsAgree(docdb, words, nextID)
      /\ cur.ref.id < nextID /\ cur.ref.got
      /\ \A w \in words : w.id = cur.ref.id => w.url = cur.url /\ w.text.link
      /\ \A u \in URLs \ {cur.url} : docdb[u] # NoDoc => docdb[u].id # cur.ref.id
  BY <1>1 DEF IDInv, NextFree, Stored
<1>7. /\ docdb'[cur.url] = cur.ref
      /\ \A u \in URLs \ {cur.url} : docdb'[u] = docdb[u]
  BY <1>1, <1>2, <1>5
<1> HIDE DEF line
<1>8. IDsAgree(docdb', words', nextID)
  BY <1>2, <1>3, <1>4, <1>6, <1>7 DEF IDsAgree, OwnWords
<1> QED
  BY <1>1, <1>8 DEF IDInv, NextFree

(* The steps that change neither the database nor the words, and the start *)
(* of a new dig with -i, which empties both. *)
LEMMA OtherIDs ==
    ASSUME DigTypeOK, IDInv, MaxCrashes = 0,
           \/ \E initial \in InitialFlags : Start(initial)
           \/ Load \/ (\E s \in Servers : SkipServer(s)) \/ NewRound
           \/ Finish \/ DumpLog \/ Signal \/ Crash \/ Htdump \/ World
           \/ UNCHANGED vars
    PROVE  IDInv'
<1>1. CASE \E initial \in InitialFlags : Start(initial)
  <2>1. PICK initial \in InitialFlags : Start(initial)
    BY <1>1
  <2>2. phase = "down" /\ phase' = "log"
    BY <2>1 DEF Start
  <2>3. CASE initial
    BY <2>1, <2>2, <2>3 DEF Start, IDInv, IDsAgree, OwnWords
  <2>4. CASE ~initial
    BY <2>1, <2>2, <2>4, IDFrame DEF Start, NextFree
  <2> QED
    BY <2>3, <2>4
<1>2. CASE Load
  BY <1>2, IDFrame DEF Load, InitialLog, InitialDb, InitialStart, Initial,
     LogRead, DbRead, Loaded, fileVars, NextFree
<1>3. CASE \E s \in Servers : SkipServer(s)
  BY <1>3, IDFrame DEF SkipServer, fileVars, NextFree
<1>4. CASE NewRound
  BY <1>4, IDFrame DEF NewRound, fileVars, NextFree
<1>5. CASE Finish \/ DumpLog
  <2>1. phase = "dig" /\ phase' = "down" /\ nextOnDisk' = nextID
          /\ docdb' = docdb /\ words' = words
    BY <1>5 DEF Finish, DumpLog, CloseDb
  <2> QED
    BY <2>1, IDFrame DEF NextFree
<1>6. CASE Signal
  BY <1>6, IDFrame DEF Signal, fileVars, NextFree
<1>7. ~Crash
  BY DEF Crash, DigTypeOK
<1>8. CASE World
  BY <1>8, IDFrame DEF World, Publish, Outage, fileVars, memVars, NextFree
<1>9. CASE Htdump
  BY <1>9, IDFrame DEF Htdump, memVars, NextFree
<1>10. CASE UNCHANGED vars
  BY <1>10, IDFrame DEF vars, fileVars, memVars, NextFree
<1> QED
  BY <1>1, <1>2, <1>3, <1>4, <1>5, <1>6, <1>7, <1>8, <1>9, <1>10

(* The named properties are consequences of the invariant. *)
LEMMA IDInvImplies == IDInv => UniqueIDs /\ OneContentPerID
BY DEF IDInv, IDsAgree, UniqueIDs, DistinctIDs, OneContentPerID, Stored

(* Unless htdig is killed, no step of it breaks the invariant. *)
LEMMA IDStep ==
    ASSUME DigTypeOK, IDInv, MaxCrashes = 0, [DigNext]_vars
    PROVE  IDInv'
<1>1. CASE \E s \in Servers : Retrieve(s)
  BY <1>1, RetrieveIDs
<1>2. CASE GotHref \/ Parsed
  BY <1>2, GotHrefIDs, ParsedIDs
<1> QED
  BY <1>1, <1>2, OtherIDs DEF DigNext, Work

(* As long as no run is killed, a document ID belongs to one document, is  *)
(* never handed out twice, and stands for one version of one page in the   *)
(* word list: htmerge and htsearch may know a document by its ID alone. *)
THEOREM IDsUnique ==
    ASSUME MaxCrashes = 0
    PROVE  DigSpec => [](UniqueIDs /\ OneContentPerID)
BY IDStep, InitIDs, TypeCorrect, IDInvImplies, PTL DEF DigSpec

-----------------------------------------------------------------------------
(* Descriptions. *)

(* Filed words stay filed, whatever record of theirs is stored. *)
LEMMA PutFiled ==
    ASSUME NEW db \in [URLs -> Doc \cup {NoDoc}], NEW lines, NEW grown,
           AllFiled(db, lines), lines \subseteq grown, NEW u \in URLs, NEW ref,
           Filed(ref, u, grown)
    PROVE  AllFiled([db EXCEPT ![u] = ref], grown)
BY DEF AllFiled, Filed

(* Appending lines leaves the documents filed. *)
LEMMA MoreFiled ==
    ASSUME NEW db, NEW lines, NEW grown, AllFiled(db, lines),
           lines \subseteq grown
    PROVE  AllFiled(db, grown)
BY DEF AllFiled, Filed

(* A record that parse_url begins with knows of filed texts only.          *)
LEMMA RegisteredFiled ==
    ASSUME DigTypeOK, FiledInv, NEW r \in URLRef
    PROVE  Filed(Registered(r), r.url, words)
<1>1. r.url \in URLs /\ docdb[r.url] \in Doc \cup {NoDoc}
  BY DEF URLRef, DigTypeOK, FilesTypeOK
<1>2. CASE docdb[r.url] = NoDoc
  BY <1>2 DEF Registered, Fresh, Filed
<1>3. CASE docdb[r.url] # NoDoc
  BY <1>1, <1>3 DEF Registered, Doc, FiledInv, AllFiled, Filed
<1> QED
  BY <1>2, <1>3

(* The record of a link's target knows what it knew and the text that      *)
(* AddDescription files. *)
LEMMA LinkedFiled ==
    ASSUME DigTypeOK, FiledInv, NEW v \in URLs, NEW h \in Nat, NEW id \in Nat,
           NEW texts \in SUBSET LinkTexts
    PROVE  LET ref == Linked(v, h, id, texts)
           IN  Filed(ref, v, words \cup Described(v, ref.id, texts))
<1> DEFINE ref == Linked(v, h, id, texts)
<1>1. /\ docdb[v] = NoDoc => ref.descriptions = texts
      /\ docdb[v] # NoDoc => ref.id = docdb[v].id
            /\ ref.descriptions = docdb[v].descriptions \cup texts
  BY LinkedType
<1>2. docdb[v] # NoDoc => Filed(docdb[v], v, words)
  BY DEF FiledInv, AllFiled
<1> HIDE DEF ref
<1>3. Filed(ref, v, words \cup Described(v, ref.id, texts))
  BY <1>1, <1>2 DEF Filed, Described
<1> QED
  BY <1>3 DEF ref

(* What the steps of a retrieval store is filed. *)
LEMMA RetrieveFiled ==
    ASSUME DigTypeOK, FiledInv, NEW s \in Servers, Retrieve(s)
    PROVE  FiledInv'
<1> DEFINE r == Head(queue[s])
           reg == Registered(r)
<1>0. PICK p \in Heard(s) :
        \/ RetrieveGone(s, p) \/ RetrieveUnchanged(s, p) \/ RetrieveUnauthorized(s, p)
        \/ RetrieveRedirect(s, p) \/ RetrievePage(s, p)
  BY DEF Retrieve
<1>1. Take(s, p) /\ phase = "dig"
  BY <1>0 DEF RetrieveGone, RetrieveUnchanged, RetrieveUnauthorized, RetrieveRedirect,
              RetrievePage, Take, IsNext
<1>2. r \in URLRef /\ r.url \in URLs
  BY <1>1, TakenType DEF Take
<1>3. /\ reg \in Doc /\ reg.hop \in Nat /\ reg.descriptions \in SUBSET LinkTexts
      /\ AfterRegister(r) \in Nat
  BY <1>2, RegisteredType
<1>4. docdb \in [URLs -> Doc \cup {NoDoc}] /\ disk' = disk
  BY <1>1 DEF DigTypeOK, FilesTypeOK, Take
<1>5. Filed(reg, r.url, words) /\ AllFiled(docdb, words) /\ AllFiled(disk, words)
  BY <1>2, RegisteredFiled DEF FiledInv
<1>6. ASSUME NEW ref, ref.id = reg.id, ref.descriptions = reg.descriptions,
             docdb' = [docdb EXCEPT ![r.url] = ref], words' = words, phase' = "dig"
      PROVE  FiledInv'
  <2>1. Filed(ref, r.url, words)
    BY <1>5, <1>6 DEF Filed
  <2> HIDE DEF r, reg
  <2> QED
    BY <1>2, <1>4, <1>5, <1>6, <2>1, PutFiled DEF FiledInv
<1>7. CASE RetrieveGone(s, p)
  <2> DEFINE st == IF Status(r.url, p) = "not_html" THEN "normal" ELSE "not_found"
             ref == [reg EXCEPT !.state = st]
  <2>1. ref.id = reg.id /\ ref.descriptions = reg.descriptions
    BY <1>3 DEF Doc
  <2>2. docdb' = [docdb EXCEPT ![r.url] = ref] /\ words' = words /\ phase' = "dig"
    BY <1>1, <1>7 DEF RetrieveGone, AppendMarks
  <2> HIDE DEF ref, reg
  <2> QED
    BY <1>6, <2>1, <2>2
<1>8. CASE RetrieveUnchanged(s, p) \/ RetrieveUnauthorized(s, p)
  <2>1. docdb' = [docdb EXCEPT ![r.url] = reg] /\ words' = words /\ phase' = "dig"
    BY <1>1, <1>8
       DEF RetrieveUnchanged, RetrieveUnauthorized, AppendMarks, KeepList
  <2> HIDE DEF reg
  <2> QED
    BY <1>6, <2>1
<1>9. CASE RetrieveRedirect(s, p)
  <2> DEFINE v == p.links[1]
             texts == reg.descriptions
             target == Linked(v, reg.hop, AfterRegister(r), texts)
             grown == words \cup Described(v, target.id, texts)
  <2>1. CASE v \notin Limits
    <3>1. docdb' = [docdb EXCEPT ![r.url] = reg] /\ words' = words /\ phase' = "dig"
      BY <1>1, <1>9, <2>1 DEF RetrieveRedirect, AppendMarks
    <3> HIDE DEF reg
    <3> QED
      BY <1>6, <3>1
  <2>2. CASE v \in Limits
    <3>1. /\ docdb' = [docdb EXCEPT ![v] = target, ![r.url] = reg]
          /\ words' = grown /\ phase' = "dig" /\ v \in URLs
      BY <1>1, <1>9, <2>2, DigAssumption DEF RetrieveRedirect, AppendLines
    <3>2. target \in Doc
      <4> HIDE DEF v, reg, texts
      <4> QED
        BY <1>3, <3>1, LinkedType DEF texts
    <3>3. Filed(target, v, grown)
      <4> HIDE DEF v, reg, texts
      <4> QED
        BY <1>3, <3>1, LinkedFiled DEF texts
    <3>4. words \subseteq grown
      OBVIOUS
    <3>5. Filed(reg, r.url, grown)
      BY <1>5, <3>4 DEF Filed
    <3> HIDE DEF r, v, reg, target, grown
    <3>6. AllFiled([docdb EXCEPT ![v] = target], grown)
      BY <1>4, <1>5, <3>1, <3>3, <3>4, PutFiled
    <3>7. [docdb EXCEPT ![v] = target] \in [URLs -> Doc \cup {NoDoc}]
      BY <1>4, <3>1, <3>2
    <3>8. AllFiled(docdb', grown)
      BY <1>2, <3>1, <3>5, <3>6, <3>7, PutFiled
    <3> QED
      BY <1>4, <1>5, <3>1, <3>4, <3>8, MoreFiled DEF FiledInv
  <2> QED
    BY <2>1, <2>2
<1>10. CASE RetrievePage(s, p)
  <2> DEFINE id == IF Old(r.url) THEN nextID ELSE reg.id
             ref == [reg EXCEPT !.id = id, !.time = p.ver, !.head = p.head,
                       !.state = IF p.noindex THEN "noindex" ELSE "normal",
                       !.descriptions = IF Old(r.url) THEN {} ELSE @]
  <2>1. /\ docdb' = docdb /\ words' = words
        /\ cur' = [url |-> r.url, ref |-> ref, left |-> p.links, page |-> p]
    BY <1>10 DEF RetrievePage, AppendMarks, KeepList
  <2>2. /\ Old(r.url) => ref.descriptions = {}
        /\ ~Old(r.url) => ref.id = reg.id /\ ref.descriptions = reg.descriptions
    BY <1>3 DEF Doc
  <2>3. Filed(ref, r.url, words)
    <3> HIDE DEF ref, reg, r
    <3> QED
      BY <1>5, <2>2 DEF Filed
  <2>4. cur'.ref = ref /\ cur'.url = r.url
    BY <2>1
  <2> HIDE DEF ref, r
  <2> QED
    BY <1>4, <1>5, <2>1, <2>3, <2>4 DEF FiledInv
<1> QED
  BY <1>0, <1>7, <1>8, <1>9, <1>10

(* What the links of a page add to a record is filed with it. *)
LEMMA GotHrefFiled == DigTypeOK /\ FiledInv /\ GotHref => FiledInv'
<1> SUFFICES ASSUME DigTypeOK, FiledInv, GotHref PROVE FiledInv'
  OBVIOUS
<1> DEFINE v == Head(cur.left)
           h == cur.ref.hop + 1
           texts == {LinkText(cur.url, cur.page.ver)}
           self == v \in Limits /\ v = cur.url
           ref == Linked(v, h, nextID, texts)
<1>1. phase = "parse" /\ phase' = "parse" /\ cur \in Cur /\ cur.left # <<>>
  BY DEF GotHref, DigTypeOK
<1>2. /\ cur.ref \in Doc /\ cur.ref.id \in Nat /\ cur.left \in Seq(URLs)
      /\ cur.url \in URLs /\ h \in Nat /\ texts \in SUBSET LinkTexts
  BY <1>1, LinkTextType DEF Cur, Doc, Answer
<1>3. v \in URLs
  BY <1>1, <1>2
<1>4. docdb \in [URLs -> Doc \cup {NoDoc}] /\ nextID \in Nat /\ disk' = disk
  BY DEF GotHref, DigTypeOK, FilesTypeOK
<1>5. /\ AllFiled(docdb, words) /\ AllFiled(disk, words)
      /\ Filed(cur.ref, cur.url, words)
  BY <1>1 DEF FiledInv
<1>6. /\ cur'.ref.id = cur.ref.id /\ cur'.url = cur.url
      /\ cur'.ref.descriptions = IF self THEN cur.ref.descriptions \cup texts
                                 ELSE cur.ref.descriptions
  <2>1. cur' = [cur EXCEPT !.left = Tail(cur.left),
                   !.ref.descriptions = IF self THEN @ \cup texts ELSE @]
    BY DEF GotHref
  <2> QED
    BY <2>1, <1>1, <1>2 DEF Cur, Doc
<1>7. words \subseteq words'
  BY DEF GotHref, AppendWords, KeepList
<1>8. Filed(cur'.ref, cur'.url, words')
  <2>1. CASE self
    <3>1. words' = words \cup Described(v, cur.ref.id, texts) /\ v = cur.url
      BY <2>1 DEF GotHref, AppendWords
    <3> HIDE DEF v, texts
    <3> QED
      BY <2>1, <3>1, <1>5, <1>6 DEF Filed, Described
  <2>2. CASE ~self
    BY <2>2, <1>5, <1>6, <1>7 DEF Filed
  <2> QED
    BY <2>1, <2>2
<1>9. AllFiled(docdb', words')
  <2>1. CASE Follows(v, h)
    <3>1. /\ docdb' = [docdb EXCEPT ![v] = ref]
          /\ words' = words \cup Described(v, ref.id, texts)
      BY <2>1 DEF GotHref, Follows, AppendWords
    <3>2. Filed(ref, v, words \cup Described(v, ref.id, texts))
      <4> HIDE DEF v, h, texts
      <4> QED
        BY <1>2, <1>3, <1>4, LinkedFiled
    <3> HIDE DEF v, ref, texts
    <3> QED
      BY <3>1, <3>2, <1>3, <1>4, <1>5, <1>7, PutFiled
  <2>2. CASE ~Follows(v, h)
    <3>1. docdb' = docdb
      BY <2>2 DEF GotHref
    <3> QED
      BY <3>1, <1>5, <1>7, MoreFiled
  <2> QED
    BY <2>1, <2>2
<1> QED
  BY <1>4, <1>5, <1>7, <1>8, <1>9, MoreFiled DEF FiledInv

(* The record that was filled in is stored. *)
LEMMA ParsedFiled == DigTypeOK /\ FiledInv /\ Parsed => FiledInv'
<1> SUFFICES ASSUME DigTypeOK, FiledInv, Parsed PROVE FiledInv'
  OBVIOUS
<1>1. /\ phase = "parse" /\ phase' = "dig" /\ disk' = disk
      /\ cur \in Cur /\ docdb' = [docdb EXCEPT ![cur.url] = cur.ref]
  BY DEF Parsed, DigTypeOK
<1>2. words \subseteq words'
  BY DEF Parsed, AppendMarks, AppendWords
<1>3. cur.url \in URLs /\ docdb \in [URLs -> Doc \cup {NoDoc}]
  BY <1>1 DEF Cur, DigTypeOK, FilesTypeOK
<1>4. /\ AllFiled(docdb, words) /\ AllFiled(disk, words)
      /\ Filed(cur.ref, cur.url, words')
  BY <1>1, <1>2 DEF FiledInv, Filed
<1>5. AllFiled(docdb', words')
  BY <1>1, <1>2, <1>3, <1>4, PutFiled
<1> QED
  BY <1>1, <1>2, <1>4, <1>5, MoreFiled DEF FiledInv

(* The steps that store no record, those that end a run, and its start,    *)
(* which with -i empties the database. *)
LEMMA OtherFiled ==
    ASSUME DigTypeOK, FiledInv,
           \/ \E initial \in InitialFlags : Start(initial)
           \/ Load \/ (\E s \in Servers : SkipServer(s)) \/ NewRound
           \/ Finish \/ DumpLog \/ Signal \/ Crash \/ Htdump \/ World
           \/ UNCHANGED vars
    PROVE  FiledInv'
<1>1. ASSUME docdb' = docdb, disk' \in {disk, docdb}, words' = words,
             phase' = "parse" => phase = "parse" /\ cur' = cur
      PROVE  FiledInv'
  BY <1>1 DEF FiledInv
<1>2. CASE \E initial \in InitialFlags : Start(initial)
  <2>1. PICK initial \in InitialFlags : Start(initial)
    BY <1>2
  <2>2. CASE initial
    <3>1. phase' = "log" /\ docdb' = [u \in URLs |-> NoDoc] /\ disk' = docdb'
      BY <2>1, <2>2 DEF Start
    <3> QED
      BY <3>1 DEF FiledInv, AllFiled
  <2>3. CASE ~initial
    BY <2>1, <2>3, <1>1 DEF Start
  <2> QED
    BY <2>2, <2>3
<1>3. CASE Load
  BY <1>1, <1>3 DEF Load, InitialLog, InitialDb, InitialStart, Initial, LogRead,
     DbRead, Loaded, fileVars
<1>4. CASE \E s \in Servers : SkipServer(s)
  BY <1>1, <1>4 DEF SkipServer, fileVars
<1>5. CASE NewRound
  BY <1>1, <1>5 DEF NewRound, fileVars
<1>6. CASE Finish \/ DumpLog
  <2>1. CloseDb
    BY <1>6 DEF Finish, DumpLog
  <2> QED
    BY <1>1, <2>1 DEF CloseDb
<1>7. CASE Signal
  BY <1>1, <1>7 DEF Signal, fileVars
<1>8. CASE Crash
  <2>1. LoseDb /\ words' = words /\ phase' = "down"
    BY <1>8 DEF Crash
  <2>2. PICK kept \in SUBSET URLs :
           docdb' = [u \in URLs |-> IF u \in kept THEN docdb[u] ELSE disk[u]]
    BY <2>1 DEF LoseDb
  <2>3. AllFiled(docdb', words)
    BY <2>2 DEF FiledInv, AllFiled
  <2> QED
    BY <2>1, <2>3 DEF LoseDb, FiledInv
<1>9. CASE World
  BY <1>1, <1>9 DEF World, Publish, Outage, fileVars, memVars
<1>10. CASE Htdump
  BY <1>1, <1>10 DEF Htdump, memVars
<1>11. CASE UNCHANGED vars
  BY <1>1, <1>11 DEF vars, fileVars, memVars
<1> QED
  BY <1>2, <1>3, <1>4, <1>5, <1>6, <1>7, <1>8, <1>9, <1>10, <1>11

(* Whatever a stored record says of the links to its document is in the    *)
(* word list under its ID, even when runs are killed: AddDescription files *)
(* the words before the record is stored, and the word list loses nothing. *)
THEOREM DescriptionsAreFiled == DigSpec => []DescriptionsFiled
<1>1. DigInit => FiledInv
  BY DEF DigInit, FilesInit, FiledInv, AllFiled
<1>2. ASSUME DigTypeOK, FiledInv, [DigNext]_vars
      PROVE  FiledInv'
  <2>1. CASE \E s \in Servers : Retrieve(s)
    BY <1>2, <2>1, RetrieveFiled
  <2>2. CASE GotHref \/ Parsed
    BY <1>2, <2>2, GotHrefFiled, ParsedFiled
  <2> QED
    BY <1>2, <2>1, <2>2, OtherFiled DEF DigNext, Work
<1>3. FiledInv => DescriptionsFiled
  BY DEF FiledInv, AllFiled, DescriptionsFiled, Stored
<1> QED
  BY <1>1, <1>2, <1>3, TypeCorrect, PTL DEF DigSpec


-----------------------------------------------------------------------------
(* The invariant. *)

InQueues(q) == {u \in URLs : \E s \in Servers : \E i \in 1..Len(q[s]) :
                                 q[s][i].url = u}

(* A queue holds URLs of its server only, each once. *)
Orderly(q) ==
    \A s \in Servers : \A i, j \in 1..Len(q[s]) :
        /\ ServerOf[q[s][i].url] = s
        /\ q[s][i].url = q[s][j].url => i = j

Found == Queued \cup fetched \cup refused

(* What a log promises to the run that reads it: nothing in it was         *)
(* retrieved, what was retrieved is in the database, and what is in the    *)
(* database and was neither retrieved nor refused is in the log. *)
LogInv ==
    /\ docdb = disk
    /\ fetched \subseteq Stored \ urlLog
    /\ Stored \subseteq urlLog \cup fetched \cup refused

(* What has been loaded so far. *)
LoadInv ==
    /\ phase = "down" => visited = {}
    /\ phase = "log" =>
          /\ urlLog = todo \cup visited
          /\ todo \cap visited = {}
    /\ phase \in {"down", "log"} /\ urlLog # {} => LogInv
    /\ phase = "log" /\ urlLog = {} => fetched = {}
    /\ phase = "db" =>
          /\ todo \subseteq Stored
          /\ Stored \subseteq todo \cup visited
          /\ restart => Stored \subseteq Found
          /\ ~restart => fetched = {} /\ todo \cap visited = {}
    /\ phase \in {"start", "dig", "parse"} => fetched \cup Stored \subseteq visited

(* What is retrieved is stored, at the latest when it has been parsed.     *)
StoreInv ==
    /\ phase \in {"db", "start", "dig", "parse"} => urlLog = {}
    /\ phase \in {"db", "start", "dig"} => fetched \subseteq Stored
    /\ phase = "parse" =>
          cur.url \in fetched /\ fetched \subseteq Stored \cup {cur.url}

QueueInv ==
    /\ Orderly(queue)
    /\ Queued \subseteq visited
    /\ Queued \cap fetched = {}
    /\ visited \subseteq Found
    /\ \A u \in visited : ServerOf[u] \in known

(* A round that took nothing has still to look at every server that has    *)
(* something. *)
RoundInv ==
    /\ phase = "parse" => more
    /\ phase = "dig" /\ ~more =>
          \A s \in Servers : queue[s] # <<>> => s \in turn

CrawlInv == QueueInv /\ LoadInv /\ StoreInv /\ RoundInv

-----------------------------------------------------------------------------
(* Lemmas about the queues. *)

(* What all queues hold. *)
LEMMA QueuedIs == Queued = InQueues(queue) /\ Queued' = InQueues(queue')
BY DEF Queued, InQueues

(* When the head of a queue is taken its URL waits nowhere else. *)
LEMMA PopQueues ==
    ASSUME NEW q \in [Servers -> Seq(URLRef)], Orderly(q),
           NEW s \in Servers, q[s] # <<>>
    PROVE  LET p == [q EXCEPT ![s] = Tail(@)]
           IN  /\ Orderly(p)
               /\ InQueues(p) = InQueues(q) \ {Head(q[s]).url}
               /\ Head(q[s]).url \in InQueues(q)
<1> DEFINE p == [q EXCEPT ![s] = Tail(@)]
<1>1. q[s] \in Seq(URLRef) /\ Len(q[s]) \in Nat \ {0}
  OBVIOUS
<1>2. /\ Len(p[s]) = Len(q[s]) - 1
      /\ \A i \in 1..Len(p[s]) : p[s][i] = q[s][i + 1]
  BY <1>1
<1>3. \A t \in Servers \ {s} : p[t] = q[t]
  OBVIOUS
<1>4. Head(q[s]) = q[s][1] /\ 1 \in 1..Len(q[s]) /\ q[s][1].url \in URLs
  <2>1. q[s][1] \in URLRef
    BY <1>1
  <2> QED
    BY <1>1, <2>1 DEF URLRef
<1>5. \A t \in Servers : \A i \in 1..Len(p[t]) : \E k \in 1..Len(q[t]) :
          p[t][i] = q[t][k] /\ k = IF t = s THEN i + 1 ELSE i
  BY <1>1, <1>2, <1>3
<1>6. Orderly(p)
  BY <1>1, <1>5 DEF Orderly
<1>7. ASSUME NEW u \in InQueues(p) PROVE u \in InQueues(q) /\ u # Head(q[s]).url
  <2>1. PICK t \in Servers : \E i \in 1..Len(p[t]) : p[t][i].url = u
    BY DEF InQueues
  <2>0. PICK i \in 1..Len(p[t]) : p[t][i].url = u
    BY <2>1
  <2>2. PICK k \in 1..Len(q[t]) :
            p[t][i] = q[t][k] /\ k = IF t = s THEN i + 1 ELSE i
    BY <1>5
  <2>3. u \in InQueues(q) /\ q[t][k].url = u /\ ServerOf[u] = t
    BY <2>0, <2>2 DEF InQueues, Orderly
  <2>4. u # q[s][1].url
    BY <1>1, <1>4, <2>2, <2>3 DEF Orderly
  <2> QED
    BY <1>4, <2>3, <2>4
<1>8. ASSUME NEW u \in InQueues(q), u # Head(q[s]).url PROVE u \in InQueues(p)
  <2>1. PICK t \in Servers : \E i \in 1..Len(q[t]) : q[t][i].url = u
    BY DEF InQueues
  <2>0. PICK i \in 1..Len(q[t]) : q[t][i].url = u
    BY <2>1
  <2>2. CASE t = s
    <3>1. i # 1
      BY <1>4, <1>8, <2>0, <2>2
    <3>2. i - 1 \in 1..Len(p[s]) /\ p[s][i - 1] = q[s][i]
      BY <1>1, <1>2, <2>2, <3>1
    <3> QED
      BY <2>0, <2>2, <3>2 DEF InQueues
  <2>3. CASE t # s
    BY <1>3, <2>0, <2>3 DEF InQueues
  <2> QED
    BY <2>2, <2>3
<1>9. Head(q[s]).url \in InQueues(q)
  BY <1>4 DEF InQueues
<1> QED
  BY <1>6, <1>7, <1>8, <1>9

(* A URL that waits nowhere is appended to the queue of its server. *)
LEMMA AppendQueues ==
    ASSUME NEW q \in [Servers -> Seq(URLRef)], Orderly(q),
           NEW u \in URLs, NEW h \in Nat, u \notin InQueues(q)
    PROVE  LET p == [q EXCEPT ![ServerOf[u]] = Append(@, [url |-> u, hop |-> h])]
           IN  Orderly(p) /\ InQueues(p) = InQueues(q) \cup {u}
<1> DEFINE s == ServerOf[u]
           r == [url |-> u, hop |-> h]
           p == [q EXCEPT ![s] = Append(@, r)]
           n == Len(q[s]) + 1
<1>1. s \in Servers /\ r \in URLRef /\ r.url = u
  BY DigAssumption DEF URLRef
<1>2. q[s] \in Seq(URLRef) /\ n \in Nat \ {0}
  BY <1>1
<1>3. /\ Len(p[s]) = n /\ p[s][n] = r
      /\ \A i \in 1..Len(q[s]) : p[s][i] = q[s][i]
  <2> HIDE DEF s, r
  <2> QED
    BY <1>1, <1>2 DEF n
<1>4. \A t \in Servers \ {s} : p[t] = q[t]
  OBVIOUS
<1>5. \A t \in Servers : \A i \in 1..Len(p[t]) :
          \/ t = s /\ i = n
          \/ i \in 1..Len(q[t]) /\ p[t][i] = q[t][i]
  <2> HIDE DEF s, r, p
  <2> QED
    BY <1>2, <1>3, <1>4
<1>6. \A t \in Servers : \A i \in 1..Len(q[t]) :
          i \in 1..Len(p[t]) /\ p[t][i] = q[t][i] /\ q[t][i].url # u
  <2>1. \A t \in Servers : \A i \in 1..Len(q[t]) : q[t][i].url # u
    BY DEF InQueues
  <2> HIDE DEF s, r, p
  <2> QED
    BY <1>2, <1>3, <1>4, <2>1
<1> HIDE DEF r, p, n
<1>7. Orderly(p)
  <2> SUFFICES ASSUME NEW t \in Servers, NEW i \in 1..Len(p[t]),
                      NEW j \in 1..Len(p[t])
               PROVE  /\ ServerOf[p[t][i].url] = t
                      /\ p[t][i].url = p[t][j].url => i = j
    BY DEF Orderly
  <2>1. CASE t = s /\ i = n
    <3>1. ServerOf[p[t][i].url] = t /\ p[t][i].url = u
      BY <2>1, <1>1, <1>3
    <3>2. p[t][j].url = u => j = n
      BY <2>1, <1>5, <1>6
    <3> QED
      BY <2>1, <3>1, <3>2
  <2>2. CASE i \in 1..Len(q[t]) /\ p[t][i] = q[t][i]
    <3>1. ServerOf[p[t][i].url] = t /\ p[t][i].url # u
      BY <2>2, <1>6 DEF Orderly
    <3>2. CASE t = s /\ j = n
      BY <3>1, <3>2, <1>1, <1>3
    <3>3. CASE j \in 1..Len(q[t]) /\ p[t][j] = q[t][j]
      BY <2>2, <3>1, <3>3 DEF Orderly
    <3> QED
      BY <1>5, <3>2, <3>3, <3>1
  <2> QED
    BY <1>5, <2>1, <2>2
<1>8. \A w \in InQueues(p) : w \in InQueues(q) \cup {u}
  BY <1>1, <1>3, <1>5, SMTT(30) DEF InQueues
<1>9. \A w \in InQueues(q) \cup {u} : w \in InQueues(p)
  <2>1. u \in InQueues(p)
    BY <1>1, <1>2, <1>3 DEF InQueues
  <2> QED
    BY <1>6, <2>1 DEF InQueues
<1> QED
  BY <1>7, <1>8, <1>9 DEF p, r

(* Server::push queues the URL or remembers that it refused it. *)
LEMMA PushQueues ==
    ASSUME NEW q \in [Servers -> Seq(URLRef)], Orderly(q),
           NEW u \in URLs, NEW h \in Nat, u \notin InQueues(q), Push(q, u, h)
    PROVE  /\ Orderly(queue')
           /\ visited' = visited \cup {u}
           /\ \/ Queued' = InQueues(q) \cup {u} /\ refused' = refused
              \/ Queued' = InQueues(q) /\ refused' = refused \cup {u}
<1>1. CASE Refuses(u)
  BY <1>1, QueuedIs DEF Push
<1>2. CASE ~Refuses(u)
  <2> DEFINE p == [q EXCEPT ![ServerOf[u]] = Append(@, [url |-> u, hop |-> h])]
  <2>1. queue' = p /\ visited' = visited \cup {u} /\ refused' = refused
    BY <1>2 DEF Push
  <2>2. Orderly(p) /\ InQueues(p) = InQueues(q) \cup {u}
    BY AppendQueues
  <2> HIDE DEF p
  <2> QED
    BY <2>1, <2>2, QueuedIs
<1> QED
  BY <1>1, <1>2

-----------------------------------------------------------------------------
(* What the steps do to what is queued, visited, retrieved and refused.    *)

(* Some URL that was not visited was queued or refused, or nothing new was *)
(* found; left is what else remains in the queues. *)
Finds(left) ==
    \/ Queued' = left /\ UNCHANGED <<visited, refused>>
    \/ \E v \in URLs \ visited :
          /\ visited' = visited \cup {v}
          /\ ServerOf[v] \in known'
          /\ \/ Queued' = left \cup {v} /\ UNCHANGED refused
             \/ Queued' = left /\ refused' = refused \cup {v}

(* Initial(url, from) pushes the URL, notes it as visited or skips it.     *)
LEMMA InitialFinds ==
    ASSUME DigTypeOK, QueueInv, NEW u \in URLs, NEW skip \in BOOLEAN,
           NEW pushes \in BOOLEAN, Initial(u, skip, pushes),
           skip \/ u \notin visited \/ ~pushes
    PROVE  /\ Orderly(queue') /\ known \subseteq known'
           /\ u \in visited' /\ visited' = visited \cup {u}
           /\ \/ Queued' = Queued /\ UNCHANGED refused /\ (u \in visited \/ ~pushes)
              \/ /\ u \notin visited /\ pushes
                 /\ \/ Queued' = Queued \cup {u} /\ UNCHANGED refused
                    \/ Queued' = Queued /\ refused' = refused \cup {u}
           /\ ServerOf[u] \in known'
<1>1. CASE ServerOf[u] \in known /\ skip /\ u \in visited
  BY <1>1, QueuedIs DEF Initial, QueueInv
<1>2. CASE ~(ServerOf[u] \in known /\ skip /\ u \in visited)
  <2>1. ServerOf[u] \in known' /\ known \subseteq known'
    BY <1>2 DEF Initial, Connect
  <2>2. CASE pushes
    <3>1. u \notin visited /\ u \notin InQueues(queue)
      BY <1>2, <2>2, QueuedIs DEF QueueInv
    <3>2. Push(queue, u, 0)
      BY <1>2, <2>2 DEF Initial
    <3>3. queue \in [Servers -> Seq(URLRef)] /\ Orderly(queue)
      BY DEF DigTypeOK, QueueInv
    <3>4. /\ Orderly(queue') /\ visited' = visited \cup {u}
          /\ \/ Queued' = Queued \cup {u} /\ UNCHANGED refused
             \/ Queued' = Queued /\ refused' = refused \cup {u}
      BY <3>1, <3>2, <3>3, PushQueues, QueuedIs
    <3>5. u \in visited'
      BY <3>4
    <3> QED
      BY <2>1, <2>2, <3>1, <3>4, <3>5, Zenon
  <2>3. CASE ~pushes
    BY <1>2, <2>1, <2>3, QueuedIs DEF Initial, QueueInv
  <2> QED
    BY <2>2, <2>3
<1> QED
  BY <1>1, <1>2

(* A retrieval takes one URL from its queue; a redirect may find another.  *)
LEMMA RetrieveFinds ==
    ASSUME DigTypeOK, QueueInv, NEW s \in Servers, Retrieve(s)
    PROVE  LET u == Head(queue[s]).url
           IN  /\ u \in Queued /\ fetched' = fetched \cup {u}
               /\ Orderly(queue') /\ known \subseteq known'
               /\ Finds(Queued \ {u})
<1> DEFINE u == Head(queue[s]).url
<1>0. PICK p \in Heard(s) :
        \/ RetrieveGone(s, p) \/ RetrieveUnchanged(s, p) \/ RetrieveUnauthorized(s, p)
        \/ RetrieveRedirect(s, p) \/ RetrievePage(s, p)
  BY DEF Retrieve
<1>1. Take(s, p) /\ queue[s] # <<>>
  BY <1>0 DEF RetrieveGone, RetrieveUnchanged, RetrieveUnauthorized, RetrieveRedirect,
              RetrievePage, Take, IsNext
<1>2. queue \in [Servers -> Seq(URLRef)] /\ Orderly(queue)
  BY DEF DigTypeOK, QueueInv
<1>3. /\ Orderly(Popped(s)) /\ InQueues(Popped(s)) = Queued \ {u}
      /\ u \in Queued
  BY <1>1, <1>2, PopQueues, QueuedIs DEF Popped
<1>4. fetched' = fetched \cup {u}
  BY <1>1 DEF Take
<1>5. ASSUME queue' = Popped(s), UNCHANGED <<visited, known, refused>>
      PROVE  Orderly(queue') /\ known \subseteq known' /\ Finds(Queued \ {u})
  <2>1. Queued' = Queued \ {u}
    BY <1>3, <1>5, QueuedIs
  <2> HIDE DEF u
  <2> QED
    BY <1>3, <1>5, <2>1 DEF Finds
<1>6. CASE RetrieveRedirect(s, p)
  <2> DEFINE v == p.links[1]
             h == Linked(v, Registered(Head(queue[s])).hop,
                         AfterRegister(Head(queue[s])),
                         Registered(Head(queue[s])).descriptions).hop
  <2>1. CASE v \in Limits /\ v \notin visited
    <3>1. /\ \E interrupted \in {FALSE, ~noSignal'} : Connect(ServerOf[v], interrupted)
          /\ Push(Popped(s), v, h) /\ v \in URLs
      BY <1>6, <2>1, DigAssumption DEF RetrieveRedirect
    <3>2. h \in Nat
      <4>1. Head(queue[s]) \in URLRef
        BY <1>1, TakenType
      <4>2. /\ Registered(Head(queue[s])).hop \in Nat
            /\ AfterRegister(Head(queue[s])) \in Nat
            /\ Registered(Head(queue[s])).descriptions \in SUBSET LinkTexts
        BY <4>1, RegisteredType
      <4> HIDE DEF v
      <4> QED
        BY <3>1, <4>2, LinkedType
    <3>3. Popped(s) \in [Servers -> Seq(URLRef)] /\ v \notin InQueues(Popped(s))
      BY <1>1, <1>3, <2>1, TakenType DEF QueueInv
    <3>4. known \subseteq known' /\ ServerOf[v] \in known'
      BY <3>1 DEF Connect
    <3>5. /\ Orderly(queue') /\ visited' = visited \cup {v}
          /\ \/ Queued' = (Queued \ {u}) \cup {v} /\ refused' = refused
             \/ Queued' = Queued \ {u} /\ refused' = refused \cup {v}
      <4> HIDE DEF v, h, u
      <4> QED
        BY <1>3, <3>1, <3>2, <3>3, PushQueues
    <3>6. Finds(Queued \ {u})
      <4> HIDE DEF v, h, u
      <4> QED
        BY <2>1, <3>1, <3>4, <3>5 DEF Finds
    <3> QED
      BY <1>3, <1>4, <3>4, <3>5, <3>6
  <2>2. CASE ~(v \in Limits /\ v \notin visited)
    <3>1. queue' = Popped(s) /\ UNCHANGED <<visited, known, refused>>
      BY <1>6, <2>2 DEF RetrieveRedirect
    <3> QED
      BY <1>3, <1>4, <1>5, <3>1
  <2> QED
    BY <2>1, <2>2
<1>7. CASE ~RetrieveRedirect(s, p)
  <2>1. queue' = Popped(s) /\ UNCHANGED <<visited, known, refused>>
    BY <1>0, <1>7 DEF RetrieveGone, RetrieveUnchanged, RetrieveUnauthorized,
                RetrievePage
  <2> QED
    BY <1>3, <1>4, <1>5, <2>1
<1> QED
  BY <1>6, <1>7

(* A link is found unless it was visited before. *)
LEMMA GotHrefFinds ==
    ASSUME DigTypeOK, QueueInv, GotHref
    PROVE  Orderly(queue') /\ known \subseteq known' /\ Finds(Queued)
<1> DEFINE v == Head(cur.left)
           h == cur.ref.hop + 1
           hop == Linked(v, h, nextID, {LinkText(cur.url, cur.page.ver)}).hop
<1>1. CASE Follows(v, h) /\ v \notin visited
  <2>1. /\ \E interrupted \in {FALSE, ~noSignal'} : Connect(ServerOf[v], interrupted)
        /\ Push(queue, v, hop)
    BY <1>1 DEF GotHref
  <2>2. cur \in Cur /\ cur.left # <<>>
    BY DEF GotHref, DigTypeOK
  <2>3. v \in URLs /\ h \in Nat /\ nextID \in Nat
    BY <1>1, <2>2, DigAssumption, SMTT(30) DEF Cur, Doc, DigTypeOK, Follows
  <2>4. {LinkText(cur.url, cur.page.ver)} \in SUBSET LinkTexts
    BY <2>2, LinkTextType DEF Cur, Answer
  <2>5. hop \in Nat
    <3> HIDE DEF v, h
    <3> QED
      BY <2>3, <2>4, LinkedType
  <2>6. /\ queue \in [Servers -> Seq(URLRef)] /\ Orderly(queue)
        /\ v \notin InQueues(queue)
    BY <1>1, QueuedIs DEF DigTypeOK, QueueInv
  <2>7. known \subseteq known' /\ ServerOf[v] \in known'
    BY <2>1 DEF Connect
  <2> HIDE DEF v, h, hop
  <2>8. /\ Orderly(queue') /\ visited' = visited \cup {v}
        /\ \/ Queued' = Queued \cup {v} /\ refused' = refused
           \/ Queued' = Queued /\ refused' = refused \cup {v}
    BY <2>1, <2>3, <2>5, <2>6, PushQueues, QueuedIs
  <2> QED
    BY <1>1, <2>3, <2>7, <2>8 DEF Finds
<1>2. CASE ~(Follows(v, h) /\ v \notin visited)
  <2>1. UNCHANGED <<queue, visited, known, refused>>
    BY <1>2 DEF GotHref
  <2> QED
    BY <2>1, QueuedIs DEF Finds, QueueInv
<1> QED
  BY <1>1, <1>2

(* What is found is queued, unless it is refused; if it was not retrieved  *)
(* before, nothing that was retrieved waits. *)
LEMMA FindsQueue ==
    ASSUME QueueInv, NEW taken \in SUBSET Queued, Finds(Queued \ taken),
           Orderly(queue'), known \subseteq known', fetched' = fetched \cup taken,
           fetched \cap visited' \subseteq visited
    PROVE  QueueInv'
<1>1. /\ Queued \subseteq visited /\ Queued \cap fetched = {}
      /\ visited \subseteq Queued \cup fetched \cup refused
      /\ \A u \in visited : ServerOf[u] \in known
  BY DEF QueueInv, Found
<1>2. /\ Queued' \cap fetched' = {} /\ Queued' \subseteq visited'
      /\ visited' \subseteq Queued' \cup fetched' \cup refused'
      /\ \A u \in visited' : ServerOf[u] \in known'
  <2>1. CASE Queued' = Queued \ taken /\ UNCHANGED <<visited, refused>>
    BY <1>1, <2>1
  <2>2. CASE ~(Queued' = Queued \ taken /\ UNCHANGED <<visited, refused>>)
    <3>1. PICK v \in URLs \ visited :
              /\ visited' = visited \cup {v}
              /\ ServerOf[v] \in known'
              /\ \/ Queued' = (Queued \ taken) \cup {v} /\ UNCHANGED refused
                 \/ Queued' = Queued \ taken /\ refused' = refused \cup {v}
      BY <2>2 DEF Finds
    <3> QED
      BY <1>1, <3>1
  <2> QED
    BY <2>1, <2>2
<1> QED
  BY <1>2 DEF QueueInv, Found

(* Writing a record adds its URL to what is stored. *)
LEMMA PutStored ==
    ASSUME NEW db \in [URLs -> Doc \cup {NoDoc}], NEW u \in URLs, NEW ref \in Doc
    PROVE  {w \in URLs : [db EXCEPT ![u] = ref][w] # NoDoc} =
           {w \in URLs : db[w] # NoDoc} \cup {u}
BY DigAssumption

(* A retrieved URL is stored at once, or a page of it is parsed; and what  *)
(* a redirect leads to is stored and visited. *)
LEMMA RetrieveStores ==
    ASSUME DigTypeOK, NEW s \in Servers, Retrieve(s)
    PROVE  LET u == Head(queue[s]).url
           IN  /\ phase = "dig" /\ more' /\ u \in URLs
               /\ UNCHANGED <<urlLog, disk>>
               /\ Stored \subseteq Stored'
               /\ Stored' \subseteq Stored \cup {u} \cup visited'
               /\ \/ phase' = "dig" /\ u \in Stored'
                  \/ phase' = "parse" /\ cur'.url = u /\ Stored' = Stored
<1> DEFINE r == Head(queue[s])
           u == r.url
           reg == Registered(r)
<1>0. PICK p \in Heard(s) :
        \/ RetrieveGone(s, p) \/ RetrieveUnchanged(s, p) \/ RetrieveUnauthorized(s, p)
        \/ RetrieveRedirect(s, p) \/ RetrievePage(s, p)
  BY DEF Retrieve
<1>1. /\ Take(s, p) /\ queue[s] # <<>> /\ phase = "dig" /\ more' = TRUE
      /\ UNCHANGED <<urlLog, disk>>
  BY <1>0 DEF RetrieveGone, RetrieveUnchanged, RetrieveUnauthorized, RetrieveRedirect,
              RetrievePage, Take, IsNext
<1>2. r \in URLRef /\ u \in URLs
  BY <1>1, TakenType
<1>3. /\ reg \in Doc /\ reg.hop \in Nat /\ reg.descriptions \in SUBSET LinkTexts
      /\ AfterRegister(r) \in Nat
  BY <1>2, RegisteredType
<1>4. docdb \in [URLs -> Doc \cup {NoDoc}]
  BY DEF DigTypeOK, FilesTypeOK
<1>5. ASSUME NEW ref \in Doc, docdb' = [docdb EXCEPT ![u] = ref], phase' = phase
      PROVE  Stored' = Stored \cup {u} /\ phase' = "dig"
  <2> HIDE DEF u
  <2> QED
    BY <1>1, <1>2, <1>4, <1>5, PutStored DEF Stored
<1>6. CASE RetrieveGone(s, p)
  <2> DEFINE st == IF Status(u, p) = "not_html" THEN "normal" ELSE "not_found"
             ref == [reg EXCEPT !.state = st]
  <2>1. docdb' = [docdb EXCEPT ![u] = ref] /\ phase' = phase
    BY <1>6 DEF RetrieveGone
  <2>2. ref \in Doc
    BY <1>3 DEF Doc, States
  <2>3. Stored' = Stored \cup {u} /\ phase' = "dig"
    BY <2>1, <2>2, <1>5
  <2> QED
    BY <1>1, <1>2, <2>3
<1>7. CASE RetrieveUnchanged(s, p) \/ RetrieveUnauthorized(s, p)
  <2>1. docdb' = [docdb EXCEPT ![u] = reg] /\ phase' = phase
    BY <1>7 DEF RetrieveUnchanged, RetrieveUnauthorized
  <2>2. Stored' = Stored \cup {u} /\ phase' = "dig"
    BY <2>1, <1>3, <1>5
  <2> QED
    BY <1>1, <1>2, <2>2
<1>8. CASE RetrieveRedirect(s, p)
  <2> DEFINE v == p.links[1]
             target == Linked(v, reg.hop, AfterRegister(r), reg.descriptions)
  <2>1. CASE v \notin Limits
    <3>1. docdb' = [docdb EXCEPT ![u] = reg] /\ phase' = phase
      BY <1>8, <2>1 DEF RetrieveRedirect
    <3>2. Stored' = Stored \cup {u} /\ phase' = "dig"
      BY <3>1, <1>3, <1>5
    <3> QED
      BY <1>1, <1>2, <3>2
  <2>2. CASE v \in Limits
    <3>1. /\ docdb' = [docdb EXCEPT ![v] = target, ![u] = reg]
          /\ phase' = phase /\ v \in URLs
      BY <1>8, <2>2, DigAssumption DEF RetrieveRedirect
    <3>2. target \in Doc
      <4> HIDE DEF v, reg
      <4> QED
        BY <1>3, <3>1, LinkedType
    <3>3. v \in visited'
      BY <1>8, <2>2 DEF RetrieveRedirect, Push
    <3>4. Stored' = Stored \cup {v} \cup {u}
      <4> DEFINE db == [docdb EXCEPT ![v] = target]
      <4>1. docdb' = [db EXCEPT ![u] = reg]
        BY <3>1
      <4> HIDE DEF u, v, target, reg
      <4>2. {w \in URLs : db[w] # NoDoc} = Stored \cup {v}
        BY <3>1, <3>2, <1>4, PutStored DEF Stored
      <4>3. db \in [URLs -> Doc \cup {NoDoc}]
        BY <3>1, <3>2, <1>4
      <4> HIDE DEF db
      <4> QED
        BY <4>1, <4>2, <4>3, <1>2, <1>3, PutStored DEF Stored
    <3> HIDE DEF v
    <3> QED
      BY <1>1, <1>2, <3>1, <3>3, <3>4
  <2> QED
    BY <2>1, <2>2
<1>9. CASE RetrievePage(s, p)
  BY <1>1, <1>2, <1>9 DEF RetrievePage, Stored
<1> QED
  BY <1>0, <1>6, <1>7, <1>8, <1>9

(* The document a link leads to is stored if it is followed, and visited.  *)
LEMMA GotHrefStores ==
    ASSUME DigTypeOK, GotHref
    PROVE  /\ phase = "parse" /\ phase' = "parse" /\ cur'.url = cur.url
           /\ UNCHANGED <<urlLog, more, fetched>>
           /\ Stored \subseteq Stored' /\ Stored' \subseteq Stored \cup visited'
<1> DEFINE v == Head(cur.left)
           h == cur.ref.hop + 1
           ref == Linked(v, h, nextID, {LinkText(cur.url, cur.page.ver)})
<1>1. /\ phase = "parse" /\ phase' = "parse" /\ cur \in Cur /\ cur.left # <<>>
      /\ UNCHANGED <<urlLog, more, fetched>>
  BY DEF GotHref, DigTypeOK
<1>2. cur'.url = cur.url
  BY <1>1 DEF GotHref, Cur
<1>3. CASE Follows(v, h)
  <2>1. docdb' = [docdb EXCEPT ![v] = ref] /\ v \in visited'
    BY <1>3 DEF GotHref, Push
  <2>2. /\ v \in URLs /\ h \in Nat /\ nextID \in Nat
        /\ {LinkText(cur.url, cur.page.ver)} \in SUBSET LinkTexts
    <3>1. v \in URLs /\ h \in Nat /\ nextID \in Nat
      BY <1>1, <1>3, DigAssumption DEF Cur, Doc, DigTypeOK, Follows
    <3> QED
      BY <1>1, <3>1, LinkTextType DEF Cur, Answer
  <2>3. ref \in Doc
    <3> HIDE DEF v, h
    <3> QED
      BY <2>2, LinkedType
  <2> HIDE DEF v, ref
  <2>4. Stored' = Stored \cup {v}
    BY <2>1, <2>2, <2>3, PutStored, SMTT(30) DEF Stored, DigTypeOK, FilesTypeOK
  <2> QED
    BY <1>1, <1>2, <2>1, <2>4
<1>4. CASE ~Follows(v, h)
  BY <1>1, <1>2, <1>4 DEF GotHref, Stored
<1> QED
  BY <1>3, <1>4

(* Storing a parsed page keeps what is stored. *)
LEMMA ParsedStores ==
    ASSUME DigTypeOK, Parsed
    PROVE  /\ phase = "parse" /\ phase' = "dig"
           /\ Stored' = Stored \cup {cur.url}
<1>1. cur \in Cur /\ docdb' = [docdb EXCEPT ![cur.url] = cur.ref]
  BY DEF Parsed, DigTypeOK
<1>2. cur.url \in URLs /\ cur.ref \in Doc
  BY <1>1 DEF Cur
<1>3. docdb \in [URLs -> Doc \cup {NoDoc}] /\ phase = "parse" /\ phase' = "dig"
  BY DEF Parsed, DigTypeOK, FilesTypeOK
<1>4. {u \in URLs : docdb'[u] # NoDoc} = {u \in URLs : docdb[u] # NoDoc} \cup {cur.url}
  BY <1>1, <1>2, <1>3, PutStored
<1> QED
  BY <1>3, <1>4 DEF Stored

-----------------------------------------------------------------------------
(* Every step preserves the invariant. *)

(* A step that leaves the queues and the history alone. *)
LEMMA QueueFrame ==
    ASSUME QueueInv, UNCHANGED <<queue, visited, known, fetched, refused>>
    PROVE  QueueInv' /\ Queued' = Queued /\ Found' = Found
BY DEF QueueInv, Queued, Orderly, Found

(* At first, and when a process is gone, nothing is queued. *)
LEMMA InitCrawl == DigInit => CrawlInv
<1> SUFFICES ASSUME DigInit PROVE CrawlInv
  OBVIOUS
<1>1. /\ phase = "down" /\ visited = {} /\ urlLog = {} /\ fetched = {}
      /\ queue = [s \in Servers |-> <<>>]
  BY DEF DigInit, MemInit, FilesInit
<1>2. Queued = {} /\ Orderly(queue)
  BY <1>1 DEF Queued, Orderly
<1> QED
  BY <1>1, <1>2 DEF CrawlInv, QueueInv, LoadInv, StoreInv, RoundInv

(* A process that starts has no URLs in memory, so its queues are in order. *)
LEMMA ClearedQueues ==
    ASSUME ClearMemory
    PROVE  visited' = {} /\ Queued' = {} /\ QueueInv'
<1>1. visited' = {} /\ queue' = [s \in Servers |-> <<>>]
  BY DEF ClearMemory
<1>2. Queued' = {} /\ Orderly(queue')
  BY <1>1 DEF Queued, Orderly
<1> QED
  BY <1>1, <1>2 DEF QueueInv

(* A server that has something to visit is one of those that are known.    *)
LEMMA QueueKnown ==
    ASSUME DigTypeOK, QueueInv, NEW s \in Servers, queue[s] # <<>>
    PROVE  s \in known
<1>1. queue[s] \in Seq(URLRef)
  BY DEF DigTypeOK
<1>2. 1 \in 1..Len(queue[s]) /\ queue[s][1] \in URLRef
  BY <1>1
<1>3. queue[s][1].url \in Queued /\ ServerOf[queue[s][1].url] = s
  BY <1>2 DEF Queued, QueueInv, Orderly, URLRef
<1> QED
  BY <1>3 DEF QueueInv

(* htdig is started: it goes on with the log, or begins a new dig.         *)
LEMMA StartCrawl ==
    ASSUME DigTypeOK, CrawlInv, NEW initial \in BOOLEAN, Start(initial)
    PROVE  CrawlInv'
<1>1. /\ phase = "down" /\ phase' = "log" /\ todo' = urlLog
      /\ UNCHANGED <<urlLog, visited, known, queue>>
      /\ visited = {} /\ Queued = {} /\ Orderly(queue)
  BY DEF Start, CrawlInv, LoadInv, QueueInv
<1>2. QueueInv'
  BY <1>1 DEF QueueInv, Queued, Orderly
<1>3. CASE initial
  <2>1. Stored' = {} /\ disk' = docdb' /\ fetched' = {}
    BY <1>3 DEF Start, Stored
  <2> QED
    BY <1>1, <1>2, <2>1 DEF CrawlInv, LoadInv, LogInv, StoreInv, RoundInv
<1>4. CASE ~initial /\ urlLog = {}
  BY <1>1, <1>2, <1>4
     DEF Start, CrawlInv, LoadInv, LogInv, StoreInv, RoundInv
<1>5. CASE ~initial /\ urlLog # {}
  <2>1. LogInv'
    BY <1>1, <1>5 DEF Start, CrawlInv, LoadInv, LogInv, Stored
  <2> QED
    BY <1>1, <1>2, <1>5, <2>1 DEF CrawlInv, LoadInv, StoreInv, RoundInv
<1> QED
  BY <1>3, <1>4, <1>5

(* The log, the database and start_url are read. *)
LEMMA LoadCrawl == DigTypeOK /\ CrawlInv /\ Load => CrawlInv'
<1> SUFFICES ASSUME DigTypeOK, CrawlInv, Load PROVE CrawlInv'
  OBVIOUS
<1> USE DEF CrawlInv
<1>1. ASSUME NEW u \in URLs, NEW skip \in BOOLEAN, NEW pushes \in BOOLEAN,
             Initial(u, skip, pushes), skip \/ u \notin visited \/ ~pushes,
             IF pushes THEN u \in fetched => u \in visited ELSE u \in Found
      PROVE  /\ QueueInv' /\ visited' = visited \cup {u} /\ todo' = todo \ {u}
             /\ u \in todo /\ Stored' = Stored /\ Found \subseteq Found'
             /\ UNCHANGED <<phase, docdb, disk, urlLog, restart, fetched>>
  <2>1. /\ u \in todo /\ todo' = todo \ {u} /\ Stored' = Stored
        /\ UNCHANGED <<phase, docdb, disk, urlLog, restart, fetched>>
    BY <1>1 DEF Initial, fileVars, Stored
  <2>2. /\ Orderly(queue') /\ known \subseteq known'
        /\ u \in visited' /\ visited' = visited \cup {u}
        /\ \/ Queued' = Queued /\ UNCHANGED refused /\ (u \in visited \/ ~pushes)
           \/ /\ u \notin visited /\ pushes
              /\ \/ Queued' = Queued \cup {u} /\ UNCHANGED refused
                 \/ Queued' = Queued /\ refused' = refused \cup {u}
        /\ ServerOf[u] \in known'
    BY <1>1, InitialFinds
  <2>3. /\ Queued \subseteq visited /\ Queued \cap fetched = {}
        /\ visited \subseteq Queued \cup fetched \cup refused
        /\ \A w \in visited : ServerOf[w] \in known
    BY DEF QueueInv, Found
  <2>4. /\ Queued' \subseteq visited' /\ \A w \in visited' : ServerOf[w] \in known'
        /\ Found \subseteq Found'
    BY <2>1, <2>2, <2>3 DEF Found
  <2>5. visited' \subseteq Found'
    BY <1>1, <2>1, <2>2, <2>3 DEF Found
  <2>6. Queued' \cap fetched' = {}
    BY <1>1, <2>1, <2>2, <2>3 DEF Found
  <2> QED
    BY <2>1, <2>2, <2>4, <2>5, <2>6 DEF QueueInv
<1>2. ASSUME NEW u \in URLs, InitialLog(u) PROVE CrawlInv'
  <2>1. u \in todo /\ phase = "log" /\ Initial(u, TRUE, TRUE)
    BY <1>2 DEF InitialLog, Initial
  <2>2. urlLog # {} /\ u \in urlLog /\ LogInv
    BY <2>1 DEF LoadInv
  <2>3. u \notin fetched
    BY <2>2 DEF LogInv
  <2>4. /\ QueueInv' /\ visited' = visited \cup {u} /\ todo' = todo \ {u}
        /\ u \in todo /\ Stored' = Stored /\ Found \subseteq Found'
        /\ UNCHANGED <<phase, docdb, disk, urlLog, restart, fetched>>
    BY <1>1, <2>1, <2>3
  <2>5. LogInv'
    <3>1. refused \subseteq refused'
      BY <2>1 DEF Initial, Push
    <3> QED
      BY <2>2, <2>4, <3>1 DEF LogInv
  <2> QED
    BY <2>1, <2>2, <2>4, <2>5 DEF LoadInv, StoreInv, RoundInv
<1>3. ASSUME NEW u \in URLs, InitialDb(u) PROVE CrawlInv'
  <2>1. u \in todo /\ phase = "db" /\ Initial(u, restart, ~restart)
    BY <1>3 DEF InitialDb, Initial
  <2>2. /\ todo \subseteq Stored /\ Stored \subseteq todo \cup visited
        /\ restart => Stored \subseteq Found
        /\ ~restart => fetched = {} /\ todo \cap visited = {}
    BY <2>1 DEF LoadInv
  <2>3. restart \in BOOLEAN
    BY DEF DigTypeOK
  <2>4. /\ QueueInv' /\ visited' = visited \cup {u} /\ todo' = todo \ {u}
        /\ u \in todo /\ Stored' = Stored /\ Found \subseteq Found'
        /\ UNCHANGED <<phase, docdb, disk, urlLog, restart, fetched>>
    <3>1. CASE restart
      BY <1>1, <2>1, <2>2, <2>3, <3>1
    <3>2. CASE ~restart
      BY <1>1, <2>1, <2>2, <2>3, <3>2
    <3> QED
      BY <3>1, <3>2
  <2> QED
    BY <2>1, <2>2, <2>4 DEF LoadInv, StoreInv, RoundInv
<1>4. ASSUME NEW u \in URLs, InitialStart(u) PROVE CrawlInv'
  <2>1. phase = "start" /\ Initial(u, TRUE, TRUE)
    BY <1>4 DEF InitialStart
  <2>2. fetched \cup Stored \subseteq visited
    BY <2>1 DEF LoadInv
  <2>3. /\ QueueInv' /\ visited' = visited \cup {u} /\ todo' = todo \ {u}
        /\ u \in todo /\ Stored' = Stored /\ Found \subseteq Found'
        /\ UNCHANGED <<phase, docdb, disk, urlLog, restart, fetched>>
    BY <1>1, <2>1, <2>2
  <2> QED
    BY <2>1, <2>2, <2>3 DEF LoadInv, StoreInv, RoundInv
<1>5. CASE LogRead
  <2>1. /\ phase = "log" /\ phase' = "db" /\ todo = {} /\ urlLog' = {}
        /\ todo' = Stored /\ restart' = (visited # {})
        /\ UNCHANGED <<docdb, visited, fetched, refused, queue, known>>
    BY <1>5 DEF LogRead, histVars
  <2>2. QueueInv' /\ Queued' = Queued /\ Found' = Found /\ Stored' = Stored
    BY <2>1, QueueFrame DEF Stored
  <2>3. CASE urlLog = {}
    BY <2>1, <2>2, <2>3 DEF LoadInv, StoreInv, RoundInv
  <2>4. CASE urlLog # {}
    <3>1. visited = urlLog /\ restart' = TRUE
      BY <2>1, <2>4 DEF LoadInv
    <3>2. fetched \subseteq Stored /\ Stored \subseteq visited \cup fetched \cup refused
      BY <2>1, <2>4, <3>1 DEF LoadInv, LogInv
    <3>3. Stored \subseteq Found
      BY <3>2 DEF QueueInv, Found
    <3> QED
      BY <2>1, <2>2, <3>1, <3>2, <3>3 DEF LoadInv, StoreInv, RoundInv
  <2> QED
    BY <2>3, <2>4
<1>6. CASE DbRead
  <2>1. /\ phase = "db" /\ phase' = "start" /\ todo = {} 
        /\ UNCHANGED <<docdb, urlLog, visited, fetched, refused, queue, known>>
    BY <1>6 DEF DbRead, histVars, fileVars
  <2>2. QueueInv' /\ Stored' = Stored
    BY <2>1, QueueFrame DEF Stored
  <2> QED
    BY <2>1, <2>2 DEF LoadInv, StoreInv, RoundInv
<1>7. CASE Loaded
  <2>1. /\ phase = "start" /\ phase' = "dig" /\ turn' = known /\ known' = known
        /\ UNCHANGED <<docdb, urlLog, visited, fetched, refused, queue, known>>
    BY <1>7 DEF Loaded, histVars, fileVars
  <2>2. QueueInv' /\ Stored' = Stored
    BY <2>1, QueueFrame DEF Stored
  <2>3. \A s \in Servers : queue'[s] # <<>> => s \in turn'
    BY <2>1, QueueKnown
  <2> QED
    BY <2>1, <2>2, <2>3 DEF LoadInv, StoreInv, RoundInv
<1> QED
  BY <1>2, <1>3, <1>4, <1>5, <1>6, <1>7 DEF Load

(* One URL is retrieved. *)
LEMMA RetrieveCrawl ==
    ASSUME DigTypeOK, CrawlInv, NEW s \in Servers, Retrieve(s)
    PROVE  CrawlInv'
<1> DEFINE u == Head(queue[s]).url
<1>1. /\ u \in Queued /\ fetched' = fetched \cup {u}
      /\ Orderly(queue') /\ known \subseteq known'
      /\ Finds(Queued \ {u})
  BY RetrieveFinds DEF CrawlInv
<1>2. /\ phase = "dig" /\ more' /\ u \in URLs
      /\ UNCHANGED <<urlLog, disk>>
      /\ Stored \subseteq Stored'
      /\ Stored' \subseteq Stored \cup {u} \cup visited'
      /\ \/ phase' = "dig" /\ u \in Stored'
         \/ phase' = "parse" /\ cur'.url = u /\ Stored' = Stored
  BY RetrieveStores
<1> HIDE DEF u
<1>3. fetched \cup Stored \subseteq visited /\ fetched \subseteq Stored /\ urlLog = {}
  BY <1>2 DEF CrawlInv, LoadInv, StoreInv
<1>4. visited \subseteq visited'
  BY <1>1 DEF Finds
<1>5. QueueInv'
  <2> DEFINE taken == {u}
  <2>1. taken \in SUBSET Queued /\ Finds(Queued \ taken)
          /\ fetched' = fetched \cup taken
    BY <1>1
  <2> HIDE DEF taken
  <2> QED
    BY <1>1, <1>3, <2>1, FindsQueue DEF CrawlInv
<1>6. u \in visited
  BY <1>1 DEF CrawlInv, QueueInv
<1>7. StoreInv'
  BY <1>1, <1>2, <1>3 DEF StoreInv
<1>8. LoadInv'
  BY <1>1, <1>2, <1>3, <1>4, <1>6 DEF LoadInv
<1> QED
  BY <1>2, <1>5, <1>7, <1>8 DEF CrawlInv, RoundInv

(* A page is parsed, link by link, and stored. *)
LEMMA ParseCrawl == DigTypeOK /\ CrawlInv /\ (GotHref \/ Parsed) => CrawlInv'
<1> SUFFICES ASSUME DigTypeOK, CrawlInv, GotHref \/ Parsed PROVE CrawlInv'
  OBVIOUS
<1>1. CASE GotHref
  <2>1. Orderly(queue') /\ known \subseteq known' /\ Finds(Queued)
    BY <1>1, GotHrefFinds DEF CrawlInv
  <2>2. /\ phase = "parse" /\ phase' = "parse" /\ cur'.url = cur.url
        /\ UNCHANGED <<urlLog, more, fetched>>
        /\ Stored \subseteq Stored' /\ Stored' \subseteq Stored \cup visited'
    BY <1>1, GotHrefStores
  <2>3. fetched \cup Stored \subseteq visited
    BY <2>2 DEF CrawlInv, LoadInv
  <2>4. visited \subseteq visited'
    BY <2>1 DEF Finds
  <2>5. QueueInv'
    <3> DEFINE taken == {}
    <3>1. taken \in SUBSET Queued /\ Finds(Queued \ taken)
            /\ fetched' = fetched \cup taken
      BY <2>1, <2>2
    <3> HIDE DEF taken
    <3> QED
      BY <2>1, <2>3, <3>1, FindsQueue DEF CrawlInv
  <2>6. StoreInv' /\ LoadInv' /\ RoundInv'
    BY <2>2, <2>3, <2>4 DEF CrawlInv, StoreInv, LoadInv, RoundInv
  <2> QED
    BY <2>5, <2>6 DEF CrawlInv
<1>2. CASE Parsed
  <2>1. /\ phase = "parse" /\ phase' = "dig" /\ Stored' = Stored \cup {cur.url}
    BY <1>2, ParsedStores
  <2>2. UNCHANGED <<urlLog, more, visited, known, queue, fetched, refused>>
    BY <1>2 DEF Parsed, histVars
  <2>3. /\ QueueInv' /\ more /\ urlLog = {} /\ cur.url \in fetched
        /\ fetched \subseteq Stored \cup {cur.url}
        /\ fetched \cup Stored \subseteq visited
    BY <2>1, <2>2, QueueFrame DEF CrawlInv, StoreInv, LoadInv, RoundInv
  <2> QED
    BY <2>1, <2>2, <2>3 DEF CrawlInv, StoreInv, LoadInv, RoundInv
<1> QED
  BY <1>1, <1>2

(* The rounds go on, and a signal arrives. *)
LEMMA RoundCrawl ==
    ASSUME DigTypeOK, CrawlInv,
           (\E s \in Servers : SkipServer(s)) \/ NewRound \/ Signal
    PROVE  CrawlInv'
<1>1. /\ phase \in {"dig", "parse"} /\ phase' = phase /\ cur' = cur
      /\ UNCHANGED <<docdb, urlLog, visited, known, queue, fetched, refused>>
  BY DEF SkipServer, IsNext, NewRound, Signal, fileVars, histVars
<1>2. QueueInv' /\ Stored' = Stored
  BY <1>1, QueueFrame DEF CrawlInv, Stored
<1>3. RoundInv'
  <2>1. CASE \E s \in Servers : SkipServer(s)
    BY <1>1, <2>1 DEF SkipServer, IsNext, CrawlInv, RoundInv
  <2>2. CASE NewRound
    BY <1>1, <2>2, QueueKnown DEF NewRound, CrawlInv, RoundInv
  <2>3. CASE Signal
    BY <1>1, <2>3 DEF Signal, CrawlInv, RoundInv
  <2> QED
    BY <2>1, <2>2, <2>3
<1> QED
  BY <1>1, <1>2, <1>3 DEF CrawlInv, StoreInv, LoadInv

(* A run that ends leaves a log that names what waits; one that is killed  *)
(* leaves the log it was reading, and the database as it was. *)
LEMMA EndCrawl ==
    ASSUME DigTypeOK, CrawlInv, Finish \/ DumpLog \/ Crash
    PROVE  CrawlInv'
<1>1. phase' = "down" /\ visited' = {} /\ Queued' = {} /\ QueueInv'
  BY ClearedQueues DEF Finish, DumpLog, Crash, CloseDb
<1>2. urlLog' # {} => LogInv'
  <2>1. CASE Finish
    <3>1. phase = "dig" /\ urlLog' = urlLog
      BY <2>1 DEF Finish
    <3> QED
      BY <3>1 DEF CrawlInv, StoreInv
  <2>2. CASE DumpLog
    <3>1. /\ phase = "dig" /\ urlLog' = Queued /\ disk' = docdb /\ docdb' = docdb
          /\ UNCHANGED <<fetched, refused>>
      BY <2>2 DEF DumpLog, CloseDb, histVars
    <3>2. /\ fetched \cup Stored \subseteq visited /\ fetched \subseteq Stored
          /\ Queued \cap fetched = {} /\ visited \subseteq Queued \cup fetched \cup refused
      BY <3>1 DEF CrawlInv, LoadInv, StoreInv, QueueInv, Found
    <3> QED
      BY <3>1, <3>2 DEF LogInv, Stored
  <2>3. CASE Crash
    <3>1. phase # "down" /\ LoseDb /\ UNCHANGED <<urlLog, fetched, refused>>
      BY <2>3 DEF Crash, histVars
    <3>2. urlLog # {} => phase = "log"
      BY <3>1 DEF CrawlInv, StoreInv, DigTypeOK
    <3>3. urlLog # {} => LogInv
      BY <3>2 DEF CrawlInv, LoadInv
    <3>4. docdb = disk => docdb' = docdb /\ disk' = disk
      BY <3>1 DEF LoseDb, DigTypeOK, FilesTypeOK
    <3> QED
      BY <3>1, <3>3, <3>4 DEF LogInv, Stored
  <2> QED
    BY <2>1, <2>2, <2>3
<1> QED
  BY <1>1, <1>2 DEF CrawlInv, LoadInv, StoreInv, RoundInv

(* The world changes, htdump is run, or nothing happens. *)
LEMMA WorldCrawl ==
    ASSUME CrawlInv, Htdump \/ World \/ UNCHANGED vars
    PROVE  CrawlInv'
<1>1. UNCHANGED <<phase, todo, restart, visited, known, queue, turn, more, cur,
                  docdb, disk, fetched, refused>>
  BY DEF Htdump, World, Publish, Outage, vars, fileVars, memVars, histVars
<1>2. urlLog' = urlLog \/ (phase = "down" /\ urlLog' = {})
  BY DEF Htdump, World, Publish, Outage, vars, fileVars
<1>3. QueueInv' /\ Stored' = Stored /\ Found' = Found
  BY <1>1, QueueFrame DEF CrawlInv, Stored
<1> QED
  BY <1>1, <1>2, <1>3 DEF CrawlInv, LoadInv, LogInv, StoreInv, RoundInv

(* No step of htdig breaks the invariant. *)
LEMMA CrawlStep == DigTypeOK /\ CrawlInv /\ [DigNext]_vars => CrawlInv'
<1> SUFFICES ASSUME DigTypeOK, CrawlInv, [DigNext]_vars PROVE CrawlInv'
  OBVIOUS
<1>1. CASE \E initial \in InitialFlags : Start(initial)
  BY <1>1, StartCrawl, DigAssumption
<1>2. CASE Load
  BY <1>2, LoadCrawl
<1>3. CASE \E s \in Servers : Retrieve(s)
  BY <1>3, RetrieveCrawl
<1>4. CASE GotHref \/ Parsed
  BY <1>4, ParseCrawl
<1>5. CASE (\E s \in Servers : SkipServer(s)) \/ NewRound \/ Signal
  BY <1>5, RoundCrawl
<1>6. CASE Finish \/ DumpLog \/ Crash
  BY <1>6, EndCrawl
<1>7. CASE Htdump \/ World \/ UNCHANGED vars
  BY <1>7, WorldCrawl
<1> QED
  BY <1>1, <1>2, <1>3, <1>4, <1>5, <1>6, <1>7 DEF DigNext, Work

(* Through every load, round, link, interruption and restart a URL that was *)
(* found is in a queue, in the log, among those a starting process has yet *)
(* to load, or was visited. *)
THEOREM CrawlInductive == DigSpec => []CrawlInv
BY InitCrawl, CrawlStep, TypeCorrect, PTL DEF DigSpec

(* However often a dig is stopped, killed and started again, nothing that  *)
(* it retrieved waits to be retrieved again, and nothing waits twice: the  *)
(* visited set, the queues and the log never disagree (Server::push,       *)
(* Retriever::Initial and the constructor, which reads the log). *)
THEOREM VisitsOnce == DigSpec => []NoSecondVisit
<1>1. CrawlInv => NoSecondVisit
  BY DEF CrawlInv, QueueInv, Orderly, NoSecondVisit
<1> QED
  BY <1>1, CrawlInductive, PTL

(* ... and no URL that the dig came across is lost: it waits, was          *)
(* retrieved, or was refused; and the log of an interrupted dig names all  *)
(* that waits. *)
THEOREM KeepsAll == DigSpec => []NothingForgotten
<1>1. CrawlInv => NothingForgotten
  BY DEF CrawlInv, QueueInv, LoadInv, LogInv, Found, Running, NothingForgotten
<1> QED
  BY <1>1, CrawlInductive, PTL

-----------------------------------------------------------------------------
(* An interrupted dig is one crawl. *)


(* What waits, phase by phase. *)
LEMMA WaitingIs ==
    /\ phase = "down" => Waiting = urlLog
    /\ phase = "log" => Waiting = todo \cup Queued
    /\ phase \in {"db", "start", "dig", "parse"} => Waiting = Queued
    /\ phase' = "down" => Waiting' = urlLog'
    /\ phase' = "log" => Waiting' = todo' \cup Queued'
    /\ phase' \in {"db", "start", "dig", "parse"} => Waiting' = Queued'
BY DEF Waiting

Stutters == UNCHANGED <<Waiting, fetched, refused, crashes>>

(* A new dig begins when nothing is left of the last one. *)
LEMMA StartRefines ==
    ASSUME CrawlInv, Start(FALSE)
    PROVE  TheCrawl!BeginDig \/ Stutters
<1>1. /\ phase = "down" /\ phase' = "log" /\ todo' = urlLog
      /\ UNCHANGED <<crashes, queue, urlLog>> /\ Queued = {}
  BY DEF Start, CrawlInv, LoadInv, QueueInv
<1>2. Queued' = Queued
  BY <1>1 DEF Queued
<1>3. Waiting = urlLog /\ Waiting' = urlLog
  BY <1>1, <1>2, WaitingIs
<1>4. CASE urlLog = {}
  <2>1. fetched' = {} /\ refused' = {}
    BY <1>4 DEF Start
  <2> QED
    BY <1>1, <1>3, <1>4, <2>1 DEF TheCrawl!BeginDig
<1>5. CASE urlLog # {}
  <2>1. UNCHANGED <<fetched, refused>>
    BY <1>5 DEF Start
  <2> QED
    BY <1>1, <1>3, <2>1 DEF Stutters
<1> QED
  BY <1>4, <1>5

(* What is loaded is found or refused, if it was not known before.         *)
LEMMA LoadRefines ==
    ASSUME DigTypeOK, CrawlInv, Load
    PROVE  (\E u \in URLs : TheCrawl!Find(u) \/ TheCrawl!Refuse(u)) \/ Stutters
<1> USE DEF CrawlInv
<1>1. ASSUME NEW u \in URLs, InitialLog(u)
      PROVE  TheCrawl!Refuse(u) \/ Stutters
  <2>1. /\ u \in todo /\ todo' = todo \ {u} /\ phase = "log" /\ phase' = "log"
        /\ Initial(u, TRUE, TRUE) /\ UNCHANGED <<fetched, crashes>>
    BY <1>1 DEF InitialLog, Initial, countVars
  <2>2. u \notin visited /\ u \notin fetched /\ u \notin Queued
    BY <2>1 DEF LoadInv, LogInv, QueueInv
  <2>3. \/ Queued' = Queued \cup {u} /\ UNCHANGED refused
        \/ Queued' = Queued /\ refused' = refused \cup {u}
    BY <2>1, <2>2, InitialFinds
  <2>4. Waiting = todo \cup Queued /\ Waiting' = todo' \cup Queued'
    BY <2>1, WaitingIs
  <2>5. CASE Queued' = Queued \cup {u} /\ UNCHANGED refused
    <3>1. Waiting' = Waiting
      BY <2>1, <2>4, <2>5
    <3> QED
      BY <2>1, <2>5, <3>1 DEF Stutters
  <2>6. CASE Queued' = Queued /\ refused' = refused \cup {u}
    <3>1. Waiting' = Waiting \ {u}
      BY <2>1, <2>2, <2>4, <2>6
    <3> QED
      BY <2>1, <2>2, <2>6, <3>1 DEF TheCrawl!Refuse
  <2> QED
    BY <2>3, <2>5, <2>6
<1>2. ASSUME NEW u \in URLs, InitialDb(u) \/ InitialStart(u)
      PROVE  TheCrawl!Find(u) \/ TheCrawl!Refuse(u) \/ Stutters
  <2>1. /\ u \in todo /\ phase \in {"db", "start"} /\ phase' = phase
        /\ UNCHANGED <<fetched, crashes>>
        /\ Waiting = Queued /\ Waiting' = Queued'
    BY <1>2, WaitingIs DEF InitialDb, InitialStart, Initial, countVars
  <2>2. \/ Queued' = Queued /\ UNCHANGED refused
        \/ /\ u \notin visited /\ u \notin fetched
           /\ \/ Queued' = Queued \cup {u} /\ UNCHANGED refused
              \/ Queued' = Queued /\ refused' = refused \cup {u}
    <3>1. CASE InitialDb(u)
      <4>1. phase = "db" /\ restart \in BOOLEAN /\ Initial(u, restart, ~restart)
        BY <3>1 DEF InitialDb, DigTypeOK
      <4>2. CASE restart
        BY <4>1, <4>2, InitialFinds
      <4>3. CASE ~restart
        <5>1. fetched = {} /\ u \notin visited
          BY <2>1, <4>1, <4>3 DEF LoadInv
        <5> QED
          BY <4>1, <4>3, <5>1, InitialFinds
      <4> QED
        BY <4>2, <4>3
    <3>2. CASE InitialStart(u)
      <4>1. phase = "start" /\ Initial(u, TRUE, TRUE)
        BY <3>2 DEF InitialStart
      <4>2. fetched \subseteq visited
        BY <4>1 DEF LoadInv
      <4> QED
        BY <4>1, <4>2, InitialFinds
    <3> QED
      BY <1>2, <3>1, <3>2
  <2>3. u \in Queued => u \in visited
    BY DEF QueueInv
  <2> QED
    BY <2>1, <2>2, <2>3 DEF TheCrawl!Find, TheCrawl!Refuse, Stutters
<1>3. CASE LogRead \/ DbRead \/ Loaded
  <2>1. UNCHANGED <<queue, fetched, refused, crashes>>
    BY <1>3 DEF LogRead, DbRead, Loaded, histVars, countVars
  <2>2. Queued' = Queued
    BY <2>1 DEF Queued
  <2>3. Waiting' = Waiting
    BY <1>3, <2>2, WaitingIs DEF LogRead, DbRead, Loaded
  <2> QED
    BY <2>1, <2>3 DEF Stutters
<1> QED
  BY <1>1, <1>2, <1>3 DEF Load

(* What is retrieved was waiting. *)
LEMMA RetrieveRefines ==
    ASSUME DigTypeOK, CrawlInv, NEW s \in Servers, Retrieve(s)
    PROVE  \E u \in URLs : TheCrawl!Visit(u)
<1> DEFINE u == Head(queue[s]).url
<1>1. /\ u \in Queued /\ fetched' = fetched \cup {u} /\ Finds(Queued \ {u})
  BY RetrieveFinds DEF CrawlInv
<1>2. phase = "dig" /\ phase' \in {"dig", "parse"} /\ u \in URLs
  BY RetrieveStores
<1>3. crashes' = crashes
  BY DEF Retrieve, RetrieveGone, RetrieveUnchanged, RetrieveUnauthorized,
         RetrieveRedirect, RetrievePage, Take, countVars
<1>4. Waiting = Queued /\ Waiting' = Queued'
  BY <1>2, WaitingIs
<1>5. Queued \cup fetched \subseteq visited
  BY <1>2 DEF CrawlInv, QueueInv, LoadInv
<1> HIDE DEF u
<1>6. TheCrawl!Visit(u)
  <2>1. CASE Queued' = Queued \ {u} /\ UNCHANGED <<visited, refused>>
    BY <1>1, <1>3, <1>4, <2>1 DEF TheCrawl!Visit
  <2>2. CASE ~(Queued' = Queued \ {u} /\ UNCHANGED <<visited, refused>>)
    <3>1. PICK v \in URLs \ visited :
             \/ Queued' = (Queued \ {u}) \cup {v} /\ UNCHANGED refused
             \/ Queued' = Queued \ {u} /\ refused' = refused \cup {v}
      BY <1>1, <2>2 DEF Finds
    <3>2. v \in URLs \ (Waiting \cup fetched)
      BY <1>4, <1>5, <3>1
    <3> QED
      BY <1>1, <1>3, <1>4, <3>1, <3>2 DEF TheCrawl!Visit
  <2> QED
    BY <2>1, <2>2
<1> QED
  BY <1>2, <1>6

(* A link is found, refused, or known before. *)
LEMMA GotHrefRefines ==
    ASSUME DigTypeOK, CrawlInv, GotHref
    PROVE  (\E u \in URLs : TheCrawl!Find(u) \/ TheCrawl!Refuse(u)) \/ Stutters
<1>1. Finds(Queued)
  BY GotHrefFinds DEF CrawlInv
<1>2. phase = "parse" /\ phase' = "parse" /\ UNCHANGED <<fetched, crashes>>
  BY DEF GotHref, countVars
<1>3. Waiting = Queued /\ Waiting' = Queued'
  BY <1>2, WaitingIs
<1>4. Queued \cup fetched \subseteq visited
  BY <1>2 DEF CrawlInv, QueueInv, LoadInv
<1>5. CASE Queued' = Queued /\ UNCHANGED <<visited, refused>>
  BY <1>2, <1>3, <1>5 DEF Stutters
<1>6. CASE ~(Queued' = Queued /\ UNCHANGED <<visited, refused>>)
  <2>1. PICK v \in URLs \ visited :
           \/ Queued' = Queued \cup {v} /\ UNCHANGED refused
           \/ Queued' = Queued /\ refused' = refused \cup {v}
    BY <1>1, <1>6 DEF Finds
  <2>2. v \notin Waiting /\ v \notin fetched
    BY <1>3, <1>4, <2>1
  <2> QED
    BY <1>2, <1>3, <2>1, <2>2 DEF TheCrawl!Find, TheCrawl!Refuse
<1> QED
  BY <1>5, <1>6

(* A run that ends by itself leaves nothing waiting: in its last round     *)
(* every server was looked at and had nothing. *)
LEMMA FinishRefines ==
    ASSUME CrawlInv, Finish
    PROVE  Stutters
<1>1. /\ phase = "dig" /\ ~more /\ turn = {} /\ phase' = "down" /\ urlLog' = urlLog
      /\ UNCHANGED <<fetched, refused, crashes>>
  BY DEF Finish, CloseDb, histVars, countVars
<1>2. \A s \in Servers : queue[s] = <<>>
  BY <1>1 DEF CrawlInv, RoundInv
<1>3. Queued = {}
  BY <1>2 DEF Queued
<1>4. urlLog = {}
  BY <1>1 DEF CrawlInv, StoreInv
<1> QED
  BY <1>1, <1>3, <1>4, WaitingIs DEF Stutters

(* A killed process forgets, or leaves the log that it was reading.        *)
LEMMA CrashRefines ==
    ASSUME DigTypeOK, CrawlInv, Crash
    PROVE  TheCrawl!Kill
<1>1. /\ phase # "down" /\ phase' = "down" /\ UNCHANGED <<urlLog, fetched, refused>>
      /\ crashes' = crashes + 1 /\ Waiting' = urlLog
  BY WaitingIs DEF Crash, histVars
<1>2. CASE urlLog = {}
  BY <1>1, <1>2 DEF TheCrawl!Kill
<1>3. CASE urlLog # {}
  <2>1. phase = "log"
    BY <1>1, <1>3 DEF CrawlInv, StoreInv, DigTypeOK
  <2>2. /\ urlLog = todo \cup visited /\ visited \subseteq Queued \cup fetched \cup refused
        /\ urlLog \cap fetched = {} /\ Waiting = todo \cup Queued
    BY <1>3, <2>1, WaitingIs DEF CrawlInv, LoadInv, LogInv, QueueInv, Found
  <2> QED
    BY <1>1, <2>2 DEF TheCrawl!Kill
<1> QED
  BY <1>2, <1>3

(* Every step of htdig is a step of the crawl, or none. *)
LEMMA StepRefines ==
    ASSUME InitialFlags \subseteq {FALSE}, ~UsesHtdump,
           DigTypeOK, CrawlInv, [DigNext]_vars
    PROVE  [TheCrawl!CrawlNext]_(TheCrawl!crawlVars)
<1> USE DEF TheCrawl!CrawlNext
<1>1. Stutters => UNCHANGED TheCrawl!crawlVars
  BY DEF Stutters, TheCrawl!crawlVars
<1>2. CASE \E initial \in InitialFlags : Start(initial)
  <2>1. Start(FALSE)
    BY <1>2
  <2> QED
    BY <1>1, <2>1, StartRefines
<1>3. CASE Load
  BY <1>1, <1>3, LoadRefines
<1>4. CASE \E s \in Servers : Retrieve(s)
  BY <1>4, RetrieveRefines
<1>5. CASE GotHref
  BY <1>1, <1>5, GotHrefRefines
<1>6. CASE Finish
  BY <1>1, <1>6, FinishRefines
<1>7. CASE Crash
  BY <1>7, CrashRefines
<1>8. CASE DumpLog
  <2>1. phase = "dig" /\ phase' = "down" /\ urlLog' = Queued
          /\ UNCHANGED <<fetched, refused, crashes>>
    BY <1>8 DEF DumpLog, CloseDb, histVars, countVars
  <2> QED
    BY <1>1, <2>1, WaitingIs DEF Stutters
<1>9. CASE (\E s \in Servers : SkipServer(s)) \/ NewRound \/ Signal \/ Parsed
  <2>1. /\ phase \in {"dig", "parse"} /\ phase' \in {"dig", "parse"}
        /\ UNCHANGED <<queue, fetched, refused, crashes>>
    BY <1>9 DEF SkipServer, IsNext, NewRound, Signal, Parsed, histVars, countVars
  <2>2. Queued' = Queued
    BY <2>1 DEF Queued
  <2> QED
    BY <1>1, <2>1, <2>2, WaitingIs DEF Stutters
<1>10. CASE World \/ UNCHANGED vars
  <2>1. UNCHANGED <<phase, todo, urlLog, queue, fetched, refused, crashes>>
    BY <1>10 DEF World, Publish, Outage, vars, fileVars, memVars, histVars,
       countVars
  <2> QED
    BY <1>1, <2>1 DEF Stutters, Waiting, Queued
<1>11. ~Htdump
  BY DEF Htdump
<1> QED
  BY <1>2, <1>3, <1>4, <1>5, <1>6, <1>7, <1>8, <1>9, <1>10, <1>11
     DEF DigNext, Work

(* As long as no new dig is forced over a log (-i) and htdump is not run,  *)
(* which unlinks the log, a dig with all its stops and restarts is one     *)
(* crawl: a URL waits until it is retrieved or refused, nothing retrieved  *)
(* waits again, a new dig begins only when nothing waits, and only a kill  *)
(* forgets. *)
THEOREM DigIsCrawl ==
    ASSUME InitialFlags \subseteq {FALSE}, ~UsesHtdump
    PROVE  DigSpec => OneCrawl
<1>1. DigInit => TheCrawl!CrawlInit
  BY DEF DigInit, FilesInit, TheCrawl!CrawlInit, Waiting
<1> QED
  BY <1>1, StepRefines, CrawlInductive, TypeCorrect, PTL
     DEF DigSpec, OneCrawl, TheCrawl!CrawlSpec

-----------------------------------------------------------------------------
(* The pages within so many clicks. *)

Below == {m \in Nat \X Nat : m[1] < m[2]}

(* A set of numbers that holds 0 and the successor of each holds all. *)
LEMMA FromZero ==
    ASSUME NEW P, 0 \in P, \A n \in P \cap Nat : n + 1 \in P
    PROVE  Nat \subseteq P
<1> SUFFICES ASSUME Nat \ P # {} PROVE FALSE
  OBVIOUS
<1>1. OpToRel(<, Nat) = Below
  BY DEF OpToRel, Below
<1>2. IsWellFoundedOn(Below, Nat)
  BY <1>1, NatLessThanWellFounded
<1>3. PICK x \in Nat \ P : \A y \in Nat \ P : ~(<<y, x>> \in Below)
  BY <1>2, WFMin
<1>4. x # 0 /\ x \in Nat /\ x - 1 \in Nat /\ x - 1 < x
  OBVIOUS
<1>5. <<x - 1, x>> \in Below
  BY <1>4 DEF Below
<1>6. x - 1 \in P
  BY <1>3, <1>4, <1>5
<1>7. (x - 1) + 1 \in P
  BY <1>4, <1>6
<1> QED
  BY <1>4, <1>7

(* The pages within so many clicks, one after the other. *)
Steps(f, n) ==
    f = [k \in 0..n |-> IF k = 0 THEN ThroughRedirects(StartURLs) ELSE Click(f[k - 1])]

(* The function that Within chooses exists. *)
LEMMA StepsExist == \A n \in Nat : \E f : Steps(f, n)
<1> DEFINE P == {n \in Nat : \E f : Steps(f, n)}
<1>1. 0 \in P
  <2> DEFINE g == [k \in 0..0 |-> ThroughRedirects(StartURLs)]
  <2>1. g = [k \in 0..0 |-> IF k = 0 THEN ThroughRedirects(StartURLs) ELSE Click(g[k - 1])]
    OBVIOUS
  <2>2. Steps(g, 0)
    BY <2>1 DEF Steps
  <2> QED
    BY <2>2
<1>2. ASSUME NEW n \in P PROVE n + 1 \in P
  <2>1. n \in Nat
    OBVIOUS
  <2>2. PICK f : Steps(f, n)
    OBVIOUS
  <2> HIDE DEF P
  <2> DEFINE g == [k \in 0..(n + 1) |-> IF k = n + 1 THEN Click(f[n]) ELSE f[k]]
  <2>3. \A k \in 0..n : g[k] = f[k]
    BY <2>1
  <2>4. g[n + 1] = Click(f[n])
    BY <2>1
  <2>5. \A k \in 0..n : f[k] = IF k = 0 THEN ThroughRedirects(StartURLs) ELSE Click(f[k - 1])
    BY <2>2 DEF Steps
  <2>6. ASSUME NEW k \in 0..(n + 1)
        PROVE  g[k] = IF k = 0 THEN ThroughRedirects(StartURLs) ELSE Click(g[k - 1])
    <3>1. CASE k = n + 1
      <4>1. k # 0 /\ k - 1 = n /\ n \in 0..n
        BY <2>1, <3>1
      <4> HIDE DEF g
      <4> QED
        BY <2>3, <2>4, <3>1, <4>1
    <3>2. CASE k # n + 1
      <4>1. k \in 0..n /\ (k # 0 => k - 1 \in 0..n)
        BY <2>1, <3>2
      <4> HIDE DEF g
      <4> QED
        BY <2>3, <2>5, <4>1
    <3> QED
      BY <3>1, <3>2
  <2>7. g = [k \in 0..(n + 1) |-> g[k]]
    OBVIOUS
  <2> HIDE DEF g
  <2>8. Steps(g, n + 1)
    BY <2>6, <2>7 DEF Steps
  <2> QED
    BY <2>1, <2>8 DEF P
<1> HIDE DEF P
<1>3. Nat \subseteq P
  BY <1>1, <1>2, FromZero
<1> QED
  BY <1>3 DEF P

(* There is one way to go so many clicks. *)
LEMMA StepsAgree ==
    ASSUME NEW m \in Nat, NEW n \in Nat, NEW f, NEW g, Steps(f, m), Steps(g, n), m <= n
    PROVE  f[m] = g[m]
<1> DEFINE P == {k \in Nat : k <= m => f[k] = g[k]}
<1>1. /\ \A k \in 0..m : f[k] = IF k = 0 THEN ThroughRedirects(StartURLs) ELSE Click(f[k - 1])
      /\ \A k \in 0..n : g[k] = IF k = 0 THEN ThroughRedirects(StartURLs) ELSE Click(g[k - 1])
  BY DEF Steps
<1>2. 0 \in P
  BY <1>1
<1>3. ASSUME NEW k \in P PROVE k + 1 \in P
  <2>1. CASE k + 1 <= m
    <3>1. k + 1 \in 0..m /\ k + 1 \in 0..n /\ (k + 1) - 1 = k /\ k + 1 # 0 /\ f[k] = g[k]
      BY <2>1
    <3>2. f[k + 1] = Click(f[(k + 1) - 1]) /\ g[k + 1] = Click(g[(k + 1) - 1])
      BY <1>1, <3>1
    <3> QED
      BY <3>1, <3>2
  <2> QED
    BY <2>1
<1> HIDE DEF P
<1>4. Nat \subseteq P
  BY <1>2, <1>3, FromZero
<1> QED
  BY <1>4 DEF P

(* Within counts clicks. *)
LEMMA WithinIs ==
    /\ Within(0) = ThroughRedirects(StartURLs)
    /\ \A n \in Nat : Within(n + 1) = Click(Within(n))
<1> DEFINE F(n) == CHOOSE f : Steps(f, n)
<1>1. \A n \in Nat : Steps(F(n), n)
  BY StepsExist
<1>2. \A n : Within(n) = F(n)[n]
  BY DEF Within, Steps
<1> HIDE DEF F
<1>3. \A n \in Nat : \A k \in 0..n :
         F(n)[k] = IF k = 0 THEN ThroughRedirects(StartURLs) ELSE Click(F(n)[k - 1])
  BY <1>1 DEF Steps
<1>4. Within(0) = ThroughRedirects(StartURLs)
  BY <1>2, <1>3
<1>5. ASSUME NEW n \in Nat PROVE Within(n + 1) = Click(Within(n))
  <2>1. n + 1 \in Nat /\ n + 1 \in 0..(n + 1) /\ n + 1 # 0 /\ (n + 1) - 1 = n /\ n <= n + 1
    OBVIOUS
  <2>2. F(n + 1)[n + 1] = Click(F(n + 1)[(n + 1) - 1])
    BY <1>3, <2>1
  <2>3. F(n)[n] = F(n + 1)[n]
    BY <1>1, <2>1, StepsAgree
  <2> QED
    BY <1>2, <2>1, <2>2, <2>3
<1> QED
  BY <1>4, <1>5

(* What redirects lead to is as near as they are. *)
LEMMA RedirectsStay ==
    ASSUME NEW X \in SUBSET URLs
    PROVE  /\ X \subseteq ThroughRedirects(X)
           /\ ThroughRedirects(X) \in SUBSET URLs
           /\ \A u \in ThroughRedirects(X) : Targets(u, {"redirect"}) \subseteq ThroughRedirects(X)
<1>1. \A u : Targets(u, {"redirect"}) \in SUBSET URLs
  BY DigAssumption DEF Targets
<1>2. ASSUME NEW u \in ThroughRedirects(X), NEW v \in Targets(u, {"redirect"})
      PROVE  v \in ThroughRedirects(X)
  <2> SUFFICES ASSUME NEW T \in SUBSET URLs, X \subseteq T,
                      \A x \in T : Targets(x, {"redirect"}) \subseteq T
               PROVE  v \in T
    BY <1>1 DEF ThroughRedirects
  <2>1. u \in T
    BY DEF ThroughRedirects
  <2> QED
    BY <2>1
<1> QED
  BY <1>2 DEF ThroughRedirects

(* What is within so many clicks, and what that leads to. *)
LEMMA WithinHas ==
    /\ StartURLs \subseteq Within(0)
    /\ \A n \in Nat : /\ Within(n) \in SUBSET URLs
                      /\ Within(n) \subseteq Within(n + 1)
                      /\ \A u \in Within(n) : /\ Targets(u, {"redirect"}) \subseteq Within(n)
                                              /\ Targets(u, {"ok"}) \subseteq Within(n + 1)
<1>1. \A u : Targets(u, {"ok"}) \in SUBSET URLs
  BY DigAssumption DEF Targets
<1>2. StartURLs \in SUBSET URLs
  BY DigAssumption
<1>3. Within(0) \in SUBSET URLs /\ StartURLs \subseteq Within(0)
        /\ \A u \in Within(0) : Targets(u, {"redirect"}) \subseteq Within(0)
  BY <1>2, WithinIs, RedirectsStay
<1>4. ASSUME NEW n \in Nat, Within(n) \in SUBSET URLs
      PROVE  /\ Within(n + 1) \in SUBSET URLs
             /\ Within(n) \subseteq Within(n + 1)
             /\ \A u \in Within(n) : Targets(u, {"ok"}) \subseteq Within(n + 1)
             /\ \A u \in Within(n + 1) : Targets(u, {"redirect"}) \subseteq Within(n + 1)
  <2> DEFINE X == Within(n) \cup UNION {Targets(u, {"ok"}) : u \in Within(n)}
  <2>1. X \in SUBSET URLs
    BY <1>1, <1>4
  <2>2. Within(n + 1) = ThroughRedirects(X)
    BY WithinIs DEF Click
  <2>3. Within(n) \subseteq X /\ \A u \in Within(n) : Targets(u, {"ok"}) \subseteq X
    OBVIOUS
  <2> HIDE DEF X
  <2> QED
    BY <2>1, <2>2, <2>3, RedirectsStay
<1> DEFINE P == {n \in Nat : /\ Within(n) \in SUBSET URLs
                             /\ \A u \in Within(n) : Targets(u, {"redirect"}) \subseteq Within(n)}
<1>5. 0 \in P
  BY <1>3
<1>6. \A n \in P \cap Nat : n + 1 \in P
  BY <1>4
<1> HIDE DEF P
<1>7. Nat \subseteq P
  BY <1>5, <1>6, FromZero
<1>8. \A n \in Nat : /\ Within(n) \in SUBSET URLs
                     /\ \A u \in Within(n) : Targets(u, {"redirect"}) \subseteq Within(n)
  BY <1>7 DEF P
<1> QED
  BY <1>3, <1>4, <1>8

(* The further the more. *)
LEMMA WithinGrows ==
    ASSUME NEW m \in Nat, NEW n \in Nat, m <= n
    PROVE  Within(m) \subseteq Within(n)
<1> DEFINE P == {k \in Nat : Within(m) \subseteq Within(m + k)}
<1>1. 0 \in P
  OBVIOUS
<1>2. ASSUME NEW k \in P PROVE k + 1 \in P
  <2>1. m + k \in Nat /\ m + (k + 1) = (m + k) + 1 /\ k \in Nat /\ k + 1 \in Nat
    OBVIOUS
  <2>2. Within(m + k) \subseteq Within((m + k) + 1)
    BY <2>1, WithinHas
  <2> QED
    BY <2>1, <2>2
<1> HIDE DEF P
<1>3. Nat \subseteq P
  BY <1>1, <1>2, FromZero
<1>4. n - m \in Nat /\ m + (n - m) = n
  OBVIOUS
<1> QED
  BY <1>3, <1>4 DEF P

(* A web that stands still has its pages where they were. *)
LEMMA SameWithin ==
    ASSUME web' = web
    PROVE  \A n : Within(n)' = Within(n)
  BY DEF Within, Click, ThroughRedirects, Targets

-----------------------------------------------------------------------------
(* What retrievals and links do to hop counts, records and queues.         *)

(* The hop count of the document an entry of a queue is for: the stored    *)
(* one, or that of the entry. *)
HopOf(r) == IF docdb[r.url] = NoDoc THEN r.hop ELSE docdb[r.url].hop

(* A retrieval fills in the record of the URL it took and keeps its hop    *)
(* count; the target of a redirect gets that count or keeps a lower one.   *)
HopsRetrieved(s, p) ==
    LET r == Head(queue[s])
        v == p.links[1]
    IN  \/ /\ phase' = "dig" /\ queue' = Popped(s)
           /\ UNCHANGED <<visited, refused, known>>
           /\ \E ref \in Doc : ref.hop = HopOf(r) /\ ref.got
                                 /\ docdb' = [docdb EXCEPT ![r.url] = ref]
           /\ Status(r.url, p) # "ok"
        \/ /\ phase' = "parse" /\ queue' = Popped(s)
           /\ UNCHANGED <<visited, refused, known>>
           /\ docdb' = docdb /\ Status(r.url, p) = "ok"
           /\ cur'.url = r.url /\ cur'.ref \in Doc /\ cur'.ref.hop = HopOf(r)
           /\ cur'.ref.got /\ cur'.left = p.links
        \/ /\ phase' = "dig" /\ Status(r.url, p) = "redirect" /\ v \in Limits /\ v \in URLs
           /\ \E ref, target \in Doc :
                /\ ref.hop = HopOf(r)
                /\ target.hop = IF docdb[v] = NoDoc THEN HopOf(r)
                                ELSE Lower(docdb[v].hop, HopOf(r))
                /\ docdb' = [docdb EXCEPT ![v] = target, ![r.url] = ref]
                /\ queue' = Popped(s) \/ Push(Popped(s), v, target.hop)

LEMMA RetrieveHops ==
    ASSUME DigTypeOK, NEW s \in Servers, Retrieve(s)
    PROVE  LET r == Head(queue[s])
           IN  /\ queue[s] # <<>> /\ r \in URLRef /\ r.url \in URLs /\ HopOf(r) \in Nat
               /\ phase = "dig" /\ fetched' = fetched \cup {r.url}
               /\ UNCHANGED <<urlLog, disk, todo, runs, web, down>>
               /\ \E p \in Answer :
                     /\ \/ p = WholeAnswer(r.url) /\ cut' = cut
                        \/ p \in CutAnswers(r.url) /\ cut' = cut \cup {r.url}
                     /\ HopsRetrieved(s, p)
<1>0. PICK p \in Heard(s) : \/ RetrieveGone(s, p) \/ RetrieveUnchanged(s, p)
                            \/ RetrieveUnauthorized(s, p)
                            \/ RetrieveRedirect(s, p) \/ RetrievePage(s, p)
  BY DEF Retrieve
<1> DEFINE r == Head(queue[s])
           u == r.url
           v == p.links[1]
           reg == Registered(r)
           id == AfterRegister(r)
<1>1. /\ Take(s, p) /\ p \in Answer /\ queue[s] # <<>> /\ phase = "dig" /\ fetched' = fetched \cup {u}
      /\ UNCHANGED <<urlLog, disk, todo, runs, web, down>>
  <2>1. Take(s, p)
    BY <1>0 DEF RetrieveGone, RetrieveUnchanged, RetrieveUnauthorized, RetrieveRedirect,
       RetrievePage
  <2> QED
    BY <2>1, HeardType DEF Take, IsNext, countVars, worldVars
<1>2. r \in URLRef /\ u \in URLs
  BY <1>1, TakenType
<1> DEFINE taken == \/ p = WholeAnswer(u) /\ cut' = cut
                    \/ p \in CutAnswers(u) /\ cut' = cut \cup {u}
<1>9. taken
  BY <1>1 DEF Take, Hear
<1> HIDE DEF taken
<1>3. /\ reg \in Doc /\ reg.hop \in Nat /\ reg.got = TRUE /\ id \in Nat
      /\ reg.descriptions \in SUBSET LinkTexts
  BY <1>2, RegisteredType
<1>4. reg.hop = HopOf(r)
  <2>1. docdb[u] # NoDoc => docdb[u] \in Doc
    BY <1>2 DEF DigTypeOK, FilesTypeOK
  <2> HIDE DEF r
  <2> QED
    BY <2>1 DEF Registered, HopOf, Fresh, Doc
<1> DEFINE hop == HopOf(r)
           st == Status(u, p)
<1> SUFFICES HopsRetrieved(s, p)
  BY <1>1, <1>2, <1>3, <1>4, <1>9 DEF taken
<1>5. CASE RetrieveGone(s, p)
  <2> DEFINE ref == [reg EXCEPT !.state = IF st = "not_html" THEN "normal" ELSE "not_found"]
  <2>1. /\ st \in {"not_found", "no_server", "not_html"} /\ phase' = phase
        /\ docdb' = [docdb EXCEPT ![u] = ref]
        /\ queue' = Popped(s) /\ UNCHANGED <<visited, refused, known>>
    BY <1>5 DEF RetrieveGone
  <2>2. ref \in Doc /\ ref.hop = hop /\ ref.got
    <3> HIDE DEF reg, hop
    <3> QED
      BY <1>3, <1>4 DEF Doc, States, hop
  <2> HIDE DEF reg, r, hop, st, ref
  <2> QED
    BY <1>1, <1>2, <1>3, <1>4, <2>1, <2>2 DEF HopsRetrieved, r, hop, st
<1>6. CASE RetrieveUnchanged(s, p) \/ RetrieveUnauthorized(s, p)
  <2>1. /\ st \in {"not_changed", "not_authorized"} /\ phase' = phase
        /\ docdb' = [docdb EXCEPT ![u] = reg]
        /\ queue' = Popped(s) /\ UNCHANGED <<visited, refused, known>>
    BY <1>6 DEF RetrieveUnchanged, RetrieveUnauthorized
  <2> HIDE DEF reg, r, hop, st
  <2> QED
    BY <1>1, <1>2, <1>3, <1>4, <2>1 DEF HopsRetrieved, r, hop, st
<1>7. CASE RetrievePage(s, p)
  <2> DEFINE ref == [reg EXCEPT !.id = IF Old(u) THEN nextID ELSE reg.id,
                                !.time = p.ver, !.head = p.head,
                                !.state = IF p.noindex THEN "noindex" ELSE "normal",
                                !.descriptions = IF Old(u) THEN {} ELSE @]
  <2>1. /\ st = "ok" /\ phase' = "parse"
        /\ cur' = [url |-> u, ref |-> ref, left |-> p.links, page |-> p]
        /\ queue' = Popped(s) /\ UNCHANGED <<docdb, visited, refused, known>>
    BY <1>7 DEF RetrievePage
  <2>2. ref \in Doc /\ ref.hop = hop /\ ref.got
    <3>1. p.ver \in Nat /\ p.head \in BOOLEAN /\ p.noindex \in BOOLEAN /\ nextID \in Nat
      BY <1>1 DEF DigTypeOK, Answer
    <3> HIDE DEF reg, hop
    <3> QED
      BY <1>3, <1>4, <3>1 DEF Doc, States, hop
  <2>3. cur'.url = u /\ cur'.ref = ref /\ cur'.left = p.links
    <3> HIDE DEF ref, u
    <3> QED
      BY <2>1
  <2> HIDE DEF reg, r, hop, st, ref
  <2> QED
    BY <1>1, <1>2, <1>3, <1>4, <2>1, <2>2, <2>3 DEF HopsRetrieved, r, hop, st
<1>8. CASE RetrieveRedirect(s, p)
  <2> DEFINE target == Linked(v, reg.hop, id, reg.descriptions)
  <2>1. st = "redirect" /\ phase' = phase
    BY <1>8 DEF RetrieveRedirect
  <2>2. CASE v \notin Limits
    <3>1. /\ docdb' = [docdb EXCEPT ![u] = reg]
          /\ queue' = Popped(s) /\ UNCHANGED <<visited, refused, known>>
      BY <1>8, <2>2 DEF RetrieveRedirect
    <3> HIDE DEF reg, r, hop, st, v
    <3> QED
      BY <1>1, <1>2, <1>3, <1>4, <2>1, <3>1 DEF HopsRetrieved, r, hop, st
  <2>3. CASE v \in Limits
    <3>1. /\ docdb' = [docdb EXCEPT ![v] = target, ![u] = reg] /\ v \in URLs
          /\ queue' = Popped(s) \/ Push(Popped(s), v, target.hop)
      BY <1>8, <2>3, DigAssumption DEF RetrieveRedirect
    <3>2. target \in Doc /\ target.hop = IF docdb[v] = NoDoc THEN hop
                                         ELSE Lower(docdb[v].hop, hop)
      <4>1. target \in Doc
        <5> HIDE DEF v, reg
        <5> QED
          BY <1>3, <3>1, LinkedType
      <4>2. docdb[v] # NoDoc => docdb[v] \in Doc
        BY <3>1 DEF DigTypeOK, FilesTypeOK
      <4> HIDE DEF v, reg, hop
      <4> QED
        BY <1>4, <4>1, <4>2 DEF Linked, Fresh, Doc, hop, target
    <3> HIDE DEF reg, r, hop, st, v, target
    <3> QED
      BY <1>1, <1>2, <1>3, <1>4, <2>1, <2>3, <3>1, <3>2 DEF HopsRetrieved, r, hop, st, v
  <2> QED
    BY <2>2, <2>3
<1> QED
  BY <1>0, <1>5, <1>6, <1>7, <1>8

(* A link that is followed registers its target one hop further on, or     *)
(* lowers its count; unless it was visited it is pushed with that count.   *)
LEMMA GotHrefHops ==
    ASSUME DigTypeOK, GotHref
    PROVE  LET v == Head(cur.left)
               h == cur.ref.hop + 1
           IN  /\ phase = "parse" /\ phase' = "parse" /\ cur \in Cur /\ cur.left # <<>>
               /\ cur'.url = cur.url /\ cur'.left = Tail(cur.left)
               /\ cur'.ref.hop = cur.ref.hop /\ cur'.ref.got = cur.ref.got
               /\ UNCHANGED <<urlLog, disk, todo, runs, web, down, fetched>>
               /\ \/ ~Follows(v, h) /\ UNCHANGED <<docdb, queue, visited, refused, known>>
                  \/ /\ Follows(v, h) /\ v \in URLs
                     /\ \E ref \in Doc :
                          /\ docdb' = [docdb EXCEPT ![v] = ref]
                          /\ ref.hop = IF docdb[v] = NoDoc THEN h ELSE Lower(docdb[v].hop, h)
                          /\ ref.got = (docdb[v] # NoDoc /\ docdb[v].got)
                          /\ IF v \in visited THEN UNCHANGED <<queue, visited, refused, known>>
                             ELSE Push(queue, v, ref.hop)
<1> DEFINE v == Head(cur.left)
           h == cur.ref.hop + 1
           ref == Linked(v, h, nextID, {LinkText(cur.url, cur.page.ver)})
<1>1. /\ phase = "parse" /\ phase' = "parse" /\ cur \in Cur /\ cur.left # <<>>
      /\ UNCHANGED <<urlLog, disk, todo, runs, web, down, fetched>>
  BY DEF GotHref, DigTypeOK, worldVars, countVars
<1>2. /\ cur'.url = cur.url /\ cur'.left = Tail(cur.left)
      /\ cur'.ref.hop = cur.ref.hop /\ cur'.ref.got = cur.ref.got
  <2> DEFINE self == v \in Limits /\ v = cur.url
             texts == {LinkText(cur.url, cur.page.ver)}
  <2>1. cur' = [cur EXCEPT !.left = Tail(@),
                           !.ref.descriptions = IF self THEN @ \cup texts ELSE @]
    BY DEF GotHref
  <2> HIDE DEF self, texts
  <2> QED
    BY <1>1, <2>1 DEF Cur, Doc
<1>3. CASE Follows(v, h)
  <2>1. docdb' = [docdb EXCEPT ![v] = ref]
    BY <1>3 DEF GotHref
  <2>2. IF v \in visited THEN UNCHANGED <<queue, visited, refused, known>>
        ELSE Push(queue, v, ref.hop)
    BY <1>3 DEF GotHref
  <2>3. /\ v \in URLs /\ h \in Nat /\ nextID \in Nat
        /\ {LinkText(cur.url, cur.page.ver)} \in SUBSET LinkTexts
    <3>1. v \in URLs /\ h \in Nat /\ nextID \in Nat
      BY <1>1, <1>3, DigAssumption DEF Cur, Doc, DigTypeOK, Follows
    <3> QED
      BY <1>1, <3>1, LinkTextType DEF Cur, Answer
  <2>4. ref \in Doc /\ ref.got = (docdb[v] # NoDoc /\ docdb[v].got)
    <3>1. ref \in Doc /\ (docdb[v] = NoDoc => ~ref.got)
             /\ (docdb[v] # NoDoc => ref.got = docdb[v].got)
      <4> HIDE DEF v, h
      <4> QED
        BY <2>3, LinkedType
    <3>2. ref.got \in BOOLEAN /\ (docdb[v] # NoDoc => docdb[v] \in Doc)
      BY <2>3, <3>1 DEF Doc, DigTypeOK, FilesTypeOK
    <3>3. docdb[v] # NoDoc => docdb[v].got \in BOOLEAN
      BY <3>2 DEF Doc
    <3> HIDE DEF v, h, ref
    <3> QED
      BY <3>1, <3>2, <3>3
  <2>5. ref.hop = IF docdb[v] = NoDoc THEN h ELSE Lower(docdb[v].hop, h)
    <3>1. docdb[v] # NoDoc => docdb[v] \in Doc
      BY <2>3 DEF DigTypeOK, FilesTypeOK
    <3> HIDE DEF v, h
    <3> QED
      BY <3>1 DEF Linked, Fresh, Doc, ref
  <2> HIDE DEF v, h, ref
  <2> QED
    BY <1>1, <1>2, <1>3, <2>1, <2>2, <2>3, <2>4, <2>5 DEF v, h
<1>4. CASE ~Follows(v, h)
  <2>1. UNCHANGED <<docdb, queue, visited, refused, known>>
    BY <1>4 DEF GotHref
  <2> HIDE DEF v, h
  <2> QED
    BY <1>1, <1>2, <1>4, <2>1 DEF v, h
<1> QED
  BY <1>3, <1>4

-----------------------------------------------------------------------------
(* Nothing beyond max_hop_count. *)

Reach == [n \in Nat |-> Within(n)]

(* What the last lemmas say, for a function of the number of clicks. *)
LEMMA ReachHas ==
    /\ \A n \in Nat : StartURLs \subseteq Reach[n] /\ Reach[n] = Within(n)
    /\ \A n \in Nat : \A u \in Reach[n] : /\ Targets(u, {"redirect"}) \subseteq Reach[n]
                                          /\ Targets(u, {"ok"}) \subseteq Reach[n + 1]
    /\ \A m, n \in Nat : m <= n => Reach[m] \subseteq Reach[n]
<1>1. \A n \in Nat : Reach[n] = Within(n)
  BY DEF Reach
<1>2. \A m, n \in Nat : m <= n => Reach[m] \subseteq Reach[n]
  BY <1>1, WithinGrows
<1>3. \A n \in Nat : StartURLs \subseteq Reach[n]
  BY <1>1, <1>2, WithinHas
<1> QED
  BY <1>1, <1>2, <1>3, WithinHas

(* ... which depends on the web only. *)
LEMMA SameReach == ASSUME web' = web PROVE Reach' = Reach
BY DEF Reach, Within, Click, ThroughRedirects, Targets

(* Everything a set of queues holds. *)
Entries(q) == {r \in URLRef : \E s \in Servers : \E i \in 1..Len(q[s]) : q[s][i] = r}

(* What is left when an entry is taken. *)
LEMMA PopEntries ==
    ASSUME NEW q \in [Servers -> Seq(URLRef)], NEW s \in Servers, q[s] # <<>>
    PROVE  /\ Head(q[s]) \in Entries(q)
           /\ Entries([q EXCEPT ![s] = Tail(@)]) \subseteq Entries(q)
<1> DEFINE p == [q EXCEPT ![s] = Tail(@)]
<1>1. q[s] \in Seq(URLRef) /\ Len(q[s]) \in Nat \ {0}
  OBVIOUS
<1>2. Head(q[s]) = q[s][1] /\ 1 \in 1..Len(q[s]) /\ q[s][1] \in URLRef
  BY <1>1
<1>3. /\ Len(p[s]) = Len(q[s]) - 1
      /\ \A i \in 1..Len(p[s]) : p[s][i] = q[s][i + 1] /\ i + 1 \in 1..Len(q[s])
  BY <1>1
<1>4. \A t \in Servers \ {s} : p[t] = q[t]
  OBVIOUS
<1> HIDE DEF p
<1>5. Entries(p) \subseteq Entries(q)
  <2> SUFFICES ASSUME NEW r \in URLRef, NEW t \in Servers, NEW i \in 1..Len(p[t]),
                      p[t][i] = r
               PROVE  \E k \in 1..Len(q[t]) : q[t][k] = r
    BY DEF Entries
  <2>1. CASE t = s
    BY <1>3, <2>1
  <2>2. CASE t # s
    BY <1>4, <2>2
  <2> QED
    BY <2>1, <2>2
<1> QED
  BY <1>2, <1>5 DEF p, Entries

(* After a push there may be one entry more. *)
LEMMA PushEntries ==
    ASSUME NEW q \in [Servers -> Seq(URLRef)], NEW u \in URLs, NEW h \in Nat, Push(q, u, h)
    PROVE  Entries(queue') \subseteq Entries(q) \cup {[url |-> u, hop |-> h]}
<1> DEFINE r == [url |-> u, hop |-> h]
           s == ServerOf[u]
<1>1. s \in Servers /\ r \in URLRef
  BY DigAssumption DEF URLRef
<1>2. CASE Refuses(u)
  BY <1>2 DEF Push
<1>3. CASE ~Refuses(u)
  <2>1. queue' = [q EXCEPT ![s] = Append(@, r)]
    BY <1>3 DEF Push
  <2> HIDE DEF r, s
  <2>2. q[s] \in Seq(URLRef)
    BY <1>1
  <2>3. \A i \in 1..Len(queue'[s]) :
          queue'[s][i] = r \/ (i \in 1..Len(q[s]) /\ queue'[s][i] = q[s][i])
    BY <1>1, <2>1, <2>2
  <2>4. \A t \in Servers \ {s} : queue'[t] = q[t]
    BY <1>1, <2>1
  <2> SUFFICES ASSUME NEW x \in URLRef, NEW t \in Servers, NEW i \in 1..Len(queue'[t]),
                      queue'[t][i] = x, x # r
               PROVE  \E k \in 1..Len(q[t]) : q[t][k] = x
    BY DEF Entries, r
  <2>5. CASE t = s
    BY <2>3, <2>5
  <2>6. CASE t # s
    BY <2>4, <2>6
  <2> QED
    BY <2>5, <2>6
<1> QED
  BY <1>2, <1>3

(* Stored hop counts are within max_hop_count, and no smaller than the     *)
(* distances. *)
Near(db) == \A u \in URLs : db[u] # NoDoc => db[u].hop <= MaxHops /\ u \in Reach[db[u].hop]

(* A URL that waits is near enough, and its record says so unless it has   *)
(* none yet because it comes from start_url. *)
MayWait(u) == u \in Reach[MaxHops] /\ (docdb[u] = NoDoc => u \in StartURLs)

Links(u) == {web[u].links[i] : i \in 1..Len(web[u].links)}

WaitInv ==
    /\ \A r \in Entries(queue) : r.hop <= MaxHops /\ MayWait(r.url)
    /\ \A u \in urlLog : MayWait(u)
    /\ phase = "start" => todo \subseteq StartURLs
    /\ runs = 0 => phase = "down" /\ urlLog = {}

ParseInv ==
    phase = "parse" =>
       /\ cur.ref.hop <= MaxHops
       /\ cur.url \in Reach[cur.ref.hop]
       /\ \A i \in 1..Len(cur.left) : web[cur.url].status = "ok" /\ cur.left[i] \in Links(cur.url)

NearInv == Near(docdb) /\ Near(disk) /\ fetched \subseteq Reach[MaxHops]

BeyondInv == NearInv /\ WaitInv /\ ParseInv

(* A signal may have cut answers short, but no Location. *)
LocationsWhole == \A u \in cut : web[u].status # "redirect"

(* The web stands still when no edits are made to it. *)
LEMMA WebStays == ASSUME Edits = {}, [DigNext]_vars PROVE web' = web
<1>1. CASE \E initial \in InitialFlags : Start(initial)
  BY <1>1 DEF Start, worldVars
<1>2. CASE Load
  BY <1>2 DEF Load, InitialLog, InitialDb, InitialStart, Initial, LogRead, DbRead, Loaded,
     worldVars
<1>3. CASE \E s \in Servers : SkipServer(s) \/ Retrieve(s)
  <2>1. CASE \E s \in Servers : SkipServer(s)
    BY <2>1 DEF SkipServer, worldVars
  <2>2. CASE \E s \in Servers : Retrieve(s)
    <3>1. PICK s \in Servers : Retrieve(s)
      BY <2>2
    <3>2. PICK p \in Heard(s) : Take(s, p)
      BY <3>1 DEF Retrieve, RetrieveGone, RetrieveUnchanged, RetrieveUnauthorized,
         RetrieveRedirect, RetrievePage
    <3> QED
      BY <3>2 DEF Take, worldVars
  <2> QED
    BY <1>3, <2>1, <2>2
<1>4. CASE NewRound \/ GotHref \/ Parsed \/ Finish \/ DumpLog \/ Signal \/ Crash \/ Htdump
  BY <1>4 DEF NewRound, GotHref, Parsed, Finish, DumpLog, Signal, Crash, Htdump, worldVars
<1>5. CASE World \/ UNCHANGED vars
  BY <1>5 DEF World, Publish, Outage, vars, worldVars
<1> QED
  BY <1>1, <1>2, <1>3, <1>4, <1>5 DEF DigNext, Work

(* A near document is stored. *)
LEMMA PutNear ==
    ASSUME NEW db \in [URLs -> Doc \cup {NoDoc}], Near(db), NEW u \in URLs, NEW ref \in Doc,
           ref.hop <= MaxHops, u \in Reach[ref.hop]
    PROVE  Near([db EXCEPT ![u] = ref])
BY DEF Near

(* More records, and the same web. *)
LEMMA StillMayWait ==
    ASSUME web' = web, Stored \subseteq Stored'
    PROVE  \A u \in URLs : MayWait(u) => MayWait(u)'
<1>1. Reach' = Reach
  BY SameReach
<1>2. \A u \in URLs : docdb'[u] = NoDoc => docdb[u] = NoDoc
  BY DEF Stored
<1> QED
  BY <1>1, <1>2 DEF MayWait

(* A retrieved URL was near, and so is what it redirects to. *)
LEMMA RetrieveBeyond ==
    ASSUME DigTypeOK, BeyondInv, NEW s \in Servers, Retrieve(s), LocationsWhole'
    PROVE  BeyondInv'
<1> SUFFICES ASSUME NEW r, r = Head(queue[s]), NEW u, u = r.url, NEW h, h = HopOf(r)
             PROVE  BeyondInv'
  OBVIOUS
<1>0. PICK p \in Answer : /\ \/ p = WholeAnswer(u) /\ cut' = cut
                             \/ p \in CutAnswers(u) /\ cut' = cut \cup {u}
                          /\ HopsRetrieved(s, p)
  BY RetrieveHops
<1> DEFINE v == p.links[1]
<1> HIDE DEF v
<1>1. /\ queue[s] # <<>> /\ r \in URLRef /\ u \in URLs /\ h \in Nat
      /\ phase = "dig" /\ fetched' = fetched \cup {u}
      /\ UNCHANGED <<urlLog, disk, todo, runs, web, down>>
  BY RetrieveHops
<1>2. Reach' = Reach
  BY <1>1, SameReach
<1>3. queue \in [Servers -> Seq(URLRef)] /\ docdb \in [URLs -> Doc \cup {NoDoc}]
  BY DEF DigTypeOK, FilesTypeOK
<1>4. r \in Entries(queue) /\ Entries(Popped(s)) \subseteq Entries(queue)
  BY <1>1, <1>3, PopEntries DEF Popped
<1>5. h <= MaxHops /\ u \in Reach[h] /\ u \in Reach[MaxHops] /\ MaxHops \in Nat
  <2>1. r.hop <= MaxHops /\ MayWait(u) /\ r.hop \in Nat /\ MaxHops \in Nat
    BY <1>1, <1>4, DigAssumption DEF BeyondInv, WaitInv, URLRef
  <2>2. CASE docdb[u] = NoDoc
    BY <2>1, <2>2, ReachHas DEF MayWait, HopOf
  <2>3. CASE docdb[u] # NoDoc
    BY <1>1, <2>1, <2>3 DEF HopOf, BeyondInv, NearInv, Near, MayWait
  <2> QED
    BY <2>2, <2>3
<1>6. Stored \subseteq Stored'
  BY RetrieveStores
<1>7. \A w \in URLs : MayWait(w) => MayWait(w)'
  BY <1>1, <1>6, StillMayWait
<1>8. ASSUME Entries(queue') \subseteq Entries(queue)
      PROVE  \A x \in Entries(queue)' : x.hop <= MaxHops /\ MayWait(x.url)'
  <2>1. Entries(queue)' = Entries(queue')
    BY DEF Entries
  <2>2. \A x \in Entries(queue) : x.url \in URLs
    BY DEF Entries, URLRef
  <2> QED
    BY <1>7, <1>8, <2>1, <2>2 DEF BeyondInv, WaitInv
<1>9. \A w \in urlLog' : MayWait(w)'
  BY <1>1, <1>7 DEF BeyondInv, WaitInv, DigTypeOK, FilesTypeOK
<1>10. fetched' \subseteq Reach'[MaxHops] /\ Near(disk)'
  BY <1>1, <1>2, <1>5 DEF BeyondInv, NearInv, Near
<1>11. Near(docdb) /\ runs' # 0
  BY <1>1 DEF BeyondInv, NearInv, WaitInv
<1>15. /\ p.status = "ok" => p.links = <<>> \/ (web[u].status = "ok" /\ p.links = web[u].links)
       /\ p.status = "redirect" =>
            \/ p.links = <<u>>
            \/ web[u].status = "redirect" /\ p.links = web[u].links
  <2>1. web[u] \in Page /\ web'[u] = web[u]
    BY <1>1 DEF DigTypeOK
  <2>2. CASE p = WholeAnswer(u)
    BY <2>1, <2>2 DEF WholeAnswer, Page
  <2>3. CASE p \in CutAnswers(u) /\ u \in cut'
    <3>1. web[u].status # "redirect"
      BY <2>1, <2>3 DEF LocationsWhole
    <3>2. CASE p \in Failures(u)
      BY <2>1, <3>2 DEF Failures, Page
    <3>3. CASE p \in HalfRedirects(u)
      BY <2>1, <3>1, <3>3 DEF HalfRedirects, Page
    <3>4. CASE p \in HalfPages(u)
      BY <2>1, <3>4 DEF HalfPages, Plain, Page
    <3> QED
      BY <2>3, <3>2, <3>3, <3>4 DEF CutAnswers
  <2> QED
    BY <1>0, <2>2, <2>3
<1>12. CASE /\ phase' = "dig" /\ queue' = Popped(s)
            /\ \E ref \in Doc : ref.hop = h /\ docdb' = [docdb EXCEPT ![u] = ref]
  <2>1. Near(docdb')
    <3>1. PICK ref \in Doc : ref.hop = h /\ docdb' = [docdb EXCEPT ![u] = ref]
      BY <1>12
    <3>2. Near([docdb EXCEPT ![u] = ref])
      BY <1>1, <1>3, <1>5, <1>11, <3>1, PutNear
    <3> QED
      BY <3>1, <3>2 DEF Near
  <2>2. Near(docdb)'
    BY <1>2, <2>1 DEF Near
  <2> QED
    BY <1>4, <1>8, <1>9, <1>10, <1>11, <1>12, <2>2 DEF BeyondInv, NearInv, WaitInv, ParseInv
<1>13. CASE /\ phase' = "parse" /\ queue' = Popped(s) /\ docdb' = docdb /\ Status(u, p) = "ok"
            /\ cur'.url = u /\ cur'.ref.hop = h /\ cur'.left = p.links
  <2>1. Near(docdb)'
    BY <1>2, <1>11, <1>13 DEF Near
  <2>2. p.status = "ok"
    BY <1>13 DEF Status
  <2>3. \A i \in 1..Len(cur'.left) : web'[u].status = "ok" /\ cur'.left[i] \in Links(u)'
    BY <1>1, <1>13, <1>15, <2>2 DEF Links
  <2>4. ParseInv'
    BY <1>2, <1>5, <1>13, <2>3 DEF ParseInv, Links
  <2> QED
    BY <1>4, <1>8, <1>9, <1>10, <1>11, <1>13, <2>1, <2>4 DEF BeyondInv, NearInv, WaitInv
<1>14. CASE /\ phase' = "dig" /\ Status(u, p) = "redirect" /\ v \in Limits /\ v \in URLs
            /\ \E ref, target \in Doc :
                  /\ ref.hop = h
                  /\ target.hop = IF docdb[v] = NoDoc THEN h ELSE Lower(docdb[v].hop, h)
                  /\ docdb' = [docdb EXCEPT ![v] = target, ![u] = ref]
                  /\ queue' = Popped(s) \/ Push(Popped(s), v, target.hop)
  <2>1. PICK ref \in Doc, target \in Doc :
                  /\ ref.hop = h
                  /\ target.hop = IF docdb[v] = NoDoc THEN h ELSE Lower(docdb[v].hop, h)
                  /\ docdb' = [docdb EXCEPT ![v] = target, ![u] = ref]
                  /\ queue' = Popped(s) \/ Push(Popped(s), v, target.hop)
    BY <1>14
  <2>2. p.status = "redirect" /\ web[u] \in Page
    BY <1>1, <1>14 DEF Status, DigTypeOK
  <2>3. v = u \/ v \in Targets(u, {"redirect"})
    <3>1. CASE p.links = <<u>>
      BY <3>1 DEF v
    <3>2. CASE web[u].status = "redirect" /\ p.links = web[u].links
      <4>1. web[u].links # <<>> /\ web[u].links \in Seq(URLs)
        BY <2>2, <3>2 DEF Page
      <4>2. 1 \in 1..Len(web[u].links) /\ v = web[u].links[1]
        BY <3>2, <4>1 DEF v
      <4> QED
        BY <1>14, <3>2, <4>2 DEF Targets
    <3> QED
      BY <1>15, <2>2, <3>1, <3>2
  <2>4. v \in Reach[h]
    BY <1>1, <1>5, <2>3, ReachHas
  <2>5. target.hop \in Nat /\ target.hop <= MaxHops /\ v \in Reach[target.hop]
    <3>1. CASE docdb[v] = NoDoc
      BY <1>1, <1>5, <2>1, <2>4, <3>1
    <3>2. CASE docdb[v] # NoDoc
      <4>1. docdb[v].hop <= MaxHops /\ v \in Reach[docdb[v].hop] /\ docdb[v].hop \in Nat
        BY <1>3, <1>11, <1>14, <3>2 DEF Near, Doc
      <4> QED
        BY <1>1, <1>5, <2>1, <2>4, <3>2, <4>1 DEF Lower
    <3> QED
      BY <3>1, <3>2
  <2> DEFINE db == [docdb EXCEPT ![v] = target]
  <2>6. docdb' = [db EXCEPT ![u] = ref]
    BY <2>1
  <2>7. db \in [URLs -> Doc \cup {NoDoc}] /\ Near(db)
    BY <1>3, <1>11, <1>14, <2>5, PutNear
  <2> HIDE DEF db
  <2>8. Near(docdb')
    <3>1. Near([db EXCEPT ![u] = ref])
      BY <1>1, <1>5, <2>1, <2>7, PutNear
    <3> QED
      BY <2>6, <3>1 DEF Near
  <2>9. Near(docdb)'
    BY <1>2, <2>8 DEF Near
  <2>10. \A x \in Entries(queue)' : x.hop <= MaxHops /\ MayWait(x.url)'
    <3>1. CASE queue' = Popped(s)
      BY <1>4, <1>8, <3>1
    <3>2. CASE Push(Popped(s), v, target.hop)
      <4>1. Popped(s) \in [Servers -> Seq(URLRef)]
        BY <1>1, TakenType
      <4>2. Entries(queue') \subseteq Entries(Popped(s)) \cup {[url |-> v, hop |-> target.hop]}
        BY <1>14, <2>5, <3>2, <4>1, PushEntries
      <4>3. docdb'[v] # NoDoc
        BY <1>1, <1>3, <1>14, <2>1, DigAssumption
      <4>4. MayWait(v)'
        <5>1. v \in Reach[MaxHops]
          BY <1>5, <2>5, ReachHas
        <5> QED
          BY <1>2, <4>3, <5>1 DEF MayWait
      <4>5. \A x \in Entries(queue) : x.hop <= MaxHops /\ MayWait(x.url)'
        <5>1. \A x \in Entries(queue) : x.url \in URLs
          BY DEF Entries, URLRef
        <5> QED
          BY <1>7, <5>1 DEF BeyondInv, WaitInv
      <4>6. Entries(queue)' = Entries(queue')
        BY DEF Entries
      <4>7. ASSUME NEW x \in Entries(queue') PROVE x.hop <= MaxHops /\ MayWait(x.url)'
        <5>1. CASE x \in Entries(queue)
          BY <4>5, <5>1
        <5>2. CASE x = [url |-> v, hop |-> target.hop]
          <6>1. x.url = v /\ x.hop = target.hop
            BY <5>2
          <6>2. MayWait(x.url)'
            BY <4>4, <6>1 DEF MayWait
          <6> QED
            BY <2>5, <6>1, <6>2
        <5> QED
          BY <1>4, <4>2, <5>1, <5>2
      <4> QED
        BY <4>6, <4>7
    <3> QED
      BY <2>1, <3>1, <3>2
  <2> QED
    BY <1>9, <1>10, <1>11, <1>14, <2>9, <2>10 DEF BeyondInv, NearInv, WaitInv, ParseInv
<1> QED
  BY <1>0, <1>12, <1>13, <1>14 DEF HopsRetrieved, v

(* What is pushed with a near record may wait. *)
LEMMA PushWaits ==
    ASSUME NEW q \in [Servers -> Seq(URLRef)], NEW v \in URLs, NEW h \in Nat, Push(q, v, h),
           web' = web, Stored \subseteq Stored', h <= MaxHops, MayWait(v)',
           \A x \in Entries(q) : x.hop <= MaxHops /\ MayWait(x.url)
    PROVE  \A x \in Entries(queue)' : x.hop <= MaxHops /\ MayWait(x.url)'
<1>1. Entries(queue)' = Entries(queue')
  BY DEF Entries
<1>2. Entries(queue') \subseteq Entries(q) \cup {[url |-> v, hop |-> h]}
  BY PushEntries
<1>3. \A w \in URLs : MayWait(w) => MayWait(w)'
  BY StillMayWait
<1> SUFFICES ASSUME NEW x \in Entries(queue') PROVE x.hop <= MaxHops /\ MayWait(x.url)'
  BY <1>1
<1>4. CASE x \in Entries(q)
  <2>1. x.url \in URLs
    BY <1>4 DEF Entries, URLRef
  <2> QED
    BY <1>3, <1>4, <2>1
<1>5. CASE x = [url |-> v, hop |-> h]
  BY <1>5
<1> QED
  BY <1>2, <1>4, <1>5

(* What waits still may when nothing is pushed. *)
LEMMA FewerWait ==
    ASSUME web' = web, Stored \subseteq Stored', WaitInv, Entries(queue') \subseteq Entries(queue)
    PROVE  \A x \in Entries(queue)' : x.hop <= MaxHops /\ MayWait(x.url)'
<1>1. Entries(queue)' = Entries(queue')
  BY DEF Entries
<1>2. \A w \in URLs : MayWait(w) => MayWait(w)'
  BY StillMayWait
<1>3. \A x \in Entries(queue) : x.url \in URLs
  BY DEF Entries, URLRef
<1> QED
  BY <1>1, <1>2, <1>3 DEF WaitInv

(* What a near page links to is followed when it is near, too (got_href    *)
(* compares the hop count of the link with max_hop_count). *)
LEMMA ParseBeyond ==
    ASSUME DigTypeOK, BeyondInv, GotHref \/ Parsed
    PROVE  BeyondInv'
<1>1. docdb \in [URLs -> Doc \cup {NoDoc}] /\ queue \in [Servers -> Seq(URLRef)]
  BY DEF DigTypeOK, FilesTypeOK
<1>2. CASE GotHref
  <2> SUFFICES ASSUME NEW u, u = cur.url, NEW v, v = Head(cur.left), NEW h, h = cur.ref.hop + 1
               PROVE  BeyondInv'
    OBVIOUS
  <2>1. /\ phase = "parse" /\ phase' = "parse" /\ cur \in Cur /\ cur.left # <<>>
        /\ cur'.url = u /\ cur'.left = Tail(cur.left) /\ cur'.ref.hop = cur.ref.hop
        /\ UNCHANGED <<urlLog, disk, todo, runs, web, down, fetched>>
    BY <1>2, GotHrefHops
  <2>2. /\ cur.ref.hop \in Nat /\ u \in URLs /\ cur.left \in Seq(URLs) /\ h \in Nat
        /\ cur.ref.hop <= MaxHops /\ u \in Reach[cur.ref.hop]
        /\ \A i \in 1..Len(cur.left) : web[u].status = "ok" /\ cur.left[i] \in Links(u)
    BY <2>1 DEF Cur, Doc, BeyondInv, ParseInv
  <2>3. Reach' = Reach /\ Stored \subseteq Stored'
    BY <1>2, <2>1, SameReach, GotHrefStores
  <2>4. v = cur.left[1] /\ v \in Links(u) /\ web[u].status = "ok"
         /\ \A i \in 1..Len(cur'.left) : cur'.left[i] \in Links(u)
    BY <2>1, <2>2
  <2>5. ParseInv'
    BY <2>1, <2>2, <2>3, <2>4 DEF ParseInv, Links
  <2>6. \A w \in urlLog' : MayWait(w)'
    BY <2>1, <2>3, StillMayWait DEF BeyondInv, WaitInv, DigTypeOK, FilesTypeOK
  <2>7. Near(disk)' /\ fetched' \subseteq Reach'[MaxHops] /\ Near(docdb) /\ WaitInv
    BY <2>1, <2>3 DEF BeyondInv, NearInv, Near
  <2>8. CASE UNCHANGED <<docdb, queue>>
    <3>1. Near(docdb)'
      BY <2>3, <2>7, <2>8 DEF Near
    <3>2. \A x \in Entries(queue)' : x.hop <= MaxHops /\ MayWait(x.url)'
      BY <2>1, <2>3, <2>7, <2>8, FewerWait
    <3> QED
      BY <2>1, <2>3, <2>5, <2>6, <2>7, <3>1, <3>2 DEF BeyondInv, NearInv, WaitInv
  <2>9. CASE /\ Follows(v, h) /\ v \in URLs
             /\ \E ref \in Doc : /\ docdb' = [docdb EXCEPT ![v] = ref]
                                 /\ ref.hop = IF docdb[v] = NoDoc THEN h
                                              ELSE Lower(docdb[v].hop, h)
                                 /\ IF v \in visited THEN UNCHANGED queue
                                    ELSE Push(queue, v, ref.hop)
    <3>1. PICK ref \in Doc : /\ docdb' = [docdb EXCEPT ![v] = ref]
                             /\ ref.hop = IF docdb[v] = NoDoc THEN h ELSE Lower(docdb[v].hop, h)
                             /\ IF v \in visited THEN UNCHANGED queue
                                ELSE Push(queue, v, ref.hop)
      BY <2>9
    <3>2. h <= MaxHops /\ v \in Limits
      BY <2>9 DEF Follows
    <3>3. v \in Reach[h]
      <4>1. v \in Targets(u, {"ok"})
        BY <2>2, <2>4, <3>2 DEF Targets, Links
      <4> QED
        BY <2>2, <4>1, ReachHas
    <3>4. ref.hop \in Nat /\ ref.hop <= MaxHops /\ v \in Reach[ref.hop]
      <4>1. CASE docdb[v] = NoDoc
        BY <2>2, <3>1, <3>2, <3>3, <4>1
      <4>2. CASE docdb[v] # NoDoc
        <5>1. docdb[v].hop <= MaxHops /\ v \in Reach[docdb[v].hop] /\ docdb[v].hop \in Nat
          BY <1>1, <2>7, <2>9, <4>2 DEF Near, Doc
        <5> QED
          BY <2>2, <3>1, <3>2, <3>3, <4>2, <5>1 DEF Lower
      <4> QED
        BY <4>1, <4>2
    <3>5. Near(docdb')
      <4>1. Near([docdb EXCEPT ![v] = ref])
        BY <1>1, <2>7, <2>9, <3>4, PutNear
      <4> QED
        BY <3>1, <4>1 DEF Near
    <3>6. Near(docdb)'
      BY <2>3, <3>5 DEF Near
    <3>7. MayWait(v)'
      <4>1. v \in Reach[MaxHops] /\ docdb'[v] # NoDoc
        BY <1>1, <2>9, <3>1, <3>4, ReachHas, DigAssumption
      <4> QED
        BY <2>3, <4>1 DEF MayWait
    <3>8. \A x \in Entries(queue)' : x.hop <= MaxHops /\ MayWait(x.url)'
      <4>1. CASE v \in visited
        <5>1. Entries(queue') \subseteq Entries(queue)
          BY <3>1, <4>1
        <5> QED
          BY <2>1, <2>3, <2>7, <5>1, FewerWait
      <4>2. CASE v \notin visited
        BY <1>1, <2>1, <2>3, <2>7, <2>9, <3>1, <3>4, <3>7, <4>2, PushWaits DEF WaitInv
      <4> QED
        BY <4>1, <4>2
    <3> QED
      BY <2>1, <2>3, <2>5, <2>6, <2>7, <3>6, <3>8 DEF BeyondInv, NearInv, WaitInv
  <2> QED
    BY <1>2, <2>8, <2>9, GotHrefHops
<1>3. CASE Parsed
  <2> SUFFICES ASSUME NEW u, u = cur.url, NEW ref, ref = cur.ref PROVE BeyondInv'
    OBVIOUS
  <2>1. /\ phase = "parse" /\ phase' = "dig" /\ docdb' = [docdb EXCEPT ![u] = ref]
        /\ UNCHANGED <<urlLog, disk, todo, runs, web, fetched, queue>>
    BY <1>3 DEF Parsed, countVars, worldVars, histVars
  <2>2. ref \in Doc /\ u \in URLs /\ ref.hop <= MaxHops /\ u \in Reach[ref.hop]
    BY <2>1 DEF DigTypeOK, Cur, BeyondInv, ParseInv
  <2>3. Reach' = Reach /\ Stored \subseteq Stored'
    BY <1>3, <2>1, SameReach, ParsedStores
  <2>4. Near(disk)' /\ fetched' \subseteq Reach'[MaxHops] /\ Near(docdb) /\ WaitInv
    BY <2>1, <2>3 DEF BeyondInv, NearInv, Near
  <2>5. Near([docdb EXCEPT ![u] = ref])
    BY <1>1, <2>2, <2>4, PutNear
  <2>6. Near(docdb)'
    BY <2>1, <2>3, <2>5 DEF Near
  <2>7. \A x \in Entries(queue)' : x.hop <= MaxHops /\ MayWait(x.url)'
    BY <2>1, <2>3, <2>4, FewerWait
  <2>8. \A w \in urlLog' : MayWait(w)'
    BY <2>1, <2>3, StillMayWait DEF BeyondInv, WaitInv, DigTypeOK, FilesTypeOK
  <2> QED
    BY <2>1, <2>4, <2>6, <2>7, <2>8 DEF BeyondInv, NearInv, WaitInv, ParseInv
<1> QED
  BY <1>2, <1>3

(* What is loaded comes from a log, a database or start_url, and all three *)
(* name what is near only. *)
LEMMA LoadBeyond ==
    ASSUME DigTypeOK, CrawlInv, BeyondInv, Load
    PROVE  BeyondInv'
<1>1. ASSUME NEW u \in URLs, NEW skip, NEW pushes, Initial(u, skip, pushes),
             phase = "start" => u \in StartURLs, MayWait(u)
      PROVE  BeyondInv'
  <2>1. /\ todo' = todo \ {u} /\ UNCHANGED <<docdb, disk, urlLog, phase, cur, web, runs, fetched>>
        /\ \/ queue' = queue
           \/ Push(queue, u, 0)
    BY <1>1 DEF Initial, fileVars, worldVars, countVars
  <2>2. Reach' = Reach /\ Stored' = Stored
    BY <2>1, SameReach DEF Stored
  <2>3. Near(docdb)' /\ Near(disk)' /\ fetched' \subseteq Reach'[MaxHops] /\ WaitInv /\ ParseInv'
    BY <2>1, <2>2 DEF BeyondInv, NearInv, ParseInv, Near, Links
  <2>4. \A x \in Entries(queue)' : x.hop <= MaxHops /\ MayWait(x.url)'
    <3>1. CASE queue' = queue
      BY <2>1, <2>2, <2>3, <3>1, FewerWait
    <3>2. CASE Push(queue, u, 0)
      <4>1. queue \in [Servers -> Seq(URLRef)] /\ 0 \in Nat /\ 0 <= MaxHops
        BY DigAssumption DEF DigTypeOK
      <4>2. MayWait(u)'
        BY <1>1, <2>1, <2>2, StillMayWait
      <4> QED
        BY <2>1, <2>2, <2>3, <3>2, <4>1, <4>2, PushWaits DEF WaitInv
    <3> QED
      BY <2>1, <3>1, <3>2
  <2>5. \A w \in urlLog' : MayWait(w)'
    BY <2>1, <2>2, StillMayWait DEF BeyondInv, WaitInv, DigTypeOK, FilesTypeOK
  <2> QED
    BY <2>1, <2>3, <2>4, <2>5 DEF BeyondInv, NearInv, WaitInv
<1>2. ASSUME NEW u \in URLs, InitialLog(u) PROVE BeyondInv'
  <2>1. u \in todo /\ phase = "log" /\ Initial(u, TRUE, TRUE)
    BY <1>2 DEF InitialLog, Initial
  <2>2. u \in urlLog
    BY <2>1 DEF CrawlInv, LoadInv
  <2>3. MayWait(u)
    BY <2>2 DEF BeyondInv, WaitInv
  <2> QED
    BY <1>1, <2>1, <2>3
<1>3. ASSUME NEW u \in URLs, InitialDb(u) PROVE BeyondInv'
  <2>1. u \in todo /\ phase = "db" /\ Initial(u, restart, ~restart)
    BY <1>3 DEF InitialDb, Initial
  <2>2. docdb[u] # NoDoc /\ docdb[u].hop <= MaxHops /\ u \in Reach[docdb[u].hop] /\ docdb[u] \in Doc
    BY <2>1 DEF CrawlInv, LoadInv, Stored, BeyondInv, NearInv, Near, DigTypeOK, FilesTypeOK
  <2>3. MayWait(u)
    BY <2>2, ReachHas, DigAssumption DEF MayWait, Doc
  <2> QED
    BY <1>1, <2>1, <2>3
<1>4. ASSUME NEW u \in URLs, InitialStart(u) PROVE BeyondInv'
  <2>1. u \in StartURLs /\ Initial(u, TRUE, TRUE)
    BY <1>4 DEF InitialStart, Initial, BeyondInv, WaitInv
  <2>2. MayWait(u)
    BY <2>1, ReachHas, DigAssumption DEF MayWait
  <2> QED
    BY <1>1, <2>1, <2>2
<1>5. CASE LogRead \/ DbRead \/ Loaded
  <2>1. /\ UNCHANGED <<docdb, disk, queue, web, runs, fetched>>
        /\ urlLog' \subseteq urlLog /\ phase' # "parse" /\ phase # "down"
        /\ phase' = "start" => todo' = StartURLs
    BY <1>5 DEF LogRead, DbRead, Loaded, fileVars, worldVars, countVars, histVars
  <2>2. Reach' = Reach /\ Stored' = Stored
    BY <2>1, SameReach DEF Stored
  <2>3. Near(docdb)' /\ Near(disk)' /\ fetched' \subseteq Reach'[MaxHops] /\ WaitInv /\ ParseInv'
    BY <2>1, <2>2 DEF BeyondInv, NearInv, ParseInv, Near
  <2>4. \A x \in Entries(queue)' : x.hop <= MaxHops /\ MayWait(x.url)'
    BY <2>1, <2>2, <2>3, FewerWait
  <2>5. \A w \in urlLog' : MayWait(w)'
    BY <2>1, <2>2, StillMayWait DEF BeyondInv, WaitInv, DigTypeOK, FilesTypeOK
  <2> QED
    BY <2>1, <2>3, <2>4, <2>5 DEF BeyondInv, NearInv, WaitInv
<1> QED
  BY <1>2, <1>3, <1>4, <1>5 DEF Load

(* No entries without queues. *)
LEMMA NoEntries == ASSUME ClearMemory PROVE Entries(queue)' = {}
<1>1. queue' = [s \in Servers |-> <<>>]
  BY DEF ClearMemory
<1> QED
  BY <1>1 DEF Entries

(* A run that begins without -i takes the records as they were.            *)
LEMMA StartBeyond ==
    ASSUME DigTypeOK, BeyondInv, CrawlInv, web' = web, NEW initial \in BOOLEAN, Start(initial),
           ~initial \/ runs = 0
    PROVE  BeyondInv'
<1>1. /\ phase = "down" /\ phase' = "log" /\ runs' = runs + 1 /\ UNCHANGED <<queue, urlLog, web>>
      /\ Reach' = Reach /\ runs \in Nat
  BY SameReach DEF Start, DigTypeOK
<1>2. fetched' \subseteq Reach'[MaxHops]
  BY <1>1 DEF Start, BeyondInv, NearInv
<1>3. Queued = {}
  BY <1>1 DEF CrawlInv, QueueInv, LoadInv
<1>4. Entries(queue) = {}
  BY <1>3 DEF Queued, Entries, URLRef
<1>5. Entries(queue)' = {}
  BY <1>1, <1>4 DEF Entries
<1>6. CASE ~initial
  <2>1. docdb' = docdb /\ disk' = disk
    BY <1>6 DEF Start
  <2> QED
    BY <1>1, <1>2, <1>5, <2>1
       DEF BeyondInv, NearInv, WaitInv, ParseInv, Near, MayWait
<1>7. CASE initial
  <2>1. docdb' = [u \in URLs |-> NoDoc] /\ disk' = docdb' /\ urlLog' = {}
    BY <1>1, <1>7 DEF Start, BeyondInv, WaitInv
  <2> QED
    BY <1>1, <1>2, <1>5, <2>1 DEF BeyondInv, NearInv, WaitInv, ParseInv, Near
<1> QED
  BY <1>6, <1>7

(* A run that ends leaves near records, and logs what waits. *)
LEMMA EndBeyond ==
    ASSUME DigTypeOK, CrawlInv, BeyondInv, web' = web, Finish \/ DumpLog \/ Crash
    PROVE  BeyondInv'
<1>1. /\ phase' = "down" /\ ClearMemory /\ UNCHANGED <<web, runs, fetched>>
  BY DEF Finish, DumpLog, Crash, CloseDb, countVars, histVars
<1>2. Reach' = Reach /\ Entries(queue)' = {}
  BY <1>1, SameReach, NoEntries
<1>3. Near(docdb)' /\ Near(disk)'
  <2>1. CASE Finish \/ DumpLog
    <3>1. docdb' = docdb /\ disk' = docdb
      BY <2>1 DEF Finish, DumpLog, CloseDb
    <3> QED
      BY <1>2, <3>1 DEF BeyondInv, NearInv, Near
  <2>2. CASE Crash
    <3>1. PICK kept \in SUBSET URLs :
             docdb' = [u \in URLs |-> IF u \in kept THEN docdb[u] ELSE disk[u]] /\ disk' = docdb'
      BY <2>2 DEF Crash, LoseDb
    <3> QED
      BY <1>2, <3>1 DEF BeyondInv, NearInv, Near
  <2> QED
    BY <2>1, <2>2
<1>4. runs' # 0
  BY <1>1 DEF Finish, DumpLog, Crash, BeyondInv, WaitInv
<1>5. \A u \in urlLog' : MayWait(u)'
  <2>1. CASE Finish
    BY <1>2, <2>1 DEF Finish, CloseDb, BeyondInv, WaitInv, MayWait
  <2>2. CASE DumpLog
    <3>1. urlLog' = Queued /\ docdb' = docdb
      BY <2>2 DEF DumpLog, CloseDb
    <3>2. ASSUME NEW u \in Queued PROVE MayWait(u)
      <4>1. PICK s \in Servers : \E i \in 1..Len(queue[s]) : queue[s][i].url = u
        BY DEF Queued
      <4>2. PICK i \in 1..Len(queue[s]) : queue[s][i].url = u
        BY <4>1
      <4>3. queue[s][i] \in URLRef
        BY DEF DigTypeOK
      <4>4. queue[s][i] \in Entries(queue)
        BY <4>3 DEF Entries
      <4> QED
        BY <4>2, <4>4 DEF BeyondInv, WaitInv
    <3> QED
      BY <1>2, <3>1, <3>2 DEF MayWait
  <2>3. CASE Crash
    <3>1. phase # "down" /\ LoseDb /\ urlLog' = urlLog
      BY <2>3 DEF Crash
    <3>2. urlLog # {} => phase = "log"
      BY <3>1 DEF CrawlInv, StoreInv, DigTypeOK
    <3>3. urlLog # {} => LogInv
      BY <3>2 DEF CrawlInv, LoadInv
    <3>4. urlLog # {} => docdb' = docdb
      BY <3>1, <3>3 DEF LoseDb, LogInv, DigTypeOK, FilesTypeOK
    <3> QED
      BY <1>2, <3>1, <3>4 DEF BeyondInv, WaitInv, MayWait
  <2> QED
    BY <2>1, <2>2, <2>3
<1> QED
  BY <1>1, <1>2, <1>3, <1>4, <1>5 DEF BeyondInv, NearInv, WaitInv, ParseInv

(* htdump may unlink the log, servers come and go. *)
LEMMA OtherBeyond ==
    ASSUME DigTypeOK, BeyondInv, web' = web,
           (\E s \in Servers : SkipServer(s)) \/ NewRound \/ Signal \/ Htdump \/ World
             \/ UNCHANGED vars
    PROVE  BeyondInv'
<1>1. /\ UNCHANGED <<docdb, disk, queue, runs, fetched, phase, todo, cur>>
      /\ urlLog' \subseteq urlLog
  BY DEF SkipServer, IsNext, NewRound, Signal, Htdump, World, Publish, Outage, vars, fileVars, memVars,
     countVars, histVars
<1>2. Reach' = Reach /\ Entries(queue)' = Entries(queue)
  BY <1>1, SameReach DEF Entries
<1>3. NearInv' /\ ParseInv'
  BY <1>1, <1>2 DEF BeyondInv, NearInv, Near, ParseInv, Links
<1>4. \A w : MayWait(w)' = MayWait(w)
  BY <1>1, <1>2 DEF MayWait
<1>5. WaitInv'
  BY <1>1, <1>2, <1>4 DEF BeyondInv, WaitInv, MayWait
<1> QED
  BY <1>3, <1>5 DEF BeyondInv

(* At first there is nothing. *)
LEMMA InitBeyond == DigInit => BeyondInv
<1> SUFFICES ASSUME DigInit PROVE BeyondInv
  OBVIOUS
<1>1. /\ docdb = [u \in URLs |-> NoDoc] /\ disk = docdb /\ urlLog = {} /\ phase = "down"
      /\ queue = [s \in Servers |-> <<>>] /\ fetched = {}
  BY DEF DigInit, FilesInit, MemInit
<1>2. Entries(queue) = {}
  BY <1>1 DEF Entries
<1> QED
  BY <1>1, <1>2 DEF BeyondInv, NearInv, Near, WaitInv, ParseInv

(* A new dig is only forced (-i) when there is no log it could mistake for *)
(* its own: the first time, or never. *)
NoForcedRestart == InitialFlags \subseteq {FALSE} \/ MaxRuns <= 1

(* No step of htdig goes beyond. *)
LEMMA BeyondStep ==
    ASSUME Edits = {}, NoForcedRestart, DigTypeOK, CrawlInv, BeyondInv, [DigNext]_vars,
           LocationsWhole'
    PROVE  BeyondInv'
<1>1. web' = web
  BY WebStays
<1>2. ASSUME NEW initial \in InitialFlags, Start(initial) PROVE BeyondInv'
  <2>1. initial \in BOOLEAN /\ runs < MaxRuns /\ runs \in Nat /\ MaxRuns \in Nat
    BY <1>2, DigAssumption DEF Start, DigTypeOK
  <2>2. MaxRuns <= 1 => runs = 0
    BY <2>1
  <2>3. ~initial \/ runs = 0
    BY <2>1, <2>2 DEF NoForcedRestart
  <2> QED
    BY <1>1, <1>2, <2>1, <2>3, StartBeyond
<1>3. CASE Load
  BY <1>3, LoadBeyond
<1>4. CASE \E s \in Servers : Retrieve(s)
  BY <1>4, RetrieveBeyond
<1>5. CASE GotHref \/ Parsed
  BY <1>5, ParseBeyond
<1>6. CASE Finish \/ DumpLog \/ Crash
  BY <1>1, <1>6, EndBeyond
<1>7. CASE (\E s \in Servers : SkipServer(s)) \/ NewRound \/ Signal \/ Htdump \/ World
             \/ UNCHANGED vars
  BY <1>1, <1>7, OtherBeyond
<1> QED
  BY <1>2, <1>3, <1>4, <1>5, <1>6, <1>7 DEF DigNext, Work

(* The answers that were cut short stay in the history. *)
LEMMA CutGrows ==
    ASSUME [DigNext]_vars
    PROVE  cut \subseteq cut'
<1>1. CASE \E initial \in InitialFlags : Start(initial)
  BY <1>1 DEF Start
<1>2. CASE Load
  BY <1>2 DEF Load, InitialLog, InitialDb, InitialStart, Initial, LogRead, DbRead, Loaded, histVars
<1>3. CASE \E s \in Servers : Retrieve(s)
  <2>1. PICK s \in Servers : Retrieve(s)
    BY <1>3
  <2>2. \E u : cut' = cut \/ cut' = cut \cup {u}
    <3>1. PICK p \in Heard(s) : Take(s, p)
      BY <2>1 DEF Retrieve, RetrieveGone, RetrieveUnchanged, RetrieveUnauthorized,
         RetrieveRedirect, RetrievePage
    <3> QED
      BY <3>1 DEF Take, Hear
  <2> QED
    BY <2>2
<1>4. CASE \E s \in Servers : SkipServer(s)
  BY <1>4 DEF SkipServer, histVars
<1>5. CASE NewRound \/ GotHref \/ Parsed \/ Finish \/ DumpLog \/ Signal \/ Crash \/ Htdump
  BY <1>5 DEF NewRound, GotHref, Parsed, Finish, DumpLog, Signal, Crash, Htdump, histVars
<1>6. CASE World \/ UNCHANGED vars
  BY <1>6 DEF World, Publish, Outage, vars, histVars
<1> QED
  BY <1>1, <1>2, <1>3, <1>4, <1>5, <1>6 DEF DigNext, Work

(* In every dig of a web that stands still, with any redirects, servers    *)
(* that come and go, stops, kills and restarts, what is stored, retrieved, *)
(* queued or logged is within max_hop_count clicks of start_url, as long   *)
(* as no signal made a redirect lead elsewhere. *)
THEOREM BeyondInductive ==
    ASSUME Edits = {}, NoForcedRestart
    PROVE  DigSpec => [](LocationsWhole => BeyondInv)
<1>1. DigInit => BeyondInv
  BY InitBeyond
<1>2. DigTypeOK /\ CrawlInv /\ (LocationsWhole => BeyondInv) /\ [DigNext]_vars
        => (LocationsWhole => BeyondInv)'
  <2> SUFFICES ASSUME DigTypeOK, CrawlInv, LocationsWhole => BeyondInv, [DigNext]_vars,
                      LocationsWhole'
               PROVE  BeyondInv'
    OBVIOUS
  <2>1. LocationsWhole
    BY WebStays, CutGrows DEF LocationsWhole
  <2> QED
    BY <2>1, BeyondStep
<1> QED
  BY <1>1, <1>2, CrawlInductive, TypeCorrect, PTL DEF DigSpec

(* Nothing is asked for that is too far away, and no document is further   *)
(* away than its record says. *)
OnlyNear ==
    /\ fetched \cup Queued \subseteq Within(MaxHops)
    /\ \A u \in Stored : docdb[u].hop <= MaxHops /\ u \in Within(docdb[u].hop)

(* Whatever interrupts it, a dig asks for nothing further away than        *)
(* max_hop_count clicks and stores no hop count that is too small: a       *)
(* document is at most as far away as its record says (got_href,           *)
(* got_redirect, parse_url and the constructor, which reads the log and    *)
(* the database back).  Answers that signals cut short change nothing of   *)
(* that, unless one cut the Location of a redirect (Connection.cc:438). *)
THEOREM NothingBeyond ==
    ASSUME Edits = {}, NoForcedRestart
    PROVE  DigSpec => [](LocationsWhole => OnlyNear)
<1>1. ASSUME DigTypeOK, BeyondInv
      PROVE  OnlyNear
  <2>1. Reach[MaxHops] = Within(MaxHops)
    BY ReachHas, DigAssumption
  <2>2. ASSUME NEW u \in Queued PROVE u \in Reach[MaxHops]
    <3>1. PICK s \in Servers : \E i \in 1..Len(queue[s]) : queue[s][i].url = u
      BY DEF Queued
    <3>2. PICK i \in 1..Len(queue[s]) : queue[s][i].url = u
      BY <3>1
    <3>3. queue[s][i] \in URLRef
      BY <1>1 DEF DigTypeOK
    <3>4. queue[s][i] \in Entries(queue)
      BY <3>3 DEF Entries
    <3> QED
      BY <1>1, <3>2, <3>4 DEF BeyondInv, WaitInv, MayWait
  <2>3. ASSUME NEW u \in Stored PROVE docdb[u].hop <= MaxHops /\ u \in Within(docdb[u].hop)
    <3>1. docdb[u] \in Doc /\ docdb[u].hop <= MaxHops /\ u \in Reach[docdb[u].hop]
      BY <1>1 DEF BeyondInv, NearInv, Near, Stored, DigTypeOK, FilesTypeOK
    <3>2. docdb[u].hop \in Nat
      BY <3>1 DEF Doc
    <3> QED
      BY <3>1, <3>2, ReachHas
  <2> QED
    BY <1>1, <2>1, <2>2, <2>3 DEF BeyondInv, NearInv, OnlyNear
<1> QED
  BY <1>1, BeyondInductive, TypeCorrect, PTL

-----------------------------------------------------------------------------
(* The dig of one server's web, begun once and, if it was stopped, started *)
(* again once.  Redirects are left out, since their target waits behind    *)
(* URLs that are further away, and so is a start page that a page links to *)
(* before it is retrieved, since its record begins with the hop count of   *)
(* that link. *)

(* One server that is always up, a web that stands still and has no        *)
(* redirects, and no start page with a link to another start page. *)
PlainWeb ==
    /\ \E s : Servers = {s}
    /\ Edits = {} /\ Flaky = {} /\ ~UsesHtdump /\ NoForcedRestart
    /\ \A u \in URLs : Web0[u].status # "redirect"
    /\ \A u \in StartURLs : \A i \in 1..Len(Web0[u].links) :
          Web0[u].status = "ok" /\ Web0[u].links[i] \in StartURLs \cap Limits =>
              Web0[u].links[i] = u

Unlimited == MaxDocs = -1 /\ Disallowed = {}

(* A restart may retrieve a page one click from the start before a start   *)
(* page, so such pages must not link to start pages either. *)
StartsApart == \A u \in Within(1) : Targets(u, {"ok"}) \cap StartURLs \subseteq {u}

(* The first run if no limit kept it from a URL, or the run after it; none *)
(* was killed, and no signal cut a retrieval short (Connection.cc:438).    *)
OneRestart ==
    /\ crashes = 0 /\ refused = {} /\ cut = {}
    /\ runs <= 1 \/ (runs = 2 /\ StartsApart /\ Unlimited)

CalmInv == web = Web0 /\ down = {} /\ (cut = {} => bad = {})

NotStarted ==
    runs = 0 => /\ phase = "down" /\ urlLog = {} /\ Stored = {}
                /\ fetched = {} /\ refused = {}

Loading == phase \in {"log", "db", "start"}

(* The hop count a URL has or will get when it is retrieved: a start page  *)
(* without a record has none. *)
HopNow == [u \in URLs |-> IF docdb[u] = NoDoc THEN 0 ELSE docdb[u].hop]

(* 1 when what waits was, or is, in a log: it is read back in any order.   *)
Slack == IF runs = 0 \/ (runs = 1 /\ phase # "down") THEN 0 ELSE 1

(* Breadth first, up to d: of what waits the first part is between m and   *)
(* m + d clicks away and the second, which was found from the first, one   *)
(* more.  In a first run d is 0. *)
InOrder(q, hop, m, d) ==
    \E k \in 0..Len(q) : \A i \in 1..Len(q) :
        IF i <= k THEN m <= hop[q[i].url] /\ hop[q[i].url] <= m + d
        ELSE m + 1 <= hop[q[i].url] /\ hop[q[i].url] <= m + 1 + d

Known(v, h) == docdb[v] # NoDoc /\ docdb[v].hop <= h

(* All that a page links to is known to be at most one click further.      *)
Relaxed(u) ==
    docdb[u].hop + 1 <= MaxHops =>
        \A v \in Targets(u, {"ok"}) \ {u} : Known(v, docdb[u].hop + 1)

Done == IF phase = "parse" THEN fetched \ {cur.url} ELSE fetched

StartsAtZero == \A u \in Stored \cap StartURLs : docdb[u].hop = 0

NewUnseen == \A u \in Stored : docdb[u].got => u \in fetched

(* From the start of a run until all is loaded, and from the stop of the   *)
(* first run on: either this is a restart and all that waits is about as   *)
(* far away, or nothing is known. *)
LoadingInv ==
    Loading \/ (phase = "down" /\ urlLog # {} /\ runs <= 1) =>
       /\ \E m \in Nat :
             /\ \A u \in Waiting : m <= HopNow[u] /\ HopNow[u] <= m + Slack
             /\ \A u \in fetched : Relaxed(u) /\ docdb[u].hop <= m + Slack
       /\ \A r \in Entries(queue) : r.hop = 0
       /\ NewUnseen /\ StartsAtZero
       /\ \/ /\ Waiting # {} /\ StartURLs \subseteq Waiting \cup fetched
             /\ phase = "db" => restart
          \/ /\ Stored = {} /\ fetched = {} /\ urlLog = {}
             /\ phase = "start" => StartURLs \subseteq todo \cup visited

(* What was retrieved, and the page that is parsed, is no further away     *)
(* than the first part of what waits. *)
DiggingInv ==
    Running =>
       /\ StartURLs \subseteq visited
       /\ \A r \in Entries(queue) : docdb[r.url] = NoDoc => r.hop = 0
       /\ NewUnseen /\ StartsAtZero
       /\ \E m \in Nat :
             /\ \A s \in Servers : InOrder(queue[s], HopNow, m, Slack)
             /\ \A u \in Done : Relaxed(u) /\ docdb[u].hop <= m + Slack
             /\ phase = "parse" => m <= cur.ref.hop /\ cur.ref.hop <= m + Slack

(* While a page is parsed the links it had so far are known. *)
LinksInv ==
    phase = "parse" =>
       /\ docdb[cur.url] # NoDoc => docdb[cur.url].hop = cur.ref.hop
       /\ cur.url \in StartURLs => cur.ref.hop = 0
       /\ cur.ref.hop + 1 <= MaxHops =>
             \A v \in Targets(cur.url, {"ok"}) \ {cur.url} :
                 Known(v, cur.ref.hop + 1) \/ \E k \in 1..Len(cur.left) : cur.left[k] = v

Searching == ~DigDone /\ LoadingInv /\ DiggingInv /\ LinksInv

(* The search is over: nothing is found any more, in this run or a later   *)
(* one. *)
Settled ==
    /\ StartURLs \cup todo \cup urlLog \cup Queued \subseteq Stored
    /\ \A u \in Stored : Relaxed(u)
    /\ StartsAtZero
    /\ phase = "parse" => docdb[cur.url] # NoDoc /\ docdb[cur.url].hop = cur.ref.hop
    /\ DigDone => Stored \subseteq fetched

NeverRefused == Unlimited /\ cut = {} => refused = {}

BreadthInv ==
    CalmInv /\ NotStarted /\ NeverRefused /\ (OneRestart => Searching \/ Settled)

-----------------------------------------------------------------------------
(* Distances and what waits in order. *)

(* Without redirects the start URLs are all that is no click away.         *)
LEMMA NoRedirects ==
    ASSUME \A u \in URLs : web[u].status # "redirect", NEW X \in SUBSET URLs
    PROVE  ThroughRedirects(X) = X
<1>1. \A u \in URLs : Targets(u, {"redirect"}) = {}
  BY DEF Targets
<1>2. ThroughRedirects(X) \subseteq X
  BY <1>1 DEF ThroughRedirects
<1> QED
  BY <1>2, RedirectsStay

(* ... and one click adds what the pages so far link to. *)
LEMMA PlainReach ==
    ASSUME \A u \in URLs : web[u].status # "redirect"
    PROVE  /\ Reach[0] = StartURLs
           /\ \A n \in Nat :
                 Reach[n + 1] = Reach[n] \cup UNION {Targets(u, {"ok"}) : u \in Reach[n]}
<1>1. StartURLs \in SUBSET URLs
  BY DigAssumption
<1>2. Reach[0] = StartURLs
  BY <1>1, NoRedirects, ReachHas, WithinIs
<1>3. ASSUME NEW n \in Nat
      PROVE  Reach[n + 1] = Reach[n] \cup UNION {Targets(u, {"ok"}) : u \in Reach[n]}
  <2> DEFINE X == Within(n) \cup UNION {Targets(u, {"ok"}) : u \in Within(n)}
  <2>1. X \in SUBSET URLs
    <3>1. \A u : Targets(u, {"ok"}) \in SUBSET URLs
      BY DigAssumption DEF Targets
    <3>2. Within(n) \in SUBSET URLs
      BY WithinHas
    <3> QED
      BY <3>1, <3>2
  <2>2. Within(n + 1) = ThroughRedirects(X)
    BY WithinIs DEF Click
  <2>3. Within(n + 1) = X
    <3> HIDE DEF X
    <3> QED
      BY <2>1, <2>2, NoRedirects
  <2>4. Reach[n] = Within(n) /\ Reach[n + 1] = Within(n + 1)
    BY ReachHas
  <2> QED
    BY <2>3, <2>4
<1> QED
  BY <1>2, <1>3

(* Whatever is taken from the front is in the first part, which may begin  *)
(* with it. *)
LEMMA TakeFirst ==
    ASSUME NEW q \in Seq(URLRef), q # <<>>, NEW hop \in [URLs -> Nat], NEW m \in Nat,
           NEW d \in {0, 1}, InOrder(q, hop, m, d)
    PROVE  \E n \in Nat : /\ m <= n /\ InOrder(Tail(q), hop, n, d)
                          /\ n <= hop[Head(q).url] /\ hop[Head(q).url] <= n + d
<1> DEFINE h(i) == hop[q[i].url]
           p == Tail(q)
<1>1. PICK k \in 0..Len(q) : \A i \in 1..Len(q) :
             IF i <= k THEN m <= h(i) /\ h(i) <= m + d ELSE m + 1 <= h(i) /\ h(i) <= m + 1 + d
  BY DEF InOrder
<1>2. /\ Len(q) \in Nat \ {0} /\ Len(p) = Len(q) - 1 /\ Head(q) = q[1]
      /\ \A i \in 1..Len(p) : p[i] = q[i + 1] /\ i + 1 \in 1..Len(q)
  OBVIOUS
<1>3. \A i \in 1..Len(q) : h(i) \in Nat
  <2>1. \A i \in 1..Len(q) : q[i] \in URLRef
    OBVIOUS
  <2> QED
    BY <2>1 DEF URLRef
<1>4. \A i \in 1..Len(p) : hop[p[i].url] = h(i + 1)
  BY <1>2
<1> HIDE DEF h, p
<1>5. CASE k # 0
  <2>1. k - 1 \in 0..Len(p) /\ 1 \in 1..Len(q) /\ 1 <= k
    BY <1>2, <1>5
  <2>2. \A i \in 1..Len(p) : IF i <= k - 1 THEN m <= hop[p[i].url] /\ hop[p[i].url] <= m + d
                             ELSE m + 1 <= hop[p[i].url] /\ hop[p[i].url] <= m + 1 + d
    BY <1>1, <1>2, <1>4, <2>1
  <2>3. InOrder(p, hop, m, d)
    BY <2>1, <2>2 DEF InOrder
  <2>4. m <= h(1) /\ h(1) <= m + d
    BY <1>1, <2>1
  <2> QED
    BY <1>2, <2>3, <2>4 DEF h, p
<1>6. CASE k = 0
  <2>1. \A i \in 1..Len(q) : m + 1 <= h(i) /\ h(i) <= m + 1 + d
    BY <1>1, <1>6
  <2>2. \A i \in 1..Len(p) : m + 1 <= hop[p[i].url] /\ hop[p[i].url] <= m + 1 + d
    BY <1>2, <1>4, <2>1
  <2>3. InOrder(p, hop, m + 1, d)
    <3>1. Len(p) \in 0..Len(p) /\ \A i \in 1..Len(p) : i <= Len(p)
      BY <1>2
    <3> QED
      BY <2>2, <3>1 DEF InOrder
  <2>4. m + 1 \in Nat /\ m <= m + 1 /\ 1 \in 1..Len(q)
    BY <1>2
  <2> QED
    BY <1>2, <2>1, <2>3, <2>4 DEF h, p
<1> QED
  BY <1>1, <1>5, <1>6

(* A hop count of what waits may be lowered to that of the second part: no *)
(* count of the first part is larger. *)
LEMMA LowerLast ==
    ASSUME NEW q \in Seq(URLRef), NEW hop \in [URLs -> Nat], NEW new \in [URLs -> Nat],
           NEW m \in Nat, NEW d \in {0, 1}, InOrder(q, hop, m, d), NEW h \in Nat, m + 1 <= h,
           \A i \in 1..Len(q) : \/ new[q[i].url] = hop[q[i].url]
                                \/ new[q[i].url] = h /\ h < hop[q[i].url]
    PROVE  InOrder(q, new, m, d)
<1>1. PICK k \in 0..Len(q) : \A i \in 1..Len(q) :
             IF i <= k THEN m <= hop[q[i].url] /\ hop[q[i].url] <= m + d
             ELSE m + 1 <= hop[q[i].url] /\ hop[q[i].url] <= m + 1 + d
  BY DEF InOrder
<1>2. \A i \in 1..Len(q) : hop[q[i].url] \in Nat
  <2>1. \A i \in 1..Len(q) : q[i] \in URLRef
    OBVIOUS
  <2> QED
    BY <2>1 DEF URLRef
<1>3. \A i \in 1..Len(q) : IF i <= k THEN m <= new[q[i].url] /\ new[q[i].url] <= m + d
                           ELSE m + 1 <= new[q[i].url] /\ new[q[i].url] <= m + 1 + d
  BY <1>1, <1>2
<1> QED
  BY <1>3 DEF InOrder

(* What was found from the first part may wait last. *)
LEMMA AddLast ==
    ASSUME NEW q \in Seq(URLRef), NEW hop \in [URLs -> Nat], NEW m \in Nat,
           NEW d \in {0, 1}, InOrder(q, hop, m, d), NEW r \in URLRef,
           m + 1 <= hop[r.url], hop[r.url] <= m + 1 + d
    PROVE  InOrder(Append(q, r), hop, m, d)
<1> DEFINE p == Append(q, r)
<1>1. /\ Len(q) \in Nat /\ Len(p) = Len(q) + 1 /\ p[Len(q) + 1] = r
      /\ \A i \in 1..Len(q) : p[i] = q[i]
  OBVIOUS
<1> HIDE DEF p
<1>2. PICK k \in 0..Len(q) : \A i \in 1..Len(q) :
             IF i <= k THEN m <= hop[q[i].url] /\ hop[q[i].url] <= m + d
             ELSE m + 1 <= hop[q[i].url] /\ hop[q[i].url] <= m + 1 + d
  BY DEF InOrder
<1>3. k \in 0..Len(p) /\ ~(Len(q) + 1 <= k)
  BY <1>1
<1>4. ASSUME NEW i \in 1..Len(p)
      PROVE  IF i <= k THEN m <= hop[p[i].url] /\ hop[p[i].url] <= m + d
             ELSE m + 1 <= hop[p[i].url] /\ hop[p[i].url] <= m + 1 + d
  <2>1. CASE i \in 1..Len(q)
    BY <1>1, <1>2, <2>1
  <2>2. CASE i = Len(q) + 1
    BY <1>1, <1>3, <2>2
  <2> QED
    BY <1>1, <2>1, <2>2
<1>5. InOrder(p, hop, m, d)
  BY <1>3, <1>4 DEF InOrder
<1> QED
  BY <1>5 DEF p

(* What is all about as far away is in order ... *)
LEMMA AllFirst ==
    ASSUME NEW q \in Seq(URLRef), NEW hop \in [URLs -> Nat], NEW m \in Nat, NEW d \in {0, 1},
           \A i \in 1..Len(q) : m <= hop[q[i].url] /\ hop[q[i].url] <= m + d
    PROVE  InOrder(q, hop, m, d)
<1>1. Len(q) \in 0..Len(q) /\ \A i \in 1..Len(q) : i <= Len(q)
  OBVIOUS
<1> QED
  BY <1>1 DEF InOrder

(* ... and what is in order is within one click more. *)
LEMMA WithinOrder ==
    ASSUME NEW q \in Seq(URLRef), NEW hop \in [URLs -> Nat], NEW m \in Nat, NEW d \in {0, 1},
           InOrder(q, hop, m, d), NEW i \in 1..Len(q)
    PROVE  m <= hop[q[i].url] /\ hop[q[i].url] <= m + 1 + d
<1>1. q[i] \in URLRef
  OBVIOUS
<1>2. hop[q[i].url] \in Nat
  BY <1>1 DEF URLRef
<1> QED
  BY <1>2 DEF InOrder

HopsLower ==
    \A u \in URLs : docdb[u] # NoDoc => docdb'[u] # NoDoc /\ docdb'[u].hop <= docdb[u].hop

(* Hop counts are only lowered, so what was known is known. *)
LEMMA StillRelaxed ==
    ASSUME DigTypeOK, DigTypeOK', web' = web, HopsLower
    PROVE  /\ \A u \in URLs, h \in Nat : Known(u, h) => Known(u, h)'
           /\ \A u \in Stored : Relaxed(u) /\ docdb'[u].hop = docdb[u].hop => Relaxed(u)'
<1>1. \A u \in URLs : /\ docdb[u] # NoDoc => docdb[u].hop \in Nat
                      /\ docdb'[u] # NoDoc => docdb'[u].hop \in Nat
  BY DEF DigTypeOK, FilesTypeOK, Doc
<1>2. \A u \in URLs, h \in Nat : Known(u, h) => Known(u, h)'
  <2> SUFFICES ASSUME NEW u \in URLs, NEW h \in Nat, Known(u, h) PROVE Known(u, h)'
    OBVIOUS
  <2>1. /\ docdb[u] # NoDoc /\ docdb[u].hop <= h
        /\ docdb'[u] # NoDoc /\ docdb'[u].hop <= docdb[u].hop
        /\ docdb[u].hop \in Nat /\ docdb'[u].hop \in Nat
    BY <1>1 DEF Known, HopsLower
  <2>2. docdb'[u].hop <= h
    BY <2>1
  <2> QED
    BY <2>1, <2>2 DEF Known
<1>3. \A u : Targets(u, {"ok"}) \in SUBSET URLs
  BY DigAssumption DEF Targets
<1>4. \A u : Targets(u, {"ok"})' = Targets(u, {"ok"})
  BY DEF Targets
<1>5. ASSUME NEW u \in Stored, Relaxed(u), docdb'[u].hop = docdb[u].hop
      PROVE  Relaxed(u)'
  <2>1. docdb[u].hop + 1 \in Nat
    BY <1>1 DEF Stored
  <2>2. docdb[u].hop + 1 <= MaxHops =>
          \A v \in Targets(u, {"ok"}) \ {u} : Known(v, docdb[u].hop + 1)'
    BY <1>2, <1>3, <1>5, <2>1 DEF Relaxed
  <2>3. docdb'[u].hop + 1 <= MaxHops =>
          \A v \in Targets(u, {"ok"})' \ {u} : docdb'[v] # NoDoc /\ docdb'[v].hop <= docdb'[u].hop + 1
    BY <1>4, <1>5, <2>2 DEF Known
  <2> QED
    BY <2>3 DEF Relaxed, Known, Targets
<1> QED
  BY <1>2, <1>5

(* The hop counts are numbers, and what a queue holds is entries. *)
LEMMA Numbers ==
    ASSUME DigTypeOK
    PROVE  /\ HopNow \in [URLs -> Nat] /\ Slack \in {0, 1}
           /\ queue \in [Servers -> Seq(URLRef)] /\ docdb \in [URLs -> Doc \cup {NoDoc}]
           /\ \A u \in Stored : u \in URLs /\ docdb[u].hop \in Nat /\ HopNow[u] = docdb[u].hop
           /\ \A s \in Servers : \A i \in 1..Len(queue[s]) : queue[s][i] \in Entries(queue)
           /\ \A x \in Entries(queue) : x.url \in Queued /\ x.url \in URLs /\ x.hop \in Nat
<1>1. docdb \in [URLs -> Doc \cup {NoDoc}] /\ queue \in [Servers -> Seq(URLRef)]
  BY DEF DigTypeOK, FilesTypeOK
<1>2. \A u \in URLs : docdb[u] # NoDoc => docdb[u].hop \in Nat
  BY <1>1 DEF Doc
<1>3. \A s \in Servers : \A i \in 1..Len(queue[s]) : queue[s][i] \in URLRef
  BY <1>1
<1>4. \A s \in Servers : \A i \in 1..Len(queue[s]) : queue[s][i] \in Entries(queue)
  BY <1>3 DEF Entries
<1>5. \A x \in Entries(queue) : x.url \in Queued /\ x.url \in URLs /\ x.hop \in Nat
  BY DEF Entries, Queued, URLRef
<1> QED
  BY <1>1, <1>2, <1>4, <1>5 DEF HopNow, Slack, Stored

(* ... nor are they anything else after a step. *)
LEMMA NumbersNext ==
    ASSUME DigTypeOK'
    PROVE  HopNow' \in [URLs -> Nat] /\ \A x \in Entries(queue') : x.url \in URLs
<1>1. docdb' \in [URLs -> Doc \cup {NoDoc}] /\ queue' \in [Servers -> Seq(URLRef)]
  BY DEF DigTypeOK, FilesTypeOK
<1>2. \A u \in URLs : docdb'[u] # NoDoc => docdb'[u].hop \in Nat
  BY <1>1 DEF Doc
<1>3. \A x \in Entries(queue') : x.url \in URLs
  BY DEF Entries, URLRef
<1> QED
  BY <1>1, <1>2, <1>3 DEF HopNow

(* An order is one of the hop counts of what waits. *)
LEMMA SameOrder ==
    ASSUME NEW q, NEW hop, NEW new, NEW m, NEW d, InOrder(q, hop, m, d),
           \A i \in 1..Len(q) : new[q[i].url] = hop[q[i].url]
    PROVE  InOrder(q, new, m, d)
BY DEF InOrder

(* The server stays up, and nobody takes it for dead. *)
LEMMA CalmStays ==
    ASSUME PlainWeb, DigTypeOK, CrawlInv, CalmInv, [DigNext]_vars
    PROVE  CalmInv'
<1>1. web' = web
  BY WebStays DEF PlainWeb
<1>2. down = {} /\ (cut' = {} => cut = {} /\ bad = {})
  <2>1. cut \subseteq cut'
    BY CutGrows
  <2> QED
    BY <2>1 DEF CalmInv
<1> SUFFICES down' = {} /\ (cut' = {} => bad' = {})
  <2>1. web' = Web0
    BY <1>1 DEF CalmInv
  <2> QED
    BY <2>1 DEF CalmInv
<1>3. \A t, i : Connect(t, i) /\ (t \in known \/ i = FALSE) => bad' = bad
  BY <1>2 DEF Connect
<1>4. CASE \E initial \in InitialFlags : Start(initial)
  BY <1>2, <1>4 DEF Start, worldVars
<1>5. CASE Load
  <2>1. ASSUME NEW u \in URLs, NEW skip, NEW pushes, Initial(u, skip, pushes)
        PROVE  down' = down /\ bad' = bad
    BY <1>3, <2>1 DEF Initial, worldVars
  <2>2. CASE LogRead \/ DbRead \/ Loaded
    BY <1>2, <2>2 DEF LogRead, DbRead, Loaded, worldVars
  <2> QED
    BY <1>2, <1>5, <2>1, <2>2 DEF Load, InitialLog, InitialDb, InitialStart
<1>6. ASSUME NEW s \in Servers, Retrieve(s)
      PROVE  down' = {} /\ (cut' = {} => bad' = {})
  <2>1. queue[s] # <<>> /\ Head(queue[s]).url \in URLs /\ down' = down
    BY <1>6, RetrieveHops
  <2>2. s \in known /\ \A u \in URLs : ServerOf[u] \in known
    <3>1. s \in known
      BY <2>1, QueueKnown DEF CrawlInv
    <3> QED
      BY <3>1, DigAssumption DEF PlainWeb
  <2>3. PICK p \in Heard(s) : \/ RetrieveGone(s, p) \/ RetrieveUnchanged(s, p)
                              \/ RetrieveUnauthorized(s, p)
                              \/ RetrieveRedirect(s, p) \/ RetrievePage(s, p)
    BY <1>6 DEF Retrieve
  <2>4. CASE RetrieveGone(s, p)
    <3> SUFFICES ASSUME cut' = {} PROVE Status(Head(queue[s]).url, p) # "no_server"
      BY <1>2, <2>1, <2>4 DEF RetrieveGone
    <3>1. p = WholeAnswer(Head(queue[s]).url)
      BY <2>4 DEF RetrieveGone, Take, Hear
    <3>2. p = web[Head(queue[s]).url]
      BY <1>2, <3>1 DEF WholeAnswer, Unreachable
    <3>3. p \in Page
      BY <2>1, <3>2 DEF DigTypeOK
    <3> QED
      BY <3>3 DEF Page, Statuses, Status
  <2>5. CASE RetrieveRedirect(s, p)
    <3>1. p.links[1] \in Limits => ServerOf[p.links[1]] \in known
      BY <2>2, DigAssumption
    <3>2. bad' = bad
      <4>1. CASE p.links[1] \in Limits /\ p.links[1] \notin visited
        <5>1. \E i : Connect(ServerOf[p.links[1]], i)
          BY <2>5, <4>1 DEF RetrieveRedirect
        <5> QED
          BY <1>3, <3>1, <4>1, <5>1
      <4>2. CASE ~(p.links[1] \in Limits /\ p.links[1] \notin visited)
        BY <2>5, <4>2 DEF RetrieveRedirect
      <4> QED
        BY <4>1, <4>2
    <3> QED
      BY <1>2, <2>1, <3>2
  <2>6. CASE RetrieveUnchanged(s, p) \/ RetrieveUnauthorized(s, p) \/ RetrievePage(s, p)
    BY <1>2, <2>1, <2>6 DEF RetrieveUnchanged, RetrieveUnauthorized, RetrievePage
  <2> QED
    BY <2>3, <2>4, <2>5, <2>6
<1>7. CASE GotHref
  <2> DEFINE v == Head(cur.left)
  <2>1. \A u \in URLs : ServerOf[u] \in known
    <3>1. cur.url \in visited
      BY <1>7 DEF GotHref, CrawlInv, StoreInv, LoadInv
    <3>2. cur.url \in URLs /\ ServerOf[cur.url] \in known
      BY <1>7, <3>1 DEF GotHref, CrawlInv, QueueInv, DigTypeOK, Cur
    <3> QED
      BY <3>2, DigAssumption DEF PlainWeb
  <2>2. bad' = bad
    <3>1. CASE Follows(v, cur.ref.hop + 1) /\ v \notin visited
      <4>1. \E i : Connect(ServerOf[v], i)
        BY <1>7, <3>1 DEF GotHref
      <4>2. v \in URLs
        BY <3>1, DigAssumption DEF Follows
      <4> QED
        BY <1>3, <2>1, <4>1, <4>2
    <3>2. CASE ~(Follows(v, cur.ref.hop + 1) /\ v \notin visited)
      BY <1>7, <3>2 DEF GotHref
    <3> QED
      BY <3>1, <3>2
  <2> QED
    BY <1>2, <1>7, <2>2 DEF GotHref, worldVars
<1>8. CASE (\E s \in Servers : SkipServer(s)) \/ NewRound \/ Parsed \/ Signal
  BY <1>2, <1>8 DEF SkipServer, NewRound, Parsed, Signal, worldVars
<1>9. CASE Finish \/ DumpLog \/ Crash
  BY <1>2, <1>9 DEF Finish, DumpLog, Crash, CloseDb, ClearMemory, worldVars
<1>10. CASE Htdump \/ World \/ UNCHANGED vars
  BY <1>2, <1>10 DEF Htdump, World, Publish, Outage, PlainWeb, vars, memVars, worldVars
<1> QED
  BY <1>4, <1>5, <1>6, <1>7, <1>8, <1>9, <1>10 DEF DigNext, Work

(* A retrieval refuses nothing but the target of a redirect that it pushes. *)
LEMMA RetrievePushes ==
    ASSUME NEW s \in Servers, Retrieve(s)
    PROVE  (\E q, u, h : Push(q, u, h)) \/ refused' = refused
<1>1. PICK p \in Heard(s) : \/ RetrieveGone(s, p) \/ RetrieveUnchanged(s, p)
                            \/ RetrieveUnauthorized(s, p)
                            \/ RetrieveRedirect(s, p) \/ RetrievePage(s, p)
  BY DEF Retrieve
<1>2. CASE ~RetrieveRedirect(s, p)
  BY <1>1, <1>2 DEF RetrieveGone, RetrieveUnchanged, RetrieveUnauthorized, RetrievePage
<1>3. CASE RetrieveRedirect(s, p)
  <2>1. CASE p.links[1] \in Limits /\ p.links[1] \notin visited
    BY <1>3, <2>1 DEF RetrieveRedirect
  <2>2. CASE ~(p.links[1] \in Limits /\ p.links[1] \notin visited)
    BY <1>3, <2>2 DEF RetrieveRedirect
  <2> QED
    BY <2>1, <2>2
<1> QED
  BY <1>2, <1>3

(* No server has a limit to refuse a URL for. *)
LEMMA RefusesNothing ==
    ASSUME CalmInv', NeverRefused, [DigNext]_vars
    PROVE  NeverRefused'
<1>0. cut \subseteq cut'
  BY CutGrows
<1> SUFFICES ASSUME Unlimited, refused = {}, bad' = {} PROVE refused' = {}
  BY <1>0 DEF NeverRefused, CalmInv, Unlimited
<1>1. \A q, u, h : Push(q, u, h) => refused' = {}
  BY DEF Push, Refuses, Unlimited
<1>2. CASE \E initial \in InitialFlags : Start(initial)
  BY <1>2 DEF Start
<1>3. CASE Load
  <2>1. ASSUME NEW u \in URLs, NEW skip, NEW pushes, Initial(u, skip, pushes) PROVE refused' = {}
    BY <1>1, <2>1 DEF Initial
  <2>2. CASE LogRead \/ DbRead \/ Loaded
    BY <2>2 DEF LogRead, DbRead, Loaded, histVars
  <2> QED
    BY <1>3, <2>1, <2>2 DEF Load, InitialLog, InitialDb, InitialStart
<1>4. CASE \E s \in Servers : Retrieve(s)
  <2>1. (\E q, u, h : Push(q, u, h)) \/ refused' = refused
    BY <1>4, RetrievePushes
  <2> QED
    BY <1>1, <2>1
<1>5. CASE GotHref
  BY <1>1, <1>5 DEF GotHref
<1>6. CASE (\E s \in Servers : SkipServer(s)) \/ NewRound \/ Parsed \/ Signal
  BY <1>6 DEF SkipServer, NewRound, Parsed, Signal, histVars
<1>7. CASE Finish \/ DumpLog \/ Crash
  BY <1>7 DEF Finish, DumpLog, Crash, histVars
<1>8. CASE Htdump \/ World \/ UNCHANGED vars
  BY <1>8 DEF Htdump, World, Publish, Outage, vars, histVars
<1> QED
  BY <1>2, <1>3, <1>4, <1>5, <1>6, <1>7, <1>8 DEF DigNext, Work

(* If one restart is all that has happened after a step, it was so before. *)
LEMMA OneRestartSoFar ==
    ASSUME DigTypeOK, NotStarted, NeverRefused, web' = web, [DigNext]_vars, OneRestart'
    PROVE  OneRestart
<1>0. StartsApart' = StartsApart
  <2>1. Within(1)' = Within(1)
    BY SameWithin
  <2> QED
    BY <2>1 DEF StartsApart, Targets
<1>10. cut = {} /\ cut' = {}
  <2>1. cut' = {}
    BY DEF OneRestart
  <2>2. cut \subseteq cut'
    BY CutGrows
  <2> QED
    BY <2>1, <2>2
<1>1. ASSUME runs' = runs, crashes' = crashes \/ crashes' = crashes + 1, refused \subseteq refused'
      PROVE  OneRestart
  BY <1>0, <1>1, <1>10 DEF OneRestart, Unlimited, DigTypeOK
<1>2. \A q, u, h : Push(q, u, h) => refused \subseteq refused'
  BY DEF Push
<1>3. CASE \E initial \in InitialFlags : Start(initial)
  <2>1. runs' = runs + 1 /\ crashes' = crashes /\ runs \in Nat
    BY <1>3 DEF Start, DigTypeOK
  <2>2. runs = 0 \/ (runs = 1 /\ StartsApart /\ Unlimited)
    BY <1>0, <2>1 DEF OneRestart, Unlimited
  <2> QED
    BY <1>10, <2>1, <2>2 DEF NotStarted, NeverRefused, OneRestart
<1>4. CASE Load
  <2>1. ASSUME NEW u \in URLs, NEW skip, NEW pushes, Initial(u, skip, pushes) PROVE OneRestart
    BY <1>1, <1>2, <2>1 DEF Initial, countVars
  <2>2. CASE LogRead \/ DbRead \/ Loaded
    BY <1>1, <2>2 DEF LogRead, DbRead, Loaded, countVars, histVars
  <2> QED
    BY <1>4, <2>1, <2>2 DEF Load, InitialLog, InitialDb, InitialStart
<1>5. CASE \E s \in Servers : Retrieve(s)
  <2>1. PICK s \in Servers : Retrieve(s)
    BY <1>5
  <2>2. PICK p \in Heard(s) : Take(s, p)
    BY <2>1 DEF Retrieve, RetrieveGone, RetrieveUnchanged, RetrieveUnauthorized,
       RetrieveRedirect, RetrievePage
  <2>3. runs' = runs /\ crashes' = crashes
    BY <2>2 DEF Take, countVars
  <2>4. (\E q, u, h : Push(q, u, h)) \/ refused' = refused
    BY <2>1, RetrievePushes
  <2> QED
    BY <1>1, <1>2, <2>3, <2>4
<1>6. CASE GotHref
  BY <1>1, <1>2, <1>6 DEF GotHref, countVars
<1>7. CASE (\E s \in Servers : SkipServer(s)) \/ NewRound \/ Parsed \/ Signal
  BY <1>1, <1>7 DEF SkipServer, NewRound, Parsed, Signal, countVars, histVars
<1>8. CASE Finish \/ DumpLog \/ Crash
  BY <1>1, <1>8 DEF Finish, DumpLog, Crash, countVars, histVars
<1>9. CASE Htdump \/ World \/ UNCHANGED vars
  BY <1>1, <1>9 DEF Htdump, World, Publish, Outage, vars, countVars, histVars
<1> QED
  BY <1>3, <1>4, <1>5, <1>6, <1>7, <1>8, <1>9 DEF DigNext, Work

(* Before the first run there is nothing. *)
LEMMA StillNotStarted ==
    ASSUME DigTypeOK, NotStarted, [DigNext]_vars
    PROVE  NotStarted'
<1> SUFFICES ASSUME runs' = 0 PROVE NotStarted'
  BY DEF NotStarted
<1>1. CASE \E initial \in InitialFlags : Start(initial)
  BY <1>1 DEF Start, DigTypeOK
<1>2. CASE phase = "down" /\ ~\E initial \in InitialFlags : Start(initial)
  <2>0. ~\E s \in Servers : Retrieve(s)
    BY <1>2, RetrieveHops
  <2>1. Htdump \/ World \/ UNCHANGED vars
    BY <1>2, <2>0 DEF DigNext, Work, Load, InitialLog, InitialDb, InitialStart, LogRead, DbRead,
       Loaded, SkipServer, IsNext, NewRound, GotHref, Parsed, Finish, DumpLog, Signal, Crash
  <2>2. /\ UNCHANGED <<runs, phase, docdb, fetched, refused>>
        /\ urlLog' \subseteq urlLog
    BY <2>1 DEF Htdump, World, Publish, Outage, vars, fileVars, countVars, histVars
  <2> QED
    BY <2>2 DEF NotStarted, Stored
<1>3. CASE phase # "down" /\ ~\E initial \in InitialFlags : Start(initial)
  <2>1. runs' = runs
    <3>1. CASE Load
      BY <3>1 DEF Load, InitialLog, InitialDb, InitialStart, Initial, LogRead, DbRead, Loaded,
         countVars
    <3>2. CASE \E s \in Servers : SkipServer(s) \/ Retrieve(s)
      BY <3>2, RetrieveHops DEF SkipServer, countVars
    <3>3. CASE NewRound \/ GotHref \/ Parsed \/ Finish \/ DumpLog \/ Signal \/ Crash
      BY <3>3 DEF NewRound, GotHref, Parsed, Finish, DumpLog, Signal, Crash, countVars
    <3>4. CASE Htdump \/ World \/ UNCHANGED vars
      BY <3>4 DEF Htdump, World, Publish, Outage, vars, countVars
    <3> QED
      BY <1>3, <3>1, <3>2, <3>3, <3>4 DEF DigNext, Work
  <2> QED
    BY <1>3, <2>1 DEF NotStarted
<1> QED
  BY <1>1, <1>2, <1>3

-----------------------------------------------------------------------------
(* Every step of the search keeps the order.                               *)

(* Nothing is cut short: what is heard is what is there. *)
LEMMA RetrieveWhole ==
    ASSUME DigTypeOK, CalmInv, NEW s \in Servers, Retrieve(s), cut' = {}
    PROVE  HopsRetrieved(s, web[Head(queue[s]).url])
<1> DEFINE u == Head(queue[s]).url
<1>1. PICK p \in Answer : /\ \/ p = WholeAnswer(u) /\ cut' = cut
                             \/ p \in CutAnswers(u) /\ cut' = cut \cup {u}
                          /\ HopsRetrieved(s, p)
  BY RetrieveHops
<1>2. cut = {} /\ p = WholeAnswer(u)
  BY <1>1
<1>3. p = web[u]
  BY <1>2 DEF WholeAnswer, Unreachable, CalmInv
<1> QED
  BY <1>1, <1>3

(* The nearest documents that wait are retrieved: one is stored, or it is  *)
(* parsed. *)
LEMMA RetrieveSearch ==
    ASSUME PlainWeb, DigTypeOK, DigTypeOK', CrawlInv, CrawlInv', CalmInv, DiggingInv,
           NEW s \in Servers, Retrieve(s), web' = web, OneRestart'
    PROVE  DiggingInv' /\ LinksInv'
<1> SUFFICES ASSUME NEW r, r = Head(queue[s]), NEW u, u = r.url
             PROVE  DiggingInv' /\ LinksInv'
  OBVIOUS
<1>1. /\ queue[s] # <<>> /\ r \in URLRef /\ u \in URLs
      /\ phase = "dig" /\ fetched' = fetched \cup {u} /\ runs' = runs
      /\ phase' \in {"dig", "parse"}
  BY RetrieveHops DEF HopsRetrieved
<1>2. /\ queue \in [Servers -> Seq(URLRef)] /\ docdb \in [URLs -> Doc \cup {NoDoc}]
      /\ r.hop \in Nat /\ HopNow \in [URLs -> Nat] /\ Slack \in {0, 1} /\ Slack' = Slack
      /\ queue[s] \in Seq(URLRef)
      /\ \A w \in Stored : w \in URLs /\ docdb[w].hop \in Nat /\ HopNow[w] = docdb[w].hop
  BY <1>1, Numbers DEF URLRef, Slack
<1>3. r \in Entries(queue) /\ Entries(Popped(s)) \subseteq Entries(queue)
  BY <1>1, <1>2, PopEntries DEF Popped
<1>4. /\ StartURLs \subseteq visited
      /\ \A x \in Entries(queue) : docdb[x.url] = NoDoc => x.hop = 0
      /\ NewUnseen /\ StartsAtZero
  BY <1>1 DEF DiggingInv, Running
<1>5. PICK m \in Nat : /\ \A t \in Servers : InOrder(queue[t], HopNow, m, Slack)
                       /\ \A w \in fetched : Relaxed(w) /\ docdb[w].hop <= m + Slack
  BY <1>1 DEF DiggingInv, Running, Done
<1>6. HopOf(r) = HopNow[u] /\ (docdb[u] = NoDoc => HopNow[u] = 0)
        /\ (docdb[u] # NoDoc => HopNow[u] = docdb[u].hop)
  BY <1>1, <1>3, <1>4 DEF HopOf, HopNow
<1>7. u \notin fetched /\ fetched \subseteq Stored /\ u \in Queued
  <2>1. u \in Queued
    BY RetrieveFinds DEF CrawlInv
  <2> QED
    BY <1>1, <2>1 DEF CrawlInv, QueueInv, StoreInv
<1>8. PICK n \in Nat : /\ m <= n /\ InOrder(Tail(queue[s]), HopNow, n, Slack)
                       /\ n <= HopNow[u] /\ HopNow[u] <= n + Slack
  BY <1>1, <1>2, <1>5, TakeFirst
<1>9. \A t \in Servers : t = s
  BY DEF PlainWeb
<1>10. Entries(queue)' = Entries(queue')
  BY DEF Entries
<1>11. u \in StartURLs => HopNow[u] = 0
  BY <1>1, <1>4, <1>6 DEF StartsAtZero, Stored
<1>12. \A w \in fetched : Relaxed(w) /\ docdb[w].hop <= n + Slack
  BY <1>2, <1>5, <1>7, <1>8
<1>13. CASE /\ phase' = "dig" /\ queue' = Popped(s) /\ UNCHANGED visited
            /\ \E ref \in Doc : ref.hop = HopOf(r) /\ ref.got
                                  /\ docdb' = [docdb EXCEPT ![u] = ref]
            /\ Status(u, web[u]) # "ok"
  <2>1. PICK ref \in Doc : ref.hop = HopNow[u] /\ docdb' = [docdb EXCEPT ![u] = ref]
    BY <1>6, <1>13
  <2>2. docdb'[u] = ref /\ docdb'[u] # NoDoc /\ \A w \in URLs \ {u} : docdb'[w] = docdb[w]
    BY <1>1, <1>2, <2>1, DigAssumption
  <2>3. HopNow' = HopNow
    <3>1. \A w \in URLs : (IF docdb'[w] = NoDoc THEN 0 ELSE docdb'[w].hop)
                            = (IF docdb[w] = NoDoc THEN 0 ELSE docdb[w].hop)
      BY <1>6, <2>1, <2>2
    <3> QED
      BY <3>1 DEF HopNow
  <2>4. HopsLower /\ \A w \in Stored : docdb'[w].hop = docdb[w].hop
    <3>1. \A w \in Stored : docdb'[w] # NoDoc /\ docdb'[w].hop = docdb[w].hop
      BY <1>2, <1>6, <2>1, <2>2 DEF Stored
    <3> QED
      BY <1>2, <3>1 DEF HopsLower, Stored
  <2>5. web[u].status # "ok"
    <3>1. ~Old(u)
      BY <1>1, <1>4, <1>7 DEF Old, Stored, NewUnseen
    <3> QED
      BY <1>13, <3>1 DEF Status
  <2>6. \A x \in Entries(queue') : docdb'[x.url] = NoDoc => x.hop = 0
    <3>1. \A x \in Entries(queue') : x \in Entries(queue) /\ x.url \in URLs
      <4>1. \A x \in Entries(queue') : x \in Entries(queue)
        BY <1>3, <1>13
      <4> QED
        BY <4>1, Numbers
    <3> QED
      BY <1>4, <2>2, <3>1
  <2>7. NewUnseen' /\ StartsAtZero'
    <3>1. \A w \in URLs : docdb'[w] # NoDoc /\ docdb'[w].got => w \in fetched'
      BY <1>1, <1>4, <2>2 DEF Stored, NewUnseen
    <3>2. \A w \in URLs \cap StartURLs : docdb'[w] # NoDoc => docdb'[w].hop = 0
      BY <1>4, <1>11, <2>1, <2>2 DEF Stored, StartsAtZero
    <3> QED
      BY <3>1, <3>2 DEF Stored, NewUnseen, StartsAtZero
  <2>8. \A w \in fetched' : Relaxed(w)' /\ docdb'[w].hop <= n + Slack
    <3>1. ASSUME NEW w \in fetched PROVE Relaxed(w)' /\ docdb'[w].hop <= n + Slack
      <4>1. w \in Stored /\ docdb'[w].hop = docdb[w].hop
        BY <1>7, <2>4
      <4>2. Relaxed(w)'
        BY <1>12, <2>4, <4>1, StillRelaxed
      <4> QED
        BY <1>12, <4>1, <4>2
    <3>2. Targets(u, {"ok"})' = {}
      BY <2>5 DEF Targets
    <3>3. ASSUME NEW w \in fetched', w = u PROVE Relaxed(w)' /\ docdb'[w].hop <= n + Slack
      <4>1. Relaxed(w)'
        BY <3>2, <3>3 DEF Relaxed, Targets
      <4> QED
        BY <1>8, <2>1, <2>2, <3>3, <4>1
    <3> QED
      BY <1>1, <3>1, <3>3
  <2>9. \A t \in Servers : InOrder(queue'[t], HopNow, n, Slack)
    BY <1>2, <1>8, <1>9, <1>13 DEF Popped
  <2>10. Done' = fetched' /\ StartURLs \subseteq visited'
    BY <1>4, <1>13 DEF Done
  <2> QED
    BY <1>2, <1>10, <1>13, <2>3, <2>6, <2>7, <2>8, <2>9, <2>10 DEF DiggingInv, LinksInv
<1>14. CASE /\ phase' = "parse" /\ queue' = Popped(s) /\ UNCHANGED visited
            /\ docdb' = docdb /\ cur'.url = u /\ cur'.ref.hop = HopOf(r)
            /\ cur'.left = web[u].links
  <2>1. HopsLower /\ Stored' = Stored /\ Done' = fetched /\ HopNow' = HopNow
    BY <1>1, <1>2, <1>7, <1>14 DEF HopsLower, Stored, Done, HopNow
  <2>2. \A w \in fetched : Relaxed(w)' /\ docdb'[w].hop <= n + Slack
    BY <1>7, <1>12, <1>14, <2>1, StillRelaxed
  <2>3. \A t \in Servers : InOrder(queue'[t], HopNow, n, Slack)
    BY <1>2, <1>8, <1>9, <1>14 DEF Popped
  <2>4. \A x \in Entries(queue') : docdb'[x.url] = NoDoc => x.hop = 0
    BY <1>3, <1>4, <1>14
  <2>5. NewUnseen' /\ StartsAtZero'
    BY <1>1, <1>4, <1>14, <2>1 DEF NewUnseen, StartsAtZero
  <2>6. n <= cur'.ref.hop /\ cur'.ref.hop <= n + Slack
    BY <1>6, <1>8, <1>14
  <2>7. DiggingInv'
    BY <1>2, <1>4, <1>10, <1>14, <2>1, <2>2, <2>3, <2>4, <2>5, <2>6 DEF DiggingInv
  <2>8. \A v \in Targets(u, {"ok"})' : \E k \in 1..Len(cur'.left) : cur'.left[k] = v
    BY <1>14 DEF Targets
  <2>9. docdb'[u] # NoDoc => docdb'[u].hop = cur'.ref.hop
    BY <1>6, <1>14
  <2>10. u \in StartURLs => cur'.ref.hop = 0
    BY <1>6, <1>11, <1>14
  <2>11. LinksInv'
    BY <1>14, <2>8, <2>9, <2>10 DEF LinksInv, Targets
  <2> QED
    BY <2>7, <2>11
<1>15. CASE Status(u, web[u]) = "redirect"
  BY <1>1, <1>15 DEF Status, PlainWeb, CalmInv
<1>16. HopsRetrieved(s, web[u])
  BY RetrieveWhole DEF OneRestart
<1> QED
  BY <1>13, <1>14, <1>15, <1>16 DEF HopsRetrieved

(* A link: its target is new and waits last, or its hop count is lowered   *)
(* while it waits among the last, or it is known to be no further away.    *)
LEMMA GotHrefSearch ==
    ASSUME PlainWeb, DigTypeOK, DigTypeOK', CrawlInv, BeyondInv, CalmInv, OneRestart,
           OneRestart', DiggingInv, LinksInv, GotHref
    PROVE  DiggingInv' /\ LinksInv'
<1> SUFFICES ASSUME NEW u, u = cur.url, NEW v, v = Head(cur.left), NEW n, n = cur.ref.hop
             PROVE  DiggingInv' /\ LinksInv'
  OBVIOUS
<1>1. /\ phase = "parse" /\ phase' = "parse" /\ cur \in Cur /\ cur.left # <<>>
      /\ cur'.url = u /\ cur'.left = Tail(cur.left) /\ cur'.ref.hop = n
      /\ web' = web /\ fetched' = fetched /\ runs' = runs
      /\ \/ ~Follows(v, n + 1) /\ UNCHANGED <<docdb, queue, visited>>
         \/ /\ Follows(v, n + 1) /\ v \in URLs
            /\ \E ref \in Doc :
                 /\ docdb' = [docdb EXCEPT ![v] = ref]
                 /\ ref.hop = IF docdb[v] = NoDoc THEN n + 1 ELSE Lower(docdb[v].hop, n + 1)
                 /\ ref.got = (docdb[v] # NoDoc /\ docdb[v].got)
                 /\ IF v \in visited THEN UNCHANGED <<queue, visited>>
                    ELSE Push(queue, v, ref.hop)
  BY GotHrefHops
<1>2. /\ u \in URLs /\ n \in Nat /\ cur.left \in Seq(URLs)
      /\ queue \in [Servers -> Seq(URLRef)] /\ docdb \in [URLs -> Doc \cup {NoDoc}]
      /\ HopNow \in [URLs -> Nat] /\ HopNow' \in [URLs -> Nat] /\ Slack \in {0, 1} /\ Slack' = Slack
      /\ \A w \in Stored : w \in URLs /\ docdb[w].hop \in Nat /\ HopNow[w] = docdb[w].hop
      /\ \A s \in Servers : \A i \in 1..Len(queue[s]) : queue[s][i] \in Entries(queue)
      /\ \A x \in Entries(queue) : x.url \in Queued /\ x.url \in URLs
      /\ \A x \in Entries(queue') : x.url \in URLs
  <2>1. \A x \in Entries(queue') : x.url \in URLs
    BY NumbersNext
  <2>2. HopNow' \in [URLs -> Nat]
    BY NumbersNext
  <2>3. u \in URLs /\ n \in Nat /\ cur.left \in Seq(URLs)
    BY <1>1 DEF Cur, Doc
  <2>4. Slack' = Slack
    BY <1>1 DEF Slack
  <2> QED
    BY <2>1, <2>2, <2>3, <2>4, Numbers
<1>3. /\ StartURLs \subseteq visited
      /\ \A x \in Entries(queue) : docdb[x.url] = NoDoc => x.hop = 0
      /\ NewUnseen /\ StartsAtZero
  BY <1>1 DEF DiggingInv, Running
<1>4. PICK m \in Nat : /\ \A s \in Servers : InOrder(queue[s], HopNow, m, Slack)
                       /\ \A w \in fetched \ {u} : Relaxed(w) /\ docdb[w].hop <= m + Slack
                       /\ m <= n /\ n <= m + Slack
  BY <1>1 DEF DiggingInv, Running, Done
<1>5. /\ docdb[u] # NoDoc => docdb[u].hop = n
      /\ u \in StartURLs => n = 0
      /\ n + 1 <= MaxHops =>
            \A w \in Targets(u, {"ok"}) \ {u} :
                Known(w, n + 1) \/ \E k \in 1..Len(cur.left) : cur.left[k] = w
  BY <1>1 DEF LinksInv
<1>6. /\ fetched \subseteq Stored \cup {u} /\ Stored \subseteq visited
      /\ visited \subseteq Queued \cup fetched /\ Queued \subseteq visited
  BY <1>1 DEF CrawlInv, StoreInv, LoadInv, QueueInv, Found, OneRestart
<1>7. /\ cur.left[1] = v /\ \A i \in 1..Len(cur'.left) : cur'.left[i] = cur.left[i + 1]
      /\ Len(cur'.left) = Len(cur.left) - 1 /\ Len(cur.left) \in Nat \ {0}
  BY <1>1, <1>2
<1>8. v \in Limits => v \in Targets(u, {"ok"})
  BY <1>1, <1>7 DEF BeyondInv, ParseInv, Links, Targets
<1>9. Done' = fetched \ {u}
  BY <1>1 DEF Done
<1>10. Targets(u, {"ok"})' = Targets(u, {"ok"}) /\ Targets(u, {"ok"}) \in SUBSET URLs
  BY <1>1, DigAssumption DEF Targets
<1>11. Entries(queue)' = Entries(queue')
  BY DEF Entries
<1>12. ASSUME \A w \in Targets(u, {"ok"}) \ {u} : w = v /\ n + 1 <= MaxHops => Known(w, n + 1)',
              HopsLower, docdb'[u] # NoDoc => docdb'[u].hop = n
       PROVE  LinksInv'
  <2>1. ASSUME n + 1 <= MaxHops, NEW w \in Targets(u, {"ok"}) \ {u}
        PROVE  Known(w, n + 1)' \/ \E k \in 1..Len(cur'.left) : cur'.left[k] = w
    <3>1. CASE w = v
      BY <1>12, <2>1, <3>1
    <3>2. CASE Known(w, n + 1)
      <4>1. n + 1 \in Nat /\ w \in URLs
        BY <1>2, <1>10
      <4> QED
        BY <1>1, <1>12, <3>2, <4>1, StillRelaxed
    <3>3. CASE w # v /\ \E k \in 1..Len(cur.left) : cur.left[k] = w
      <4>1. PICK k \in 1..Len(cur.left) : cur.left[k] = w
        BY <3>3
      <4>2. k # 1 /\ k - 1 \in 1..Len(cur'.left)
        BY <1>7, <3>3, <4>1
      <4>3. cur'.left[k - 1] = w
        BY <1>7, <4>1, <4>2
      <4> QED
        BY <4>2, <4>3
    <3> QED
      BY <1>5, <2>1, <3>1, <3>2, <3>3
  <2> QED
    BY <1>1, <1>5, <1>10, <1>12, <2>1 DEF LinksInv, Targets, Known
<1>13. CASE ~Follows(v, n + 1) /\ UNCHANGED <<docdb, queue, visited>>
  <2>1. HopsLower /\ Stored' = Stored /\ HopNow' = HopNow
    BY <1>2, <1>13 DEF HopsLower, Stored, HopNow
  <2>2. \A w \in fetched \ {u} : Relaxed(w)' /\ docdb'[w].hop <= m + Slack
    BY <1>1, <1>4, <1>6, <1>13, <2>1, StillRelaxed
  <2>3. NewUnseen' /\ StartsAtZero'
    BY <1>1, <1>3, <1>13, <2>1 DEF NewUnseen, StartsAtZero
  <2>4. DiggingInv'
    BY <1>1, <1>2, <1>3, <1>4, <1>9, <1>11, <1>13, <2>1, <2>2, <2>3 DEF DiggingInv
  <2>5. \A w \in Targets(u, {"ok"}) \ {u} : w = v /\ n + 1 <= MaxHops => Known(w, n + 1)'
    BY <1>8, <1>13 DEF Follows, Targets
  <2>6. LinksInv'
    BY <1>5, <1>12, <1>13, <2>1, <2>5
  <2> QED
    BY <2>4, <2>6
<1>14. CASE /\ Follows(v, n + 1) /\ v \in URLs
            /\ \E ref \in Doc :
                 /\ docdb' = [docdb EXCEPT ![v] = ref]
                 /\ ref.hop = IF docdb[v] = NoDoc THEN n + 1 ELSE Lower(docdb[v].hop, n + 1)
                 /\ ref.got = (docdb[v] # NoDoc /\ docdb[v].got)
                 /\ IF v \in visited THEN UNCHANGED <<queue, visited>>
                    ELSE Push(queue, v, ref.hop)
  <2>1. PICK ref \in Doc :
                 /\ docdb' = [docdb EXCEPT ![v] = ref]
                 /\ ref.hop = IF docdb[v] = NoDoc THEN n + 1 ELSE Lower(docdb[v].hop, n + 1)
                 /\ ref.got = (docdb[v] # NoDoc /\ docdb[v].got)
                 /\ IF v \in visited THEN UNCHANGED <<queue, visited>>
                    ELSE Push(queue, v, ref.hop)
    BY <1>14
  <2>2. v \in Limits /\ v # u /\ n + 1 <= MaxHops
    BY <1>14 DEF Follows
  <2>3. docdb'[v] = ref /\ ref # NoDoc /\ \A w \in URLs \ {v} : docdb'[w] = docdb[w]
    BY <1>2, <1>14, <2>1, DigAssumption
  <2>4. docdb[v] # NoDoc => ref.hop = docdb[v].hop \/ (ref.hop = n + 1 /\ n + 1 < docdb[v].hop)
    <3>1. docdb[v] # NoDoc => docdb[v].hop \in Nat
      BY <1>14, <1>2 DEF Stored
    <3> QED
      BY <1>2, <2>1, <3>1 DEF Lower
  <2>5. ref.hop \in Nat /\ ref.hop <= n + 1
    <3>1. docdb[v] # NoDoc => docdb[v].hop \in Nat
      BY <1>14, <1>2 DEF Stored
    <3> QED
      BY <1>2, <2>1, <3>1 DEF Lower
  <2>6. HopsLower
    <3> SUFFICES ASSUME NEW w \in URLs, docdb[w] # NoDoc
                 PROVE  docdb'[w] # NoDoc /\ docdb'[w].hop <= docdb[w].hop
      BY DEF HopsLower
    <3>1. docdb[w].hop \in Nat
      BY <1>2 DEF Stored
    <3>2. CASE w = v
      <4>1. docdb'[w] = ref /\ ref # NoDoc /\ docdb[v] # NoDoc /\ docdb[v].hop \in Nat
        BY <2>3, <3>1, <3>2
      <4>2. ref.hop <= docdb[v].hop
        <5>1. CASE ref.hop = docdb[v].hop
          BY <4>1, <5>1
        <5>2. CASE ref.hop = n + 1 /\ n + 1 < docdb[v].hop
          <6>1. n + 1 <= docdb[v].hop
            BY <1>2, <4>1, <5>2
          <6> QED
            BY <5>2, <6>1
        <5> QED
          BY <2>4, <4>1, <5>1, <5>2
      <4> QED
        BY <3>2, <4>1, <4>2
    <3>3. CASE w # v
      BY <2>3, <3>1, <3>3
    <3> QED
      BY <3>2, <3>3
  <2>7. ASSUME docdb[v] = NoDoc PROVE v \notin visited /\ v \notin StartURLs
    <3> SUFFICES ASSUME v \in visited PROVE FALSE
      BY <1>3
    <3>1. v \in Queued
      BY <1>6, <2>2, <2>7 DEF Stored
    <3>2. PICK s \in Servers : \E i \in 1..Len(queue[s]) : queue[s][i].url = v
      BY <3>1 DEF Queued
    <3>3. PICK i \in 1..Len(queue[s]) : queue[s][i].url = v
      BY <3>2
    <3>4. v \in StartURLs
      <4>1. queue[s][i] \in Entries(queue)
        BY <1>2
      <4> QED
        BY <2>7, <3>3, <4>1 DEF BeyondInv, WaitInv, MayWait
    <3>5. HopNow[v] = 0
      BY <1>14, <2>7 DEF HopNow
    <3>6. m = 0
      <4>1. queue[s] \in Seq(URLRef) /\ InOrder(queue[s], HopNow, m, Slack)
        BY <1>2, <1>4
      <4>2. m <= HopNow[queue[s][i].url]
        BY <1>2, <4>1, WithinOrder
      <4> QED
        BY <3>3, <3>5, <4>2
    <3>7. v \in Targets(u, {"ok"}) /\ web[u].status = "ok" /\ u \in Reach[n]
      BY <1>1, <1>8, <2>2 DEF BeyondInv, ParseInv
    <3>8. CASE n = 0
      <4>1. u \in StartURLs
        <5>1. \A w \in URLs : web[w].status # "redirect"
          BY DEF PlainWeb, CalmInv
        <5> QED
          BY <3>7, <3>8, <5>1, PlainReach
      <4>2. PICK k \in 1..Len(web[u].links) : web[u].links[k] = v
        BY <3>7 DEF Targets
      <4> QED
        BY <2>2, <3>4, <3>7, <4>1, <4>2 DEF PlainWeb, CalmInv
    <3>9. CASE n # 0
      <4>1. Slack = 1 /\ n = 1
        <5>1. n <= 0 + Slack /\ n \in Nat /\ (Slack = 0 \/ Slack = 1)
          BY <1>2, <1>4, <3>6
        <5> QED
          BY <3>9, <5>1
      <4>2. StartsApart
        BY <1>1, <4>1 DEF Slack, OneRestart, DigTypeOK
      <4>3. u \in Within(1)
        BY <3>7, <4>1, ReachHas
      <4> QED
        BY <2>2, <3>4, <3>7, <4>2, <4>3 DEF StartsApart
    <3> QED
      BY <3>8, <3>9
  <2>8. \A s \in Servers : InOrder(queue[s], HopNow', m, Slack)
    <3> SUFFICES ASSUME NEW s \in Servers PROVE InOrder(queue[s], HopNow', m, Slack)
      OBVIOUS
    <3>1. queue[s] \in Seq(URLRef) /\ InOrder(queue[s], HopNow, m, Slack) /\ n + 1 \in Nat
            /\ m + 1 <= n + 1
      BY <1>2, <1>4
    <3>2. ASSUME NEW i \in 1..Len(queue[s])
          PROVE  \/ HopNow'[queue[s][i].url] = HopNow[queue[s][i].url]
                 \/ HopNow'[queue[s][i].url] = n + 1 /\ n + 1 < HopNow[queue[s][i].url]
      <4> DEFINE w == queue[s][i].url
      <4>1. w \in Queued /\ w \in URLs
        BY <1>2
      <4>2. HopNow[w] = (IF docdb[w] = NoDoc THEN 0 ELSE docdb[w].hop)
              /\ HopNow'[w] = (IF docdb'[w] = NoDoc THEN 0 ELSE docdb'[w].hop)
        BY <4>1 DEF HopNow
      <4> HIDE DEF w
      <4>3. CASE w = v
        <5>1. docdb[v] # NoDoc
          BY <1>6, <2>7, <4>1, <4>3
        <5> QED
          BY <2>3, <2>4, <4>2, <4>3, <5>1 DEF w
      <4>4. CASE w # v
        BY <2>3, <4>1, <4>2, <4>4 DEF w
      <4> QED
        BY <4>3, <4>4
    <3> DEFINE q == queue[s]
               hop == HopNow
               new == HopNow'
               d == Slack
    <3>3. /\ q \in Seq(URLRef) /\ InOrder(q, hop, m, d) /\ n + 1 \in Nat /\ m + 1 <= n + 1
          /\ \A i \in 1..Len(q) : \/ new[q[i].url] = hop[q[i].url]
                                  \/ new[q[i].url] = n + 1 /\ n + 1 < hop[q[i].url]
          /\ hop \in [URLs -> Nat] /\ new \in [URLs -> Nat] /\ d \in {0, 1} /\ m \in Nat
      BY <1>2, <1>4, <3>1, <3>2
    <3>4. InOrder(q, new, m, d)
      <4> HIDE DEF q, hop, new, d
      <4> QED
        BY <3>3, LowerLast
    <3> QED
      BY <3>4
  <2>9. /\ \A s \in Servers : InOrder(queue'[s], HopNow', m, Slack)
        /\ visited \subseteq visited'
        /\ \A x \in Entries(queue') : x \in Entries(queue) \/ x.url = v
    <3>1. CASE v \in visited
      <4>1. UNCHANGED <<queue, visited>>
        BY <2>1, <3>1
      <4> QED
        BY <2>8, <4>1 DEF Entries
    <3>2. CASE v \notin visited
      <4> DEFINE x == [url |-> v, hop |-> ref.hop]
                 t == ServerOf[v]
      <4>1. docdb[v] = NoDoc /\ ref.hop = n + 1 /\ Push(queue, v, n + 1)
        BY <1>6, <1>14, <2>1, <3>2 DEF Stored
      <4>2. refused = {} /\ refused' = {} /\ n + 1 \in Nat
        BY <1>2 DEF OneRestart
      <4>3. queue' = [queue EXCEPT ![t] = Append(@, x)] /\ visited' = visited \cup {v}
        BY <4>1, <4>2 DEF Push
      <4>4. t \in Servers /\ x \in URLRef /\ x.url = v
        BY <1>14, <2>5, DigAssumption DEF URLRef
      <4>5. HopNow'[v] = n + 1
        BY <1>14, <2>3, <4>1 DEF HopNow
      <4>6. InOrder(Append(queue[t], x), HopNow', m, Slack)
        <5>1. queue[t] \in Seq(URLRef) /\ InOrder(queue[t], HopNow', m, Slack)
          BY <1>2, <2>8, <4>4
        <5>2. m + 1 <= HopNow'[x.url] /\ HopNow'[x.url] <= m + 1 + Slack
          BY <1>2, <1>4, <4>4, <4>5
        <5> HIDE DEF HopNow, t, x
        <5> QED
          BY <1>2, <4>4, <5>1, <5>2, AddLast
      <4>7. \A s \in Servers : InOrder(queue'[s], HopNow', m, Slack)
        <5> HIDE DEF HopNow, t, x
        <5> QED
          BY <1>2, <2>8, <4>3, <4>4, <4>6
      <4>8. Entries(queue') \subseteq Entries(queue) \cup {[url |-> v, hop |-> n + 1]}
        BY <1>2, <1>14, <4>1, <4>2, PushEntries
      <4>9. \A y \in Entries(queue') : y \in Entries(queue) \/ y.url = v
        <5>1. [url |-> v, hop |-> n + 1].url = v
          OBVIOUS
        <5> QED
          BY <4>8, <5>1
      <4> QED
        BY <4>3, <4>7, <4>9
    <3> QED
      BY <3>1, <3>2
  <2>10. \A w \in fetched \ {u} : Relaxed(w)' /\ docdb'[w].hop <= m + Slack
    <3> SUFFICES ASSUME NEW w \in fetched \ {u}
                 PROVE  Relaxed(w)' /\ docdb'[w].hop <= m + Slack
      OBVIOUS
    <3>1. w \in Stored /\ w \in URLs /\ docdb[w].hop \in Nat /\ docdb[w].hop <= m + Slack
            /\ docdb[w] # NoDoc
      BY <1>2, <1>4, <1>6 DEF Stored
    <3>2. docdb'[w].hop = docdb[w].hop
      <4>1. m + Slack <= n + 1
        BY <1>2, <1>4
      <4>2. CASE w = v
        <5>1. ~(n + 1 < docdb[w].hop)
          BY <1>2, <3>1, <4>1
        <5> QED
          BY <2>3, <2>4, <3>1, <4>2, <5>1
      <4>3. CASE w # v
        BY <2>3, <3>1, <4>3
      <4> QED
        BY <4>2, <4>3
    <3> QED
      BY <1>1, <1>4, <2>6, <3>1, <3>2, StillRelaxed
  <2>11. \A x \in Entries(queue') : docdb'[x.url] = NoDoc => x.hop = 0
    <3>1. \A x \in Entries(queue') : x.url \in URLs
      BY <1>2, <1>11
    <3> QED
      BY <1>3, <2>3, <2>9, <3>1
  <2>12. NewUnseen' /\ StartsAtZero'
    <3>1. \A w \in URLs : docdb'[w] # NoDoc /\ docdb'[w].got => w \in fetched
      BY <1>3, <2>1, <2>3 DEF Stored, NewUnseen
    <3>2. ASSUME NEW w \in StartURLs, w \in URLs, docdb'[w] # NoDoc PROVE docdb'[w].hop = 0
      <4>1. docdb[w] # NoDoc
        BY <2>3, <2>7, <3>2
      <4>2. docdb[w].hop = 0
        BY <1>3, <3>2, <4>1 DEF Stored, StartsAtZero
      <4>3. CASE w = v
        <5>1. ~(n + 1 < 0)
          BY <1>2
        <5> QED
          BY <2>3, <2>4, <4>1, <4>2, <4>3, <5>1
      <4>4. CASE w # v
        BY <2>3, <3>2, <4>2, <4>4
      <4> QED
        BY <4>3, <4>4
    <3> QED
      BY <1>1, <3>1, <3>2 DEF Stored, NewUnseen, StartsAtZero
  <2>13. DiggingInv'
    BY <1>1, <1>2, <1>3, <1>4, <1>9, <1>11, <2>9, <2>10, <2>11, <2>12 DEF DiggingInv
  <2>14. Known(v, n + 1)'
    BY <2>3, <2>5 DEF Known
  <2>15. docdb'[u] # NoDoc => docdb'[u].hop = n
    BY <1>2, <1>5, <2>2, <2>3
  <2>16. LinksInv'
    BY <1>12, <2>6, <2>14, <2>15
  <2> QED
    BY <2>13, <2>16
<1> QED
  BY <1>1, <1>13, <1>14

(* The page is stored with the hop count it had, and all its links are     *)
(* known. *)
LEMMA ParsedSearch ==
    ASSUME DigTypeOK, DigTypeOK', CrawlInv, DiggingInv, LinksInv, Parsed
    PROVE  DiggingInv' /\ LinksInv'
<1> SUFFICES ASSUME NEW u, u = cur.url, NEW ref, ref = cur.ref PROVE DiggingInv' /\ LinksInv'
  OBVIOUS
<1>1. /\ phase = "parse" /\ phase' = "dig" /\ cur.left = <<>> /\ cur \in Cur
      /\ docdb' = [docdb EXCEPT ![u] = ref]
      /\ UNCHANGED <<queue, visited, fetched, web, runs>>
  BY DEF Parsed, histVars, worldVars, countVars, DigTypeOK
<1>2. /\ u \in URLs /\ ref \in Doc /\ ref.hop \in Nat /\ docdb \in [URLs -> Doc \cup {NoDoc}]
      /\ HopNow \in [URLs -> Nat] /\ Slack' = Slack /\ Slack \in {0, 1}
      /\ \A w \in Stored : w \in URLs /\ docdb[w].hop \in Nat
      /\ \A x \in Entries(queue) : x.url \in Queued /\ x.url \in URLs
      /\ queue \in [Servers -> Seq(URLRef)]
      /\ \A s \in Servers : \A i \in 1..Len(queue[s]) : queue[s][i] \in Entries(queue)
  BY <1>1, Numbers DEF Cur, Doc, Slack
<1>3. /\ StartURLs \subseteq visited
      /\ \A x \in Entries(queue) : docdb[x.url] = NoDoc => x.hop = 0
      /\ NewUnseen /\ StartsAtZero
  BY <1>1 DEF DiggingInv, Running
<1>4. PICK m \in Nat : /\ \A s \in Servers : InOrder(queue[s], HopNow, m, Slack)
                       /\ \A w \in fetched \ {u} : Relaxed(w) /\ docdb[w].hop <= m + Slack
                       /\ ref.hop <= m + Slack
  BY <1>1 DEF DiggingInv, Running, Done
<1>5. /\ docdb[u] # NoDoc => docdb[u].hop = ref.hop
      /\ u \in StartURLs => ref.hop = 0
      /\ ref.hop + 1 <= MaxHops => \A w \in Targets(u, {"ok"}) \ {u} : Known(w, ref.hop + 1)
  BY <1>1 DEF LinksInv
<1>6. /\ fetched \subseteq Stored \cup {u} /\ u \in fetched
      /\ \A x \in Entries(queue) : x.url # u
  BY <1>1, <1>2 DEF CrawlInv, StoreInv, QueueInv
<1>7. docdb'[u] = ref /\ ref # NoDoc /\ \A w \in URLs \ {u} : docdb'[w] = docdb[w]
  BY <1>1, <1>2, DigAssumption
<1>8. HopsLower /\ \A w \in Stored : docdb'[w].hop = docdb[w].hop
  <2>1. \A w \in Stored : docdb'[w] # NoDoc /\ docdb'[w].hop = docdb[w].hop
    BY <1>2, <1>5, <1>7 DEF Stored
  <2>2. \A w \in Stored : docdb'[w].hop <= docdb[w].hop
    BY <1>2, <2>1
  <2> QED
    BY <2>1, <2>2 DEF HopsLower, Stored
<1>9. Entries(queue)' = Entries(queue) /\ Done' = fetched
  BY <1>1 DEF Entries, Done
<1>10. \A s \in Servers : InOrder(queue'[s], HopNow', m, Slack)
  <2>1. \A s \in Servers : \A i \in 1..Len(queue[s]) :
           HopNow'[queue[s][i].url] = HopNow[queue[s][i].url]
    <3>1. \A w \in URLs \ {u} : HopNow'[w] = HopNow[w]
      BY <1>7 DEF HopNow
    <3> QED
      BY <1>2, <1>6, <3>1
  <2> QED
    BY <1>1, <1>4, <2>1, SameOrder
<1>11. Relaxed(u)'
  <2>1. \A w : Targets(w, {"ok"})' = Targets(w, {"ok"}) /\ Targets(w, {"ok"}) \in SUBSET URLs
    BY <1>1, DigAssumption DEF Targets
  <2>2. ref.hop + 1 <= MaxHops => \A w \in Targets(u, {"ok"}) \ {u} : Known(w, ref.hop + 1)'
    BY <1>1, <1>2, <1>5, <1>8, <2>1, StillRelaxed
  <2> QED
    BY <1>7, <2>1, <2>2 DEF Relaxed, Known
<1>12. \A w \in fetched : Relaxed(w)' /\ docdb'[w].hop <= m + Slack
  <2>1. ASSUME NEW w \in fetched \ {u} PROVE Relaxed(w)' /\ docdb'[w].hop <= m + Slack
    <3>1. w \in Stored
      BY <1>6
    <3> QED
      BY <1>1, <1>4, <1>8, <2>1, <3>1, StillRelaxed
  <2>2. ASSUME NEW w \in fetched, w = u PROVE Relaxed(w)' /\ docdb'[w].hop <= m + Slack
    <3>1. Relaxed(w)'
      BY <1>11, <2>2 DEF Relaxed, Known, Targets
    <3> QED
      BY <1>4, <1>7, <2>2, <3>1
  <2> QED
    BY <2>1, <2>2
<1>13. \A x \in Entries(queue) : docdb'[x.url] = NoDoc => x.hop = 0
  BY <1>2, <1>3, <1>6, <1>7
<1>14. NewUnseen' /\ StartsAtZero'
  BY <1>1, <1>3, <1>5, <1>6, <1>7 DEF Stored, NewUnseen, StartsAtZero
<1> QED
  BY <1>1, <1>2, <1>3, <1>9, <1>10, <1>12, <1>13, <1>14 DEF DiggingInv, LinksInv

(* A restart takes the log for what waits and nothing else; a new run      *)
(* takes start_url. *)
LEMMA LoadSearch ==
    ASSUME PlainWeb, DigTypeOK, DigTypeOK', CrawlInv, CrawlInv', BeyondInv, OneRestart,
           OneRestart', web' = web, LoadingInv, Load
    PROVE  LoadingInv' /\ DiggingInv'
<1>1. /\ phase \in {"log", "db", "start"} /\ phase' \in {"log", "db", "start", "dig"}
      /\ UNCHANGED <<docdb, fetched, runs>> /\ urlLog' \subseteq urlLog
  BY DEF Load, InitialLog, InitialDb, InitialStart, Initial, LogRead, DbRead, Loaded,
     fileVars, countVars, histVars
<1>2. /\ HopNow' = HopNow /\ Slack' = Slack /\ Stored' = Stored
      /\ HopNow \in [URLs -> Nat] /\ Slack \in {0, 1} /\ queue \in [Servers -> Seq(URLRef)]
  BY <1>1, Numbers DEF HopNow, Slack, Stored
<1>3. HopsLower /\ NewUnseen' = NewUnseen /\ StartsAtZero' = StartsAtZero
  <2>1. \A u \in URLs : docdb[u] # NoDoc => docdb[u].hop \in Nat
    BY DEF DigTypeOK, FilesTypeOK, Doc
  <2> QED
    BY <1>1, <1>2, <2>1 DEF HopsLower, NewUnseen, StartsAtZero
<1>4. PICK m \in Nat : /\ \A u \in Waiting : m <= HopNow[u] /\ HopNow[u] <= m + Slack
                       /\ \A u \in fetched : Relaxed(u) /\ docdb[u].hop <= m + Slack
  BY <1>1 DEF LoadingInv, Loading
<1>5. /\ \A x \in Entries(queue) : x.hop = 0
      /\ NewUnseen /\ StartsAtZero
      /\ \/ /\ Waiting # {} /\ StartURLs \subseteq Waiting \cup fetched
            /\ phase = "db" => restart
         \/ /\ Stored = {} /\ fetched = {} /\ urlLog = {}
            /\ phase = "start" => StartURLs \subseteq todo \cup visited
  BY <1>1 DEF LoadingInv, Loading
<1>6. fetched \subseteq Stored
  BY <1>1 DEF CrawlInv, StoreInv, LoadInv, LogInv
<1>7. \A u \in fetched : Relaxed(u)' /\ docdb'[u].hop <= m + Slack'
  BY <1>1, <1>2, <1>3, <1>4, <1>6, StillRelaxed
<1>8. \A u \in URLs : Initial(u, restart, ~restart) \/ Initial(u, TRUE, TRUE) =>
          \/ UNCHANGED queue
          \/ Push(queue, u, 0)
  BY DEF Initial
<1>9. \A x \in Entries(queue)' : x.hop = 0
  <2>1. CASE queue' = queue
    BY <1>5, <2>1 DEF Entries
  <2>2. ASSUME NEW u \in URLs, Push(queue, u, 0) PROVE \A x \in Entries(queue)' : x.hop = 0
    <3>1. Entries(queue') \subseteq Entries(queue) \cup {[url |-> u, hop |-> 0]}
      BY <1>2, <2>2, PushEntries
    <3>2. Entries(queue)' \subseteq Entries(queue) \cup {[url |-> u, hop |-> 0]}
      BY <3>1 DEF Entries
    <3>3. [url |-> u, hop |-> 0].hop = 0
      OBVIOUS
    <3> QED
      BY <1>5, <3>2, <3>3
  <2>3. CASE LogRead \/ DbRead \/ Loaded
    BY <2>1, <2>3 DEF LogRead, DbRead, Loaded
  <2> QED
    BY <1>8, <2>1, <2>2, <2>3 DEF Load, InitialLog, InitialDb, InitialStart
<1>10. ASSUME Waiting' = Waiting \/ Stored = {}, phase' \in {"log", "db", "start"},
              Waiting' \subseteq URLs,
              \/ /\ Waiting' # {} /\ StartURLs \subseteq Waiting' \cup fetched
                 /\ phase' = "db" => restart'
              \/ /\ Stored = {} /\ fetched = {} /\ urlLog = {}
                 /\ phase' = "start" => StartURLs \subseteq todo' \cup visited'
       PROVE  LoadingInv' /\ DiggingInv'
  <2>1. \E k \in Nat : /\ \A u \in Waiting' : k <= HopNow[u] /\ HopNow[u] <= k + Slack
                       /\ \A u \in fetched : Relaxed(u)' /\ docdb'[u].hop <= k + Slack
    <3>1. CASE Waiting' = Waiting
      BY <1>2, <1>4, <1>7, <3>1
    <3>2. CASE Stored = {}
      <4>1. \A u \in URLs : HopNow[u] = 0
        BY <3>2 DEF HopNow, Stored
      <4>2. \A u \in Waiting' : 0 <= HopNow[u] /\ HopNow[u] <= 0 + Slack
        BY <1>2, <1>10, <4>1
      <4>3. fetched = {}
        BY <1>6, <3>2
      <4> QED
        BY <4>2, <4>3
    <3> QED
      BY <1>10, <3>1, <3>2
  <2>2. \/ /\ Waiting' # {} /\ StartURLs \subseteq Waiting' \cup fetched'
           /\ phase' = "db" => restart'
        \/ /\ Stored' = {} /\ fetched' = {} /\ urlLog' = {}
           /\ phase' = "start" => StartURLs \subseteq todo' \cup visited'
    BY <1>1, <1>2, <1>10
  <2>3. LoadingInv'
    BY <1>1, <1>2, <1>3, <1>5, <1>9, <2>1, <2>2 DEF LoadingInv
  <2> QED
    BY <1>10, <2>3 DEF DiggingInv, Running
<1>11. refused = {} /\ refused' = {} /\ Queued \subseteq URLs /\ Queued' \subseteq URLs
  BY DEF OneRestart, Queued
<1>12. ASSUME NEW u \in URLs, InitialLog(u) PROVE LoadingInv' /\ DiggingInv'
  <2>1. /\ u \in todo /\ todo' = todo \ {u} /\ phase = "log" /\ phase' = "log"
        /\ Initial(u, TRUE, TRUE)
    BY <1>12 DEF InitialLog, Initial
  <2>2. u \notin visited
    BY <2>1 DEF CrawlInv, LoadInv
  <2>3. Queued' = Queued \cup {u}
    BY <1>11, <2>1, <2>2, InitialFinds DEF CrawlInv
  <2>4. Waiting' = Waiting
    BY <2>1, <2>3, WaitingIs
  <2>5. Waiting' \subseteq URLs
    BY <1>11, <2>1, <2>4, WaitingIs DEF DigTypeOK
  <2> QED
    BY <1>5, <1>10, <2>1, <2>4, <2>5
<1>13. ASSUME NEW u \in URLs, InitialDb(u) PROVE LoadingInv' /\ DiggingInv'
  <2>1. /\ u \in todo /\ phase = "db" /\ phase' = "db" /\ restart' = restart
        /\ Initial(u, restart, ~restart) /\ restart \in BOOLEAN
    BY <1>13 DEF InitialDb, Initial, DigTypeOK
  <2>2. u \in Stored
    BY <2>1 DEF CrawlInv, LoadInv
  <2>3. restart
    BY <1>5, <2>1, <2>2
  <2>4. Queued' = Queued
    BY <2>1, <2>3, InitialFinds DEF CrawlInv
  <2>5. Waiting' = Waiting /\ Waiting' \subseteq URLs
    BY <1>11, <2>1, <2>4, WaitingIs
  <2> QED
    BY <1>5, <1>10, <2>1, <2>2, <2>5
<1>14. ASSUME NEW u \in URLs, InitialStart(u) PROVE LoadingInv' /\ DiggingInv'
  <2>1. /\ u \in todo /\ todo' = todo \ {u} /\ phase = "start" /\ phase' = "start"
        /\ Initial(u, TRUE, TRUE)
    BY <1>14 DEF InitialStart, Initial
  <2>2. /\ visited' = visited \cup {u}
        /\ Queued' = Queued \/ u \notin visited
    BY <2>1, InitialFinds DEF CrawlInv
  <2>3. Waiting = Queued /\ Waiting' = Queued' /\ Waiting' \subseteq URLs
    BY <1>11, <2>1, WaitingIs
  <2>4. CASE /\ Stored = {} /\ fetched = {} /\ urlLog = {}
             /\ StartURLs \subseteq todo \cup visited
    <3>1. StartURLs \subseteq todo' \cup visited'
      BY <2>1, <2>2, <2>4
    <3> QED
      BY <1>10, <2>1, <2>3, <2>4, <3>1
  <2>5. CASE Waiting # {} /\ StartURLs \subseteq Waiting \cup fetched
    <3>1. u \in StartURLs
      BY <2>1 DEF BeyondInv, WaitInv
    <3>2. u \in visited
      BY <2>1, <2>3, <2>5, <3>1 DEF CrawlInv, QueueInv, LoadInv
    <3>3. Waiting' = Waiting
      BY <2>2, <2>3, <3>2
    <3> QED
      BY <1>10, <2>1, <2>3, <2>5, <3>3
  <2> QED
    BY <1>5, <2>1, <2>4, <2>5
<1>15. CASE LogRead \/ DbRead
  <2>1. /\ todo = {} /\ queue' = queue /\ phase \in {"log", "db"} /\ phase' \in {"db", "start"}
        /\ phase' = "db" => restart' = (visited # {})
        /\ phase' = "start" => todo' = StartURLs
    BY <1>15 DEF LogRead, DbRead
  <2>2. Queued' = Queued
    BY <2>1 DEF Queued
  <2>3. Waiting = Queued /\ Waiting' = Waiting /\ Waiting' \subseteq URLs
    BY <1>11, <2>1, <2>2, WaitingIs
  <2>4. Waiting # {} /\ phase' = "db" => restart'
    BY <2>1, <2>3 DEF CrawlInv, QueueInv
  <2> QED
    BY <1>5, <1>10, <2>1, <2>3, <2>4
<1>16. CASE Loaded
  <2>1. /\ phase = "start" /\ phase' = "dig" /\ todo = {} /\ queue' = queue /\ visited' = visited
    BY <1>16 DEF Loaded
  <2>2. StartURLs \subseteq visited'
    <3>1. Waiting = Queued
      BY <2>1, WaitingIs
    <3> QED
      BY <1>5, <2>1, <3>1 DEF CrawlInv, QueueInv, LoadInv
  <2>3. \A s \in Servers : InOrder(queue'[s], HopNow', m, Slack')
    <3> SUFFICES ASSUME NEW s \in Servers PROVE InOrder(queue[s], HopNow, m, Slack)
      BY <1>2, <2>1
    <3>1. queue[s] \in Seq(URLRef)
      BY <1>2
    <3>2. \A i \in 1..Len(queue[s]) : queue[s][i].url \in Waiting
      <4>1. \A i \in 1..Len(queue[s]) : queue[s][i].url \in Queued
        BY Numbers
      <4> QED
        BY <2>1, <4>1, WaitingIs
    <3> QED
      BY <1>2, <1>4, <3>1, <3>2, AllFirst
  <2>4. Done' = fetched
    BY <1>1, <2>1 DEF Done
  <2>5. DiggingInv'
    BY <1>3, <1>5, <1>7, <1>9, <2>1, <2>2, <2>3, <2>4 DEF DiggingInv
  <2> QED
    BY <2>1, <2>5 DEF LoadingInv, Loading
<1> QED
  BY <1>12, <1>13, <1>14, <1>15, <1>16 DEF Load

(* A run starts with an empty database, or with the log of the first.      *)
LEMMA StartSearch ==
    ASSUME PlainWeb, DigTypeOK, DigTypeOK', CrawlInv, NotStarted, OneRestart', web' = web,
           runs = 0 \/ Searching, NEW initial \in InitialFlags, Start(initial)
    PROVE  LoadingInv'
<1>1. /\ phase = "down" /\ phase' = "log" /\ runs' = runs + 1 /\ runs \in Nat /\ runs < MaxRuns
      /\ queue' = queue /\ urlLog' = urlLog /\ todo' = urlLog
  BY DEF Start, DigTypeOK
<1>2. Queued = {} /\ Queued' = {} /\ Entries(queue)' = {}
  <2>1. Queued = {}
    BY <1>1 DEF CrawlInv, QueueInv, LoadInv
  <2>2. Queued' = Queued
    BY <1>1 DEF Queued
  <2> QED
    BY <1>1, <2>1, <2>2 DEF Entries, Queued, URLRef
<1>3. CASE runs = 0
  <2>1. Stored = {} /\ fetched = {} /\ urlLog = {}
    BY <1>3 DEF NotStarted
  <2>2. Stored' = {} /\ fetched' = {}
    BY <2>1 DEF Start, Stored
  <2>3. Waiting' = {}
    BY <1>1, <1>2, <2>1, WaitingIs
  <2>4. NewUnseen' /\ StartsAtZero'
    BY <2>2 DEF NewUnseen, StartsAtZero
  <2>5. \E m \in Nat : /\ \A u \in Waiting' : m <= HopNow'[u] /\ HopNow'[u] <= m + Slack'
                       /\ \A u \in fetched' : Relaxed(u)' /\ docdb'[u].hop <= m + Slack'
    BY <2>2, <2>3
  <2> QED
    BY <1>1, <1>2, <2>1, <2>2, <2>4, <2>5 DEF LoadingInv
<1>4. CASE runs # 0 /\ Searching
  <2>1. runs = 1 /\ urlLog # {}
    BY <1>1, <1>4 DEF OneRestart, Searching, DigDone
  <2>2. initial = FALSE
    <3>1. ~(MaxRuns <= 1)
      BY <1>1, <2>1, DigAssumption
    <3>2. InitialFlags \subseteq {FALSE}
      BY <3>1 DEF PlainWeb, NoForcedRestart
    <3> QED
      BY <3>2, Zenon
  <2>3. UNCHANGED <<docdb, fetched>>
    BY <2>1, <2>2 DEF Start
  <2>4. Waiting' = Waiting
    BY <1>1, <1>2, WaitingIs
  <2>5. HopNow' = HopNow /\ Slack' = Slack /\ Stored' = Stored
    BY <1>1, <2>1, <2>3 DEF HopNow, Slack, Stored
  <2>6. NewUnseen' = NewUnseen /\ StartsAtZero' = StartsAtZero
    BY <2>3, <2>5 DEF NewUnseen, StartsAtZero
  <2>7. /\ \E m \in Nat :
             /\ \A u \in Waiting : m <= HopNow[u] /\ HopNow[u] <= m + Slack
             /\ \A u \in fetched : Relaxed(u) /\ docdb[u].hop <= m + Slack
        /\ NewUnseen /\ StartsAtZero
        /\ Waiting # {} /\ StartURLs \subseteq Waiting \cup fetched
    <3>1. LoadingInv /\ Waiting = urlLog
      BY <1>1, <1>4, WaitingIs DEF Searching
    <3> QED
      BY <1>1, <2>1, <3>1 DEF LoadingInv
  <2>8. \A u : Relaxed(u)' = Relaxed(u)
    BY <2>3 DEF Relaxed, Known, Targets
  <2>9. \E m \in Nat : /\ \A u \in Waiting' : m <= HopNow'[u] /\ HopNow'[u] <= m + Slack'
                       /\ \A u \in fetched' : Relaxed(u)' /\ docdb'[u].hop <= m + Slack'
    BY <2>3, <2>4, <2>5, <2>7, <2>8
  <2> QED
    BY <1>1, <1>2, <2>3, <2>4, <2>6, <2>7, <2>9 DEF LoadingInv
<1> QED
  BY <1>3, <1>4

(* The run ends: what waits goes to the log, or the search is over.        *)
LEMMA EndSearch ==
    ASSUME DigTypeOK, CrawlInv, NotStarted, OneRestart, OneRestart', DiggingInv, web' = web,
           Finish \/ DumpLog \/ Crash
    PROVE  Settled' \/ (~DigDone' /\ LoadingInv')
<1>1. ~Crash
  BY DEF Crash, OneRestart
<1>2. /\ phase = "dig" /\ phase' = "down" /\ UNCHANGED <<docdb, fetched, runs>>
      /\ (Finish /\ urlLog' = urlLog) \/ urlLog' = Queued
      /\ queue' = [s \in Servers |-> <<>>] /\ todo' = {}
  BY <1>1 DEF Finish, DumpLog, CloseDb, ClearMemory, histVars, countVars
<1>3. /\ HopNow' = HopNow /\ Stored' = Stored /\ Slack \in {0, 1}
      /\ HopNow \in [URLs -> Nat] /\ queue \in [Servers -> Seq(URLRef)]
      /\ \A u \in Stored : docdb[u].hop \in Nat /\ u \in URLs
  BY <1>2, Numbers DEF HopNow, Stored
<1>4. /\ visited \subseteq Queued \cup fetched /\ Stored \cup StartURLs \subseteq visited
      /\ fetched \subseteq Stored /\ urlLog = {}
  BY <1>2 DEF CrawlInv, QueueInv, LoadInv, StoreInv, Found, OneRestart, DiggingInv, Running
<1>5. NewUnseen /\ StartsAtZero
  BY <1>2 DEF DiggingInv, Running
<1>6. PICK m \in Nat : /\ \A s \in Servers : InOrder(queue[s], HopNow, m, Slack)
                       /\ \A u \in fetched : Relaxed(u) /\ docdb[u].hop <= m + Slack
  BY <1>2 DEF DiggingInv, Running, Done
<1>7. \A u : Relaxed(u)' = Relaxed(u)
  BY <1>2 DEF Relaxed, Known, Targets
<1>8. Queued' = {} /\ Entries(queue)' = {}
  BY <1>2 DEF Queued, Entries
<1>9. Finish => Queued = {}
  <2>1. Finish => \A s \in Servers : queue[s] = <<>>
    BY <1>2 DEF Finish, CrawlInv, RoundInv
  <2> QED
    BY <2>1 DEF Queued
<1>10. NewUnseen' /\ StartsAtZero'
  BY <1>2, <1>3, <1>5 DEF NewUnseen, StartsAtZero
<1>11. urlLog' = Queued
  BY <1>2, <1>4, <1>9
<1>12. CASE Queued = {}
  <2>1. StartURLs \subseteq Stored /\ Stored \subseteq fetched
    BY <1>4, <1>12
  <2>2. \A u \in Stored' : Relaxed(u)'
    BY <1>3, <1>6, <1>7, <2>1
  <2> QED
    BY <1>2, <1>3, <1>8, <1>10, <1>11, <1>12, <2>1, <2>2 DEF Settled
<1>13. CASE Queued # {}
  <2>1. ~DigDone'
    BY <1>11, <1>13 DEF DigDone
  <2>2. Waiting' = Queued
    BY <1>2, <1>11, WaitingIs
  <2>3. ASSUME runs <= 1 PROVE LoadingInv'
    <3>1. Slack = 0 /\ Slack' = 1
      <4>1. runs = 1
        BY <1>2, <2>3 DEF NotStarted, DigTypeOK
      <4> QED
        BY <1>2, <4>1 DEF Slack
    <3>2. \A u \in Queued : m <= HopNow'[u] /\ HopNow'[u] <= m + Slack'
      <4> SUFFICES ASSUME NEW u \in Queued PROVE m <= HopNow[u] /\ HopNow[u] <= m + 1
        BY <1>3, <3>1
      <4>1. PICK s \in Servers : \E i \in 1..Len(queue[s]) : queue[s][i].url = u
        BY DEF Queued
      <4>2. PICK i \in 1..Len(queue[s]) : queue[s][i].url = u
        BY <4>1
      <4>3. queue[s] \in Seq(URLRef)
        BY <1>3
      <4>4. m <= HopNow[queue[s][i].url] /\ HopNow[queue[s][i].url] <= m + 1 + Slack
        BY <1>3, <1>6, <4>3, WithinOrder
      <4> QED
        BY <3>1, <4>2, <4>4
    <3>3. \A u \in fetched' : Relaxed(u)' /\ docdb'[u].hop <= m + Slack'
      <4>1. \A u \in fetched : docdb[u].hop <= m + 1
        BY <1>3, <1>4, <1>6, <3>1
      <4> QED
        BY <1>2, <1>6, <1>7, <3>1, <4>1
    <3>4. StartURLs \subseteq Waiting' \cup fetched' /\ Waiting' # {}
      BY <1>2, <1>4, <1>13, <2>2
    <3>5. \E k \in Nat : /\ \A u \in Waiting' : k <= HopNow'[u] /\ HopNow'[u] <= k + Slack'
                         /\ \A u \in fetched' : Relaxed(u)' /\ docdb'[u].hop <= k + Slack'
      BY <2>2, <3>2, <3>3
    <3> QED
      BY <1>2, <1>8, <1>10, <3>4, <3>5 DEF LoadingInv
  <2>4. CASE ~(runs <= 1)
    BY <1>2, <2>1, <2>4 DEF LoadingInv, Loading
  <2> QED
    BY <2>1, <2>3, <2>4
<1> QED
  BY <1>12, <1>13


(* What waits are the URLs of the entries. *)
LEMMA QueuedBy ==
    ASSUME DigTypeOK', NEW S, \A x \in Entries(queue') : x.url \in S
    PROVE  Queued' \subseteq S
<1> SUFFICES ASSUME NEW u \in Queued' PROVE u \in S
  OBVIOUS
<1>1. PICK s \in Servers : \E i \in 1..Len(queue'[s]) : queue'[s][i].url = u
  BY DEF Queued
<1>2. PICK i \in 1..Len(queue'[s]) : queue'[s][i].url = u
  BY <1>1
<1>3. queue'[s] \in Seq(URLRef)
  BY DEF DigTypeOK
<1>4. queue'[s][i] \in URLRef
  BY <1>3
<1>5. queue'[s][i] \in Entries(queue')
  BY <1>4 DEF Entries
<1> QED
  BY <1>2, <1>5

(* Where no hop count changes what was settled is. *)
LEMMA SettledKeeps ==
    ASSUME DigTypeOK, DigTypeOK', Settled, web' = web,
           \A u \in URLs : /\ docdb'[u] # NoDoc <=> docdb[u] # NoDoc
                           /\ docdb[u] # NoDoc => docdb'[u].hop = docdb[u].hop
    PROVE  Stored' = Stored /\ (\A u \in Stored' : Relaxed(u)') /\ StartsAtZero'
<1>1. Stored' = Stored
  BY DEF Stored
<1>2. HopsLower
  <2>1. \A u \in URLs : docdb'[u] # NoDoc => docdb'[u].hop \in Nat
    BY DEF DigTypeOK, FilesTypeOK, Doc
  <2> QED
    BY <2>1 DEF HopsLower
<1>3. \A u \in Stored : docdb'[u].hop = docdb[u].hop
  BY DEF Stored
<1>4. \A u \in Stored : Relaxed(u)'
  BY <1>2, <1>3, StillRelaxed DEF Settled
<1> QED
  BY <1>1, <1>3, <1>4 DEF Settled, StartsAtZero

(* ... even in a record that is written again. *)
LEMMA SettledPut ==
    ASSUME DigTypeOK, DigTypeOK', Settled, web' = web, NEW u \in Stored, NEW ref \in Doc,
           ref.hop = docdb[u].hop, docdb' = [docdb EXCEPT ![u] = ref]
    PROVE  Stored' = Stored /\ (\A w \in Stored' : Relaxed(w)') /\ StartsAtZero'
<1>1. u \in URLs /\ docdb[u] # NoDoc /\ docdb \in [URLs -> Doc \cup {NoDoc}] /\ ref # NoDoc
  BY DigAssumption DEF Stored, DigTypeOK, FilesTypeOK
<1>2. docdb'[u] = ref /\ \A w \in URLs \ {u} : docdb'[w] = docdb[w]
  BY <1>1
<1>3. \A w \in URLs : /\ docdb'[w] # NoDoc <=> docdb[w] # NoDoc
                      /\ docdb[w] # NoDoc => docdb'[w].hop = docdb[w].hop
  BY <1>1, <1>2
<1> QED
  BY <1>3, SettledKeeps

(* A page that is retrieved was known as well as it ever will be ... *)
LEMMA SettledRetrieve ==
    ASSUME PlainWeb, DigTypeOK, DigTypeOK', CrawlInv, CalmInv, Settled, web' = web,
           NEW s \in Servers, Retrieve(s), OneRestart'
    PROVE  Settled'
<1> SUFFICES ASSUME NEW r, r = Head(queue[s]), NEW u, u = r.url PROVE Settled'
  OBVIOUS
<1>1. /\ queue[s] # <<>> /\ r \in URLRef /\ u \in URLs /\ phase' \in {"dig", "parse"}
      /\ UNCHANGED <<urlLog, todo>>
  BY RetrieveHops DEF HopsRetrieved
<1>2. u \in Stored /\ HopOf(r) = docdb[u].hop
  <2>1. u \in Queued
    BY RetrieveFinds DEF CrawlInv
  <2> QED
    BY <2>1 DEF Settled, Stored, HopOf
<1>3. queue' = Popped(s) => Queued' \subseteq Queued
  <2>1. queue \in [Servers -> Seq(URLRef)]
    BY DEF DigTypeOK
  <2>2. queue' = Popped(s) => Entries(queue') \subseteq Entries(queue)
    BY <1>1, <2>1, PopEntries DEF Popped
  <2>3. \A x \in Entries(queue) : x.url \in Queued
    BY Numbers
  <2> QED
    BY <2>2, <2>3, QueuedBy
<1>4. CASE /\ phase' = "dig" /\ queue' = Popped(s)
           /\ \E ref \in Doc : ref.hop = HopOf(r) /\ docdb' = [docdb EXCEPT ![u] = ref]
  <2>1. PICK ref \in Doc : ref.hop = docdb[u].hop /\ docdb' = [docdb EXCEPT ![u] = ref]
    BY <1>2, <1>4
  <2>2. Stored' = Stored /\ (\A w \in Stored' : Relaxed(w)') /\ StartsAtZero'
    BY <1>2, <2>1, SettledPut
  <2> QED
    BY <1>1, <1>3, <1>4, <2>2 DEF Settled, DigDone
<1>5. CASE /\ phase' = "parse" /\ queue' = Popped(s) /\ docdb' = docdb
           /\ cur'.url = u /\ cur'.ref.hop = HopOf(r)
  <2>1. Stored' = Stored /\ (\A w \in Stored' : Relaxed(w)') /\ StartsAtZero'
    BY <1>5, SettledKeeps
  <2>2. docdb'[cur'.url] # NoDoc /\ docdb'[cur'.url].hop = cur'.ref.hop
    BY <1>2, <1>5 DEF Stored
  <2> QED
    BY <1>1, <1>3, <1>5, <2>1, <2>2 DEF Settled, DigDone
<1>6. Status(u, web[u]) # "redirect"
  BY <1>1 DEF Status, PlainWeb, CalmInv
<1>7. HopsRetrieved(s, web[u])
  BY RetrieveWhole DEF OneRestart
<1> QED
  BY <1>4, <1>5, <1>6, <1>7 DEF HopsRetrieved

(* ... and so were the pages that it links to. *)
LEMMA SettledParse ==
    ASSUME DigTypeOK, DigTypeOK', CrawlInv, BeyondInv, Settled, web' = web, GotHref \/ Parsed
    PROVE  Settled'
<1> SUFFICES ASSUME NEW u, u = cur.url, NEW n, n = cur.ref.hop PROVE Settled'
  OBVIOUS
<1>1. /\ phase = "parse" /\ phase' \in {"parse", "dig"} /\ cur \in Cur
      /\ UNCHANGED <<urlLog, todo>>
  BY GotHrefHops DEF Parsed, DigTypeOK
<1>2. u \in Stored /\ docdb[u].hop = n /\ u \in URLs /\ n \in Nat
  BY <1>1 DEF Settled, Stored, Cur, Doc
<1>3. CASE Parsed
  <2>1. cur.ref \in Doc /\ docdb' = [docdb EXCEPT ![u] = cur.ref] /\ phase' = "dig" /\ queue' = queue
    BY <1>1, <1>3 DEF Parsed, Cur
  <2>2. Stored' = Stored /\ (\A w \in Stored' : Relaxed(w)') /\ StartsAtZero'
    BY <1>2, <2>1, SettledPut
  <2>3. Queued' = Queued
    BY <2>1 DEF Queued
  <2> QED
    BY <1>1, <2>1, <2>2, <2>3 DEF Settled, DigDone
<1>4. CASE GotHref
  <2> SUFFICES ASSUME NEW v, v = Head(cur.left) PROVE Settled'
    OBVIOUS
  <2>1. /\ phase' = "parse" /\ cur.left # <<>> /\ cur'.url = u /\ cur'.ref.hop = n
        /\ cur.left \in Seq(URLs)
    BY <1>1, <1>4, GotHrefHops DEF Cur
  <2>2. Follows(v, n + 1) => Known(v, n + 1)
    <3>1. v = cur.left[1] /\ 1 \in 1..Len(cur.left) /\ v \in URLs
      BY <2>1
    <3>2. v \in Limits => v \in Targets(u, {"ok"})
      BY <1>1, <3>1 DEF BeyondInv, ParseInv, Links, Targets
    <3>3. Relaxed(u)
      BY <1>2 DEF Settled
    <3> QED
      BY <1>2, <3>2, <3>3 DEF Relaxed, Follows
  <2>3. CASE UNCHANGED <<docdb, queue>>
    <3>1. Queued' = Queued
      BY <2>3 DEF Queued
    <3>2. Stored' = Stored /\ (\A w \in Stored' : Relaxed(w)') /\ StartsAtZero'
      BY <2>3, SettledKeeps
    <3> QED
      BY <1>1, <1>2, <2>1, <2>3, <3>1, <3>2 DEF Settled, DigDone, Stored
  <2>4. CASE /\ Follows(v, n + 1) /\ v \in URLs
             /\ \E ref \in Doc :
                  /\ docdb' = [docdb EXCEPT ![v] = ref]
                  /\ ref.hop = IF docdb[v] = NoDoc THEN n + 1 ELSE Lower(docdb[v].hop, n + 1)
                  /\ v \in visited => queue' = queue
    <3>1. v \in Stored /\ docdb[v].hop \in Nat /\ docdb[v].hop <= n + 1
      BY <2>2, <2>4, Numbers DEF Known, Stored
    <3>2. PICK ref \in Doc : /\ docdb' = [docdb EXCEPT ![v] = ref]
                             /\ ref.hop = Lower(docdb[v].hop, n + 1)
                             /\ v \in visited => queue' = queue
      BY <2>4, <3>1 DEF Stored
    <3>3. ref.hop = docdb[v].hop
      BY <1>2, <3>1, <3>2 DEF Lower
    <3>4. Stored' = Stored /\ (\A w \in Stored' : Relaxed(w)') /\ StartsAtZero'
      BY <3>1, <3>2, <3>3, SettledPut
    <3>5. v \in visited
      BY <1>1, <3>1 DEF CrawlInv, LoadInv
    <3>6. Queued' = Queued
      BY <3>2, <3>5 DEF Queued
    <3>7. docdb'[u] # NoDoc /\ docdb'[u].hop = n
      <4>1. docdb \in [URLs -> Doc \cup {NoDoc}]
        BY DEF DigTypeOK, FilesTypeOK
      <4>2. u = v => docdb'[u] = ref /\ ref.hop = n
        BY <1>2, <3>1, <3>2, <3>3, <4>1 DEF Stored
      <4>3. u # v => docdb'[u] = docdb[u]
        BY <1>2, <3>2, <4>1
      <4>4. docdb'[u] # NoDoc
        BY <1>2, <3>4 DEF Stored
      <4> QED
        BY <1>2, <4>2, <4>3, <4>4
    <3> QED
      BY <1>1, <2>1, <3>4, <3>6, <3>7 DEF Settled, DigDone
  <2> QED
    BY <1>4, <2>3, <2>4, GotHrefHops
<1> QED
  BY <1>3, <1>4

(* Only what is stored is loaded. *)
LEMMA SettledLoad ==
    ASSUME DigTypeOK, DigTypeOK', CrawlInv, Settled, web' = web, Load
    PROVE  Settled'
<1>1. /\ phase' \in {"log", "db", "start", "dig"} /\ docdb' = docdb /\ urlLog' \subseteq urlLog
      /\ todo \subseteq Stored /\ queue \in [Servers -> Seq(URLRef)]
  BY DEF Load, InitialLog, InitialDb, InitialStart, Initial, LogRead, DbRead, Loaded, fileVars,
     Settled, DigTypeOK
<1>2. Stored' = Stored /\ (\A w \in Stored' : Relaxed(w)') /\ StartsAtZero'
  BY <1>1, SettledKeeps
<1>3. ASSUME todo' \subseteq Stored, Queued' \subseteq Stored PROVE Settled'
  BY <1>1, <1>2, <1>3 DEF Settled, DigDone
<1>4. ASSUME NEW u \in URLs, NEW skip, NEW pushes, Initial(u, skip, pushes) PROVE Settled'
  <2>1. todo' \subseteq Stored /\ u \in Stored
    BY <1>1, <1>4 DEF Initial
  <2>2. CASE queue' = queue
    <3>1. Queued' = Queued
      BY <2>2 DEF Queued
    <3> QED
      BY <1>3, <2>1, <3>1 DEF Settled
  <2>3. CASE Push(queue, u, 0)
    <3>1. Entries(queue') \subseteq Entries(queue) \cup {[url |-> u, hop |-> 0]}
      BY <1>1, <2>3, PushEntries
    <3>2. \A x \in Entries(queue) : x.url \in Stored
      BY Numbers DEF Settled
    <3>3. Queued' \subseteq Stored
      BY <2>1, <3>1, <3>2, QueuedBy
    <3> QED
      BY <1>3, <2>1, <3>3
  <2> QED
    BY <1>4, <2>2, <2>3 DEF Initial
<1>5. CASE LogRead \/ DbRead \/ Loaded
  <2>1. queue' = queue /\ todo' \subseteq Stored
    BY <1>1, <1>5 DEF LogRead, DbRead, Loaded, Settled
  <2>2. Queued' = Queued
    BY <2>1 DEF Queued
  <2> QED
    BY <1>3, <2>1, <2>2 DEF Settled
<1> QED
  BY <1>4, <1>5 DEF Load, InitialLog, InitialDb, InitialStart

(* A run begins with what is known, whether or not that is nothing. *)
LEMMA SettledStartsWith ==
    ASSUME DigTypeOK, DigTypeOK', Settled, web' = web, phase' = "log", queue' = queue,
           urlLog' = urlLog, todo' = urlLog,
           docdb' = docdb \/ \A u \in URLs : docdb'[u] = NoDoc /\ docdb[u] = NoDoc
    PROVE  Settled'
<1>1. Stored' = Stored /\ (\A w \in Stored' : Relaxed(w)') /\ StartsAtZero'
  BY SettledKeeps
<1>2. Queued' = Queued
  BY DEF Queued
<1> QED
  BY <1>1, <1>2 DEF Settled, DigDone

(* The next run starts with the database as it is ... *)
LEMMA SettledStart ==
    ASSUME PlainWeb, DigTypeOK, DigTypeOK', NotStarted, Settled, web' = web,
           NEW initial \in InitialFlags, Start(initial)
    PROVE  Settled'
<1>1. /\ phase' = "log" /\ queue' = queue /\ urlLog' = urlLog /\ todo' = urlLog
      /\ runs \in Nat /\ runs < MaxRuns
  BY DEF Start, DigTypeOK
<1>2. CASE initial
  <2>1. runs = 0
    <3>1. ~(InitialFlags \subseteq {FALSE})
      BY <1>2, Zenon
    <3>2. MaxRuns <= 1
      BY <3>1 DEF PlainWeb, NoForcedRestart
    <3> QED
      BY <1>1, <3>2, DigAssumption
  <2>2. Stored = {}
    BY <2>1 DEF NotStarted
  <2>3. \A u \in URLs : docdb'[u] = NoDoc /\ docdb[u] = NoDoc
    BY <1>2, <2>2 DEF Start, Stored
  <2> QED
    BY <2>3, SettledStartsWith, <1>1
<1>3. CASE ~initial
  <2>1. docdb' = docdb
    BY <1>3 DEF Start
  <2> QED
    BY <1>1, <2>1, SettledStartsWith
<1> QED
  BY <1>2, <1>3

(* ... and a run that ends has retrieved what is stored, or logs the rest. *)
LEMMA SettledEnd ==
    ASSUME DigTypeOK, DigTypeOK', CrawlInv, OneRestart, OneRestart', Settled, web' = web,
           Finish \/ DumpLog \/ Crash
    PROVE  Settled'
<1>1. ~Crash
  BY DEF Crash, OneRestart
<1>2. /\ phase = "dig" /\ phase' = "down" /\ UNCHANGED <<docdb, fetched>>
      /\ (Finish /\ urlLog' = urlLog) \/ urlLog' = Queued
      /\ queue' = [s \in Servers |-> <<>>] /\ todo' = {}
  BY <1>1 DEF Finish, DumpLog, CloseDb, ClearMemory, histVars
<1>3. /\ visited \subseteq Queued \cup fetched /\ Stored \subseteq visited /\ urlLog = {}
  BY <1>2 DEF CrawlInv, QueueInv, LoadInv, StoreInv, Found, OneRestart
<1>4. Stored' = Stored /\ (\A w \in Stored' : Relaxed(w)') /\ StartsAtZero'
  BY <1>2, SettledKeeps
<1>5. Queued' = {}
  BY <1>2 DEF Queued
<1>6. urlLog' = Queued
  <2>1. Finish => \A s \in Servers : queue[s] = <<>>
    BY <1>2 DEF Finish, CrawlInv, RoundInv
  <2>2. Finish => Queued = {}
    BY <2>1 DEF Queued
  <2> QED
    BY <1>2, <1>3, <2>2
<1>7. DigDone' => Stored' \subseteq fetched'
  BY <1>2, <1>3, <1>4, <1>6 DEF DigDone
<1> QED
  BY <1>2, <1>4, <1>5, <1>6, <1>7 DEF Settled

(* What does not touch the search leaves it as it is. *)
LEMMA OtherSearch ==
    ASSUME PlainWeb, DigTypeOK, web' = web, Searching \/ Settled,
           (\E s \in Servers : SkipServer(s)) \/ NewRound \/ Signal \/ Htdump \/ World
             \/ UNCHANGED vars
    PROVE  (Searching \/ Settled)'
<1>1. /\ UNCHANGED <<docdb, queue, visited, fetched, phase, todo, cur, urlLog, runs>>
      /\ restart' = restart
  BY DEF SkipServer, IsNext, NewRound, Signal, Htdump, World, Publish, Outage, vars, fileVars, memVars,
     countVars, histVars, PlainWeb
<1>2. /\ Entries(queue)' = Entries(queue) /\ Stored' = Stored /\ Done' = Done
      /\ Running' = Running /\ Loading' = Loading /\ DigDone' = DigDone
      /\ HopNow' = HopNow /\ Slack' = Slack /\ Queued' = Queued
  BY <1>1 DEF Entries, Stored, Done, Running, Loading, DigDone, HopNow, Slack, Queued
<1>3. \A u : Targets(u, {"ok"})' = Targets(u, {"ok"})
  BY <1>1 DEF Targets
<1>4. \A u : Relaxed(u)' = Relaxed(u)
  BY <1>1, <1>3 DEF Relaxed, Known
<1>5. StartsAtZero' = StartsAtZero /\ NewUnseen' = NewUnseen
  BY <1>1, <1>2 DEF StartsAtZero, NewUnseen
<1>6. Waiting' = Waiting
  <2>1. phase \in {"down", "log", "db", "start", "dig", "parse"}
    BY DEF DigTypeOK
  <2> QED
    BY <1>1, <1>2, <2>1, WaitingIs
<1>7. CASE Settled
  <2>1. Settled'
    BY <1>1, <1>2, <1>4, <1>5, <1>7 DEF Settled, Relaxed, Known, Targets
  <2> QED
    BY <2>1
<1>8. CASE Searching
  <2>1. ~DigDone' /\ LoadingInv /\ DiggingInv /\ LinksInv
    BY <1>2, <1>8 DEF Searching
  <2>2. LoadingInv'
    BY <1>1, <1>2, <1>5, <1>6, <2>1 DEF LoadingInv, Relaxed, Known, Targets
  <2>3. DiggingInv'
    BY <1>1, <1>2, <1>5, <2>1 DEF DiggingInv, Relaxed, Known, Targets
  <2>4. LinksInv'
    BY <1>1, <1>2, <2>1 DEF LinksInv, Known, Targets
  <2> QED
    BY <2>1, <2>2, <2>3, <2>4 DEF Searching
<1> QED
  BY <1>7, <1>8

(* No step of what was settled unsettles it ... *)
LEMMA SettledStep ==
    ASSUME PlainWeb, DigTypeOK, DigTypeOK', CrawlInv, BeyondInv, CalmInv, NotStarted,
           OneRestart, OneRestart', Settled, web' = web, [DigNext]_vars
    PROVE  (Searching \/ Settled)'
<1>1. CASE \E initial \in InitialFlags : Start(initial)
  BY <1>1, SettledStart
<1>2. CASE Load
  BY <1>2, SettledLoad
<1>3. CASE \E s \in Servers : Retrieve(s)
  BY <1>3, SettledRetrieve
<1>4. CASE GotHref \/ Parsed
  BY <1>4, SettledParse
<1>5. CASE Finish \/ DumpLog \/ Crash
  BY <1>5, SettledEnd
<1>6. CASE (\E s \in Servers : SkipServer(s)) \/ NewRound \/ Signal \/ Htdump \/ World
             \/ UNCHANGED vars
  BY <1>6, OtherSearch
<1> QED
  BY <1>1, <1>2, <1>3, <1>4, <1>5, <1>6 DEF DigNext, Work

(* ... and no step of the search breaks its order. *)
LEMMA SearchingStep ==
    ASSUME PlainWeb, DigTypeOK, DigTypeOK', CrawlInv, CrawlInv', BeyondInv, CalmInv, NotStarted,
           OneRestart, OneRestart', Searching, web' = web, [DigNext]_vars
    PROVE  (Searching \/ Settled)'
<1>1. LoadingInv /\ DiggingInv /\ LinksInv
  BY DEF Searching
<1>2. phase' # "down" => ~DigDone'
  BY DEF DigDone
<1>3. phase' \in {"dig", "parse"} => LoadingInv'
  BY DEF LoadingInv, Loading
<1>4. phase' \notin {"dig", "parse"} => DiggingInv' /\ LinksInv'
  BY DEF DiggingInv, Running, LinksInv
<1>5. CASE \E initial \in InitialFlags : Start(initial)
  <2>1. PICK initial \in InitialFlags : Start(initial)
    BY <1>5
  <2>2. LoadingInv'
    BY <2>1, StartSearch
  <2>3. phase' = "log"
    BY <2>1 DEF Start
  <2> QED
    BY <1>2, <1>4, <2>2, <2>3 DEF Searching
<1>6. CASE Load
  <2>1. LoadingInv' /\ DiggingInv'
    BY <1>1, <1>6, LoadSearch
  <2>2. phase' \in {"log", "db", "start", "dig"}
    BY <1>6 DEF Load, InitialLog, InitialDb, InitialStart, Initial, LogRead, DbRead, Loaded
  <2>3. LinksInv'
    BY <2>2 DEF LinksInv
  <2> QED
    BY <1>2, <2>1, <2>2, <2>3 DEF Searching
<1>7. CASE \E s \in Servers : Retrieve(s)
  <2>1. PICK s \in Servers : Retrieve(s)
    BY <1>7
  <2>2. DiggingInv' /\ LinksInv'
    BY <1>1, <2>1, RetrieveSearch
  <2>3. phase' \in {"dig", "parse"}
    BY <2>1, RetrieveHops DEF HopsRetrieved
  <2> QED
    BY <1>2, <1>3, <2>2, <2>3 DEF Searching
<1>8. CASE GotHref
  <2>1. DiggingInv' /\ LinksInv'
    BY <1>1, <1>8, GotHrefSearch
  <2>2. phase' = "parse"
    BY <1>8, GotHrefHops
  <2> QED
    BY <1>2, <1>3, <2>1, <2>2 DEF Searching
<1>9. CASE Parsed
  <2>1. DiggingInv' /\ LinksInv'
    BY <1>1, <1>9, ParsedSearch
  <2>2. phase' = "dig"
    BY <1>9 DEF Parsed
  <2> QED
    BY <1>2, <1>3, <2>1, <2>2 DEF Searching
<1>10. CASE Finish \/ DumpLog \/ Crash
  <2>1. Settled' \/ (~DigDone' /\ LoadingInv')
    BY <1>1, <1>10, EndSearch
  <2>2. phase' = "down"
    BY <1>10 DEF Finish, DumpLog, Crash, CloseDb
  <2> QED
    BY <1>4, <2>1, <2>2 DEF Searching
<1>11. CASE (\E s \in Servers : SkipServer(s)) \/ NewRound \/ Signal \/ Htdump \/ World
             \/ UNCHANGED vars
  BY <1>11, OtherSearch
<1> QED
  BY <1>5, <1>6, <1>7, <1>8, <1>9, <1>10, <1>11 DEF DigNext, Work

(* No step breaks the invariant. *)
LEMMA BreadthStep ==
    ASSUME PlainWeb, DigTypeOK, DigTypeOK', CrawlInv, CrawlInv', BeyondInv, BreadthInv,
           [DigNext]_vars
    PROVE  BreadthInv'
<1>1. CalmInv /\ NotStarted /\ NeverRefused
  BY DEF BreadthInv
<1>2. web' = web
  BY WebStays DEF PlainWeb
<1>3. CalmInv' /\ NotStarted'
  BY <1>1, CalmStays, StillNotStarted
<1>4. NeverRefused'
  BY <1>1, <1>3, RefusesNothing
<1>5. ASSUME OneRestart' PROVE (Searching \/ Settled)'
  <2>1. OneRestart
    BY <1>1, <1>2, <1>5, OneRestartSoFar
  <2>2. Searching \/ Settled
    BY <2>1 DEF BreadthInv
  <2> QED
    BY <1>1, <1>2, <1>5, <2>1, <2>2, SearchingStep, SettledStep
<1> QED
  BY <1>3, <1>4, <1>5 DEF BreadthInv

(* At first there is nothing. *)
LEMMA InitBreadth == DigInit => BreadthInv
<1> SUFFICES ASSUME DigInit PROVE BreadthInv
  OBVIOUS
<1>1. /\ phase = "down" /\ urlLog = {} /\ docdb = [u \in URLs |-> NoDoc] /\ fetched = {}
      /\ refused = {} /\ cut = {} /\ web = Web0 /\ down = {} /\ bad = {} /\ runs = 0
  BY DEF DigInit, FilesInit, MemInit
<1>2. Stored = {}
  BY <1>1 DEF Stored
<1>3. Searching
  BY <1>1 DEF Searching, LoadingInv, Loading, DiggingInv, Running, LinksInv, DigDone
<1> QED
  BY <1>1, <1>2, <1>3 DEF BreadthInv, CalmInv, NotStarted, NeverRefused

-----------------------------------------------------------------------------
(* A dig of a plain web is a breadth-first search, even if it was stopped  *)
(* once. *)

(* There is no Location that could be cut. *)
LEMMA PlainLocations == PlainWeb /\ DigTypeOK /\ BreadthInv => LocationsWhole
BY DEF BreadthInv, CalmInv, PlainWeb, LocationsWhole, DigTypeOK

(* A dig of a plain web goes breadth first: of what waits the first part   *)
(* is as far away as what was last retrieved and the rest one click more   *)
(* (Server::push at the end, pop from the front), and what was retrieved   *)
(* has its links known one click on (got_href); the log that a stopped dig *)
(* leaves (Retriever::Start on SIGINT) is read back in any order, so a     *)
(* restarted one is out of order by at most one click.  This is so as long *)
(* as no signal comes while a header is read or a connection is made       *)
(* (Connection.cc:438): the links of a page that one cuts short are lost.  *)
THEOREM BreadthInductive == ASSUME PlainWeb PROVE DigSpec => []BreadthInv
<1>1. Edits = {} /\ NoForcedRestart
  BY DEF PlainWeb
<1>2. DigTypeOK /\ BreadthInv => LocationsWhole
  BY PlainLocations
<1> QED
  BY <1>1, <1>2, InitBreadth, BreadthStep, CrawlInductive, BeyondInductive, TypeCorrect, PTL
     DEF DigSpec

(* A finished dig has retrieved what is so many clicks away, and says so.  *)
LEMMA Clicks ==
    ASSUME PlainWeb, DigTypeOK, CalmInv, Settled, DigDone
    PROVE  \A n \in Nat : n <= MaxHops =>
              \A u \in Reach[n] : u \in Stored /\ u \in fetched /\ docdb[u].hop <= n
<1> DEFINE P == {n \in Nat : n <= MaxHops => \A u \in Reach[n] : u \in Stored /\ docdb[u].hop <= n}
<1>1. /\ Reach[0] = StartURLs
      /\ \A n \in Nat : Reach[n + 1] = Reach[n] \cup UNION {Targets(u, {"ok"}) : u \in Reach[n]}
  BY PlainReach DEF PlainWeb, CalmInv
<1>2. /\ StartURLs \subseteq Stored /\ Stored \subseteq fetched
      /\ \A u \in Stored : Relaxed(u)
      /\ \A u \in StartURLs : docdb[u].hop = 0
  BY DEF Settled, StartsAtZero
<1>3. \A u \in Stored : docdb[u].hop \in Nat
  BY Numbers
<1>4. \A u : Targets(u, {"ok"}) \in SUBSET URLs
  BY DigAssumption DEF Targets
<1>5. 0 \in P
  BY <1>1, <1>2
<1>6. ASSUME NEW n \in P PROVE n + 1 \in P
  <2> SUFFICES ASSUME n + 1 <= MaxHops, NEW v \in Reach[n + 1]
               PROVE  v \in Stored /\ docdb[v].hop <= n + 1
    OBVIOUS
  <2>1. n \in Nat /\ MaxHops \in Nat /\ n <= MaxHops
    BY DigAssumption
  <2>2. \A u \in Reach[n] : u \in Stored /\ docdb[u].hop <= n
    BY <2>1
  <2> HIDE DEF P
  <2>3. CASE v \in Reach[n]
    BY <1>3, <2>1, <2>2, <2>3
  <2>4. CASE v \notin Reach[n]
    <3>1. PICK u \in Reach[n] : v \in Targets(u, {"ok"})
      BY <1>1, <2>1, <2>4
    <3>2. u \in Stored /\ docdb[u].hop \in Nat /\ docdb[u].hop <= n /\ v # u /\ v \in URLs
      BY <1>3, <1>4, <2>2, <2>4, <3>1
    <3>3. Known(v, docdb[u].hop + 1)
      BY <1>2, <2>1, <3>1, <3>2 DEF Relaxed
    <3>4. v \in Stored /\ docdb[v].hop \in Nat /\ docdb[v].hop <= docdb[u].hop + 1
      BY <1>3, <3>2, <3>3 DEF Known, Stored
    <3> QED
      BY <2>1, <3>2, <3>4
  <2> QED
    BY <2>3, <2>4
<1> HIDE DEF P
<1>7. Nat \subseteq P
  BY <1>5, <1>6, FromZero
<1> QED
  BY <1>2, <1>7 DEF P

(* When a dig of a plain web is finished, the first or the one after it,   *)
(* and that one may have been stopped between two retrievals or while a    *)
(* body was read and have left a log, it has retrieved exactly the pages   *)
(* at most max_hop_count clicks from start_url: one queue per server,      *)
(* taken from the front and pushed at the end (Server::push and pop), and  *)
(* hop counts that are only stored with a new record or lowered (got_href) *)
(* make a breadth-first search. *)
THEOREM OneRestartReaches ==
    ASSUME PlainWeb
    PROVE  DigSpec => [](OneRestart => ReachesExactly)
<1>1. Edits = {} /\ NoForcedRestart
  BY DEF PlainWeb
<1>2. ASSUME DigTypeOK, BreadthInv, OnlyNear
      PROVE  OneRestart => ReachesExactly
  <2> SUFFICES ASSUME OneRestart PROVE ReachesExactly
    OBVIOUS
  <2>1. MaxHops \in Nat /\ Reach[MaxHops] = Within(MaxHops)
    BY ReachHas, DigAssumption
  <2>2. DigDone => \A u \in Reach[MaxHops] : u \in fetched
    BY <1>2, <2>1, Clicks DEF BreadthInv, Searching
  <2> QED
    BY <1>2, <2>1, <2>2 DEF ReachesExactly, ReachesEnough, OnlyNear
<1>3. DigTypeOK /\ BreadthInv => LocationsWhole
  BY PlainLocations
<1> QED
  BY <1>1, <1>2, <1>3, BreadthInductive, NothingBeyond, TypeCorrect, PTL

(* ... and the hop count it stored for each is the number of clicks that   *)
(* lead to it. *)
THEOREM OneRestartCounts ==
    ASSUME PlainWeb
    PROVE  DigSpec => [](OneRestart => HopsAreClicks)
<1>1. Edits = {} /\ NoForcedRestart
  BY DEF PlainWeb
<1>2. ASSUME DigTypeOK, BreadthInv, OnlyNear
      PROVE  OneRestart => HopsAreClicks
  <2> SUFFICES ASSUME OneRestart, DigDone, NEW u \in Stored, NEW n \in 0..MaxHops
               PROVE  (u \in Within(n)) <=> (docdb[u].hop <= n)
    BY DEF HopsAreClicks
  <2>1. MaxHops \in Nat /\ n \in Nat /\ n <= MaxHops /\ Reach[n] = Within(n)
    BY ReachHas, DigAssumption
  <2>2. u \in Within(n) => docdb[u].hop <= n
    BY <1>2, <2>1, Clicks DEF BreadthInv, Searching
  <2>3. docdb[u].hop <= n => u \in Within(n)
    <3>1. docdb[u].hop \in Nat
      BY <1>2 DEF Stored, DigTypeOK, FilesTypeOK, Doc
    <3>2. u \in Within(docdb[u].hop)
      BY <1>2 DEF OnlyNear
    <3> QED
      BY <2>1, <3>1, <3>2, WithinGrows
  <2> QED
    BY <2>2, <2>3
<1>3. DigTypeOK /\ BreadthInv => LocationsWhole
  BY PlainLocations
<1> QED
  BY <1>1, <1>2, <1>3, BreadthInductive, NothingBeyond, TypeCorrect, PTL

=============================================================================
