------------------------------ MODULE MCParts ------------------------------
(***************************************************************************)
(* The parts of htdig, htmerge, htload and htlib that work for themselves: *)
(* a request, the delays, robots.txt, a dictionary, htdump and htload,     *)
(* mergeWords, htmerge -m, htnotify.  They share no state, so that one of  *)
(* them is looked at at a time while the others stand in one state.        *)
(***************************************************************************)
EXTENDS Transport, ServerDelay, Robots, Dictionary, LoadDump, Words, MergeDB, Notify

CONSTANTS
    a, b,                \* URLs
    k1, k2, k3, k4, k5   \* keys

VARIABLE component

partsVars == <<component, transportVars, delayVars, robotsVars, dictVars, loadVars,
               wordsVars, allVars, notifyVars>>

-----------------------------------------------------------------------------
(* Answers of up to four pieces. *)
TypicalAnswers ==
    {s \in [code : {200, 302, 304, 401, 404},
            fields : {{"status"}, {"status", "length"}, {"status", "location"},
                      {"status", "date", "type", "length"}},
            type : {"text", "other"}, length : {-1, 2, 5}, body : {0, 2, 4}] :
        /\ s.length = -1 <=> "length" \notin s.fields
        /\ "type" \notin s.fields => s.type = "text"
        /\ "location" \in s.fields => s.code = 302
        /\ s.code # 200 => s.body = 2 /\ s.length \in {-1, 2}}

AllFiles == UNION {[1..n -> RobotsLine] : n \in 0..4}

(* Five keys of a table of two buckets that grows to five. *)
FiveKeys == {k1, k2, k3, k4, k5}

Hashes == [k \in Keys |-> CASE k = k1 -> 0 [] k = k2 -> 7 [] k = k3 -> 4
                            [] k = k4 -> 13 [] OTHER -> 24]

R(id, n, loc, anchor) == [id |-> id, count |-> n, weight |-> n, location |-> loc, anchor |-> anchor]

SomeLines ==
    {[mark |-> "-", id |-> 1], [mark |-> "!", id |-> 2], [mark |-> "+", id |-> 1],
     [word |-> 1, rec |-> R(1, 1, 5, 0)], [word |-> 1, rec |-> R(1, 2, 3, 2)],
     [word |-> 1, rec |-> R(2, 1, 4, 1)],
     [word |-> 2, rec |-> R(1, 1, 1, 3)], [word |-> 2, rec |-> R(2, 1, 1, 0)]}

ShortLists == UNION {[1..n -> SomeLines] : n \in 0..5}

AnyRecord == {R(0, 0, 0, 0)}

-----------------------------------------------------------------------------
(* Databases of two URLs whose lists were cleaned by htmerge; the own list *)
(* may have been added to by a dig since: document 2 was superseded or     *)
(* document 1 is unchanged. *)
Pages == {a, b}

D(id, t) == [id |-> id, hop |-> 0, got |-> TRUE, time |-> t, state |-> "normal", head |-> TRUE,
             descriptions |-> {}]

WordsOf(db) ==
    {[id |-> db[u].id, url |-> u, text |-> PageText(u, db[u].time)] :
        u \in {v \in URLs : db[v] # NoDoc}}

Clean(some) ==
    {[db |-> f, next |-> 3, words |-> WordsOf(f), marks |-> {}] :
        f \in {g \in [URLs -> {NoDoc} \cup {D(i, t) : i \in some, t \in {1, 2}}] :
                 \A u, v \in URLs : u # v /\ g[u] # NoDoc /\ g[v] # NoDoc => g[u].id # g[v].id}}

Dug(s) ==
    {[s EXCEPT !.words = @ \cup {[id |-> 2, url |-> a, text |-> PageText(a, 0)]}, !.marks = {[mark |-> "!", id |-> 2]}],
     [s EXCEPT !.marks = {[mark |-> "+", id |-> 1]}]}

Own == LET clean == Clean({0, 1}) IN clean \cup UNION {Dug(s) : s \in clean}

Theirs == {s \in Clean({0, 2}) : \E u \in URLs : s.db[u] # NoDoc}

WholeJob == {{"words", "docs"}}

-----------------------------------------------------------------------------
(* Any date in one document, and a few in another one; today is the 13th   *)
(* of December 2001. *)
Parts == {-1, 0, 12, 13, 31, 32, 69, 99, 2001}
Dates == {n \in Parts \X Parts \X Parts : \A i \in 1..2 : n[i] = -1 => n[i + 1] = -1}
FewDates == {<<1, 31, 99>>, <<2001, 12, 13>>, <<0, 0, 0>>}
SomeRequests ==
    {[p \in Noted |-> IF p = 1 THEN [date |-> n, email |-> "author"] ELSE [date |-> m, email |-> e]] :
        n \in Dates, m \in FewDates, e \in Emails}
Today == [year |-> 2001, month |-> 12, day |-> 13]

-----------------------------------------------------------------------------
(* Where the parts stand that are not looked at; those with many initial   *)
(* states come last. *)
AnAnswer == CHOOSE s \in TypicalAnswers : TRUE
OwnOnes == CHOOSE s \in Own : TRUE
OtherOnes == CHOOSE s \in Theirs : TRUE
ARequest == CHOOSE r \in SomeRequests : TRUE

PartsInit ==
    /\ component \in {"request", "delay", "robots", "dictionary", "load", "words", "merge",
                      "notify"}
    /\ component # "request" => answer = AnAnswer
    /\ component # "robots" => file = <<>>
    /\ component # "words" => lines = <<>> /\ removeBadUrls = FALSE
    /\ component # "merge" => original = OwnOnes /\ other = OtherOnes
    /\ component # "notify" => asked = ARequest /\ iso8601 = TRUE /\ NotifyInit
    /\ TransportInit /\ DelayInit /\ DictInit /\ LoadInit /\ MergeDBInit
    /\ RobotsInit /\ WordsInit
    /\ component = "notify" => NotifyInit

PartsNext ==
    /\ UNCHANGED component
    /\ \/ component = "request" /\ TransportNext
          /\ UNCHANGED <<delayVars, robotsVars, dictVars, loadVars, wordsVars, allVars, notifyVars>>
       \/ component = "delay" /\ DelayNext
          /\ UNCHANGED <<transportVars, robotsVars, dictVars, loadVars, wordsVars, allVars, notifyVars>>
       \/ component = "robots" /\ RobotsNext
          /\ UNCHANGED <<transportVars, delayVars, dictVars, loadVars, wordsVars, allVars, notifyVars>>
       \/ component = "dictionary" /\ DictNext
          /\ UNCHANGED <<transportVars, delayVars, robotsVars, loadVars, wordsVars, allVars, notifyVars>>
       \/ component = "load" /\ LoadNext
          /\ UNCHANGED <<transportVars, delayVars, robotsVars, dictVars, wordsVars, allVars, notifyVars>>
       \/ component = "words" /\ WordsNext
          /\ UNCHANGED <<transportVars, delayVars, robotsVars, dictVars, loadVars, allVars, notifyVars>>
       \/ component = "merge" /\ MergeDBNext
          /\ UNCHANGED <<transportVars, delayVars, robotsVars, dictVars, loadVars, wordsVars, notifyVars>>
       \/ component = "notify" /\ NotifyNext
          /\ UNCHANGED <<transportVars, delayVars, robotsVars, dictVars, loadVars, wordsVars, allVars>>

PartsSpec == PartsInit /\ [][PartsNext]_partsVars

=============================================================================
