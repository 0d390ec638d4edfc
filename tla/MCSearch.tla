------------------------------ MODULE MCSearch ------------------------------
(***************************************************************************)
(* The parts of htsearch and of the libraries, and a parser: a query, the  *)
(* pages of its matches, the range of dates, the matching of patterns, the *)
(* codes of the document database, the database, URLs, an HTML document,   *)
(* a list.  They share no state, so that one of them is looked at at a     *)
(* time while the others stand in one state.                               *)
(***************************************************************************)
EXTENDS Query, Display, DateRange, Patterns, DocStore, URL,
        HTML, List

CONSTANTS u, v, w   \* words

VARIABLE component

searchVars == <<component, queryVars, displayVars, rangeVars, matchVars, storeVars,
                urlVars, htmlVars, listVars>>

(* Documents are told apart by the words they have. *)
AllDocs == SUBSET Words
WhoHas == [x \in Words |-> {d \in AllDocs : x \in d}]

(* All short queries, and long ones with parentheses. *)
ShortQueries == UNION {[1..n -> {"&", "!", "(", ")", "ignored", u, v}] : n \in 0..4}

Groups == {<<u>>, <<"ignored">>, <<"(", v, "&", w, ")">>, <<"(", v, "|", w, ")">>,
           <<"(", v, "!", w, ")">>, <<"(", v, "|", "ignored", ")">>}
LongQueries ==
    {g \o <<o1>> \o h \o <<o2>> \o i : g \in Groups, h \in {<<v>>, <<"ignored">>}, i \in Groups,
        o1 \in Operators, o2 \in Operators}

OneQuery == {<<>>}
AllQueries == ShortQueries \cup LongQueries

(* The word itself, a group of two, or nothing. *)
Expansions ==
    LET For(x) == [z \in Words |-> IF z = u THEN x ELSE <<z>>]
    IN {For(<<u>>), For(<<u, w>>), For(<<>>)}
SomeKeywords == {<<>>, <<v, w>>}

(* 31 March 2001, and the last day of a time_t of 32 bits, with which      *)
(* `eternity' is its last second. *)
LastOfMarch == 11412
Jan19In2038 == 24855
EndOf32Bits == {Jan19In2038 * PerDay + LastSecond}

(* What gcc makes of a shift by 63 bits of an int. *)
EndOf64Bits == {-1}

Fields == [day : {0, 1, 29, 31, -40}, month : {0, 2, 12, -14},
           year : {0, 4, 99, 2000, 2001, -1}]
OneForm == {[start |-> [day |-> 0, month |-> 0, year |-> 0],
             end |-> [day |-> 0, month |-> 0, year |-> 0]]}
SomeForms == [start : {f \in Fields : f.year # 99 /\ f.day # 29}, end : {f \in Fields : f.year # 4}]

ShortPatterns ==
    {s \in UNION {[1..n -> Letters \cup {"|"}] : n \in 1..5} :
        /\ s[1] # "|" /\ s[Len(s)] # "|"
        /\ \A i \in 1..Len(s) - 1 : ~(s[i] = "|" /\ s[i + 1] = "|")}
OnePattern == {<<"a">>}
ShortTexts ==
    UNION {[1..n -> Letters] : n \in 0..4} \cup UNION {[1..n -> Letters \cup Others] : n \in 1..3}

-----------------------------------------------------------------------------
(* Parts of URLs and what stands for them. *)
InternalCodes == <<"1", "2">>
Alias == [from : {<<"a">>, <<"a", "b">>, <<"c", "a">>},
          to : {<<"c">>, <<"b", "c">>, <<"b", "b">>, <<"c", "c", "b">>}]
AliasLists ==
    {<<>>} \cup {<<p>> : p \in Alias} \cup {<<p, q>> : p, q \in Alias}
SomeCodes ==
    [aliases : {l \in AliasLists : \A i, j \in DOMAIN l : i # j => l[i].from # l[j].from},
     commons : {<<>>, <<<<"a">>>>, <<<<"a", "b">>, <<"b">>>>}]
NoCodes == [aliases |-> <<>>, commons |-> <<>>]
FewCodes ==
    {NoCodes, [aliases |-> <<>>, commons |-> <<<<"a">>>>],
     [aliases |-> <<[from |-> <<"a">>, to |-> <<"c">>]>>, commons |-> <<>>],
     [aliases |-> <<[from |-> <<"a", "b">>, to |-> <<"b", "c">>]>>, commons |-> <<<<"a">>>>]}
SomeStrings ==
    UNION {[1..n -> {"a", "b", "c"}] : n \in 0..4} \cup
    UNION {[1..n -> {"a", "b", "1"}] : n \in 1..3}

(* A URL that is coded in part, and one that is not coded by most lists. *)
TwoURLs == {<<"a", "b", "c">>, <<"c">>}
SomeDocuments ==
    {[time |-> 0, head |-> 0, descriptions |-> <<>>],
     [time |-> 255, head |-> 400, descriptions |-> <<>>],
     [time |-> 65535, head |-> 254, descriptions |-> <<>>],
     [time |-> 70000, head |-> 255, descriptions |-> <<253, 254, 255>>]}

AllOld == SUBSET TwoURLs
OneCode == {NoCodes}
OneText == {<<>>}
NoOld == {{}}
NoPages == {<<>>}

(* All short references, longer ones of a few characters, and complete     *)
(* URLs, in two pages. *)
UpTo(n, tokens) == UNION {[1..k -> tokens] : k \in 0..n}
SomeReferences ==
    UpTo(4, {"http", "a", ":", "/", ".", "?", "#", "81"}) \cup
    {<<"/">> \o s : s \in UpTo(5, {"/", ".", "a", "?"})} \cup
    {<<"http", ":", "/", "/">> \o s : s \in UpTo(4, {"a", "/", ":", "?", "81", "."})} \cup
    UpTo(3, {"index.html", "/", "?", "a"}) \cup {<<"b", "/", "%7E", "?", "%7E">>}
OneReference == {<<"a">>}

Parent(port, file) == [service |-> HTTP, host |-> <<"a">>, port |-> port, path |-> file]
OneParent == {Parent(HTTPPort, <<"/", "b">>)}
TwoParents == OneParent \cup {Parent(<<"81">>, <<"/", "a", "/", "b", "?", "/">>)}

(* Documents with sections that overlap, with links, with comments, and    *)
(* with anything. *)
SomePages ==
    UpTo(4, {"word", "img", "noindex", "noindex follow", "/noindex", "style", "/style"}) \cup
    UpTo(5, {"a", "/a", "word", "img"}) \cup
    UpTo(4, {"a", "/a", "word", "frame", "refresh", "noindex", "/noindex", "robots nofollow"}) \cup
    UpTo(4, {SkipStart, SkipEnd, "<!--", "-->", "<!>", "word", "script"}) \cup
    UpTo(3, {"word", "short", "p", "title", "/title", "h1", "/h1", "script", "/script",
             "keywords", "robots none", "robots noindex", "htdig-noindex", "htdig-index"})

-----------------------------------------------------------------------------
(* The state in which a part stands that is not looked at.  Only short     *)
(* queries are combined with required words. *)
SearchInit ==
    /\ component \in {"query", "pages", "dates", "patterns", "codec", "store", "urls", "html", "list"}
    /\ component # "query" =>
          /\ query = <<>> /\ method = "all" /\ subs = [x \in Words |-> <<x>>]
          /\ required = <<>> /\ anyKeywords = FALSE
    /\ component # "pages" =>
          unindexed = {} /\ excluded = {} /\ outdated = {} /\ absent = {}
    /\ component # "dates" => form = CHOOSE f \in Forms : TRUE
    /\ component # "patterns" =>
          pattern = <<"a">> /\ text = <<>> /\ mode = "Compare" /\ ignorePunct = FALSE
    /\ component \notin {"codec", "store"} => codes = NoCodes
    /\ component = "store" => codes \in FewCodes
    /\ component # "codec" => url = <<>>
    /\ component # "store" => cf = 0 /\ myTryUncoded = FALSE
    /\ component # "urls" => ref = <<"a">> /\ parent = Parent(HTTPPort, <<"/", "b">>)
    /\ component # "html" => html = <<>>
    /\ ListInit /\ HTMLInit /\ URLInit /\ StoreInit /\ RangeInit /\ DisplayInit /\ MatchInit
    /\ QueryInit /\ (Len(query) > 3 => required = <<>>)

SearchNext ==
    /\ UNCHANGED component
    /\ \/ component = "query" /\ QueryNext
          /\ UNCHANGED <<displayVars, rangeVars, matchVars, storeVars, urlVars, htmlVars, listVars>>
       \/ component = "pages" /\ DisplayNext
          /\ UNCHANGED <<queryVars, rangeVars, matchVars, storeVars, urlVars, htmlVars, listVars>>
       \/ component = "dates" /\ ComputeRange
          /\ UNCHANGED <<queryVars, displayVars, matchVars, storeVars, urlVars, htmlVars, listVars>>
       \/ component = "patterns" /\ MatchNext
          /\ UNCHANGED <<queryVars, displayVars, rangeVars, storeVars, urlVars, htmlVars, listVars>>
       \/ component = "store" /\ StoreNext
          /\ UNCHANGED <<queryVars, displayVars, rangeVars, matchVars, urlVars, htmlVars, listVars>>
       \/ component = "urls" /\ URLNext
          /\ UNCHANGED <<queryVars, displayVars, rangeVars, matchVars, storeVars, htmlVars, listVars>>
       \/ component = "html" /\ HTMLNext
          /\ UNCHANGED <<queryVars, displayVars, rangeVars, matchVars, storeVars, urlVars, listVars>>
       \/ component = "list" /\ ListNext
          /\ UNCHANGED <<queryVars, displayVars, rangeVars, matchVars, storeVars, urlVars, htmlVars>>

SearchSpec == SearchInit /\ [][SearchNext]_searchVars

=============================================================================
