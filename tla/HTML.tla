-------------------------------- MODULE HTML --------------------------------
(***************************************************************************)
(* The parser of HTML documents.  parse() strips comments and the sections *)
(* between noindex_start and noindex_end (with their default values), and  *)
(* then walks through words and tags, with do_tag for each tag, and calls  *)
(* the retriever for what it finds.  A document is a sequence of tokens;   *)
(* what is found is known by the place of its token.                       *)
(***************************************************************************)
EXTENDS Integers, FiniteSets, Sequences, SequencesExt

CONSTANTS
    Documents,       \* documents to be parsed
    MaxHead,         \* max_head_length, in words
    MaxDescription,  \* max_description_length, in words
    MaxKeywords      \* max_keywords

ASSUME HTMLAssumption ==
    /\ Documents \subseteq Seq(STRING)
    /\ MaxHead \in Nat /\ MaxDescription \in Nat /\ MaxKeywords \in Nat

VARIABLES
    html,         \* contents
    stripped,     \* the places of the tokens that are left of it
    spot,         \* how many of them were passed
    noindex,      \* who turned indexing off
    nofollow,     \* who turned following off
    inTitle, inHeading, inRef,
    href,         \* the last URL seen
    title, description,
    docHead,      \* head
    keywordsCount,
    gotWords,     \* got_word: [at, heading]
    gotHrefs,     \* got_href: [url, description]
    gotTitles,    \* got_title
    gotHeads,     \* got_head
    gotNoindex    \* got_noindex

flagVars == <<noindex, nofollow>>
refVars == <<inRef, href, description>>
gotVars == <<gotWords, gotHrefs, gotTitles, gotHeads, gotNoindex>>
htmlVars == <<html, stripped, spot, flagVars, inTitle, inHeading, refVars, title, docHead,
              keywordsCount, gotVars>>

-----------------------------------------------------------------------------
(* The tokens that are not tags: the markers of sections, the beginning    *)
(* and the end of a comment, another declaration, a word of at least       *)
(* minimum_word_length and a shorter one. *)
SkipStart == "<!--htdig_noindex-->"
SkipEnd == "<!--/htdig_noindex-->"
WordTokens == {"word", "short"}

(* The first pass.  A section ends with its marker only; in a comment any  *)
(* token with `-->' is the end; what does not end takes the rest with it.  *)
StripNext(state, i) ==
    LET t == html[i]
        Goto(m) == [state EXCEPT !.mode = m]
    IN CASE state.mode = "section" -> IF t = SkipEnd THEN Goto("text") ELSE state
         [] state.mode = "comment" ->
              IF t \in {"-->", SkipStart, SkipEnd} THEN Goto("text") ELSE state
         [] OTHER ->
              CASE t = SkipStart -> Goto("section")
                [] t = "<!--" -> Goto("comment")
                [] t \in {SkipEnd, "<!>"} -> state
                [] OTHER -> [state EXCEPT !.kept = Append(@, i)]

Stripped[n \in 0..Len(html)] ==
    IF n = 0 THEN [mode |-> "text", kept |-> <<>>] ELSE StripNext(Stripped[n - 1], n)

Strip == Stripped[Len(html)].kept

HTMLInit ==
    /\ html \in Documents
    /\ stripped = Strip
    /\ spot = 0
    /\ noindex = {} /\ nofollow = {}
    /\ inTitle = FALSE /\ inHeading = 0 /\ inRef = FALSE
    /\ href = 0
    /\ title = <<>> /\ description = <<>> /\ docHead = <<>>
    /\ keywordsCount = 0
    /\ gotWords = <<>> /\ gotHrefs = <<>> /\ gotTitles = <<>> /\ gotHeads = <<>>
    /\ gotNoindex = FALSE

-----------------------------------------------------------------------------
Place == stripped[spot + 1]

(* The next token is one of s. *)
Take(s) ==
    /\ spot < Len(stripped)
    /\ html[Place] \in s
    /\ spot' = spot + 1
    /\ UNCHANGED <<html, stripped, gotHeads>>

GotWord(heading) == gotWords' = Append(gotWords, [at |-> Place, heading |-> heading])

GotHref(url, d) ==
    gotHrefs' = IF nofollow = {} THEN Append(gotHrefs, [url |-> url, description |-> d])
                                 ELSE gotHrefs

(* Where a word of the text goes besides the word list. *)
ToTitle == title' = IF inTitle /\ noindex = {} THEN Append(title, Place) ELSE title

ToHead ==
    docHead' = IF Len(docHead) < MaxHead /\ noindex = {} /\ ~inTitle THEN Append(docHead, Place)
                                                              ELSE docHead

Ellipsis == 0

(* Mutant: the link is reported but not closed. *)
CutOnce ==
    /\ GotHref(href, Append(description, Ellipsis))
    /\ description' = <<>>
    /\ UNCHANGED <<inRef, href>>

(* A description that is full is handed over. *)
CutDescription ==
    /\ GotHref(href, Append(description, Ellipsis))
    /\ inRef' = FALSE /\ description' = <<>>
    /\ UNCHANGED href

Word ==
    /\ Take(WordTokens)
    /\ ToTitle /\ ToHead
    /\ IF inRef /\ Len(description) >= MaxDescription
       THEN CutDescription
       ELSE /\ description' = IF inRef THEN Append(description, Place) ELSE description
            /\ UNCHANGED <<inRef, href, gotHrefs>>
    /\ IF html[Place] = "word" /\ noindex = {} THEN GotWord(inHeading) ELSE UNCHANGED gotWords
    /\ UNCHANGED <<flagVars, inTitle, inHeading, keywordsCount, gotTitles, gotNoindex>>

(* The alternative text of an image, here one word. *)
Img ==
    /\ Take({"img"})
    /\ ToTitle /\ ToHead
    /\ description' = IF inRef /\ Len(description) < MaxDescription
                      THEN Append(description, Place) ELSE description
    /\ IF noindex = {} THEN GotWord(inHeading) ELSE UNCHANGED gotWords
    /\ UNCHANGED <<flagVars, inTitle, inHeading, inRef, href, keywordsCount, gotHrefs,
                   gotTitles, gotNoindex>>

(* A stray `-->' and the tags that are of no interest. *)
Other ==
    /\ Take({"-->", "p"})
    /\ UNCHANGED <<flagVars, inTitle, inHeading, refVars, title, docHead, keywordsCount,
                   gotWords, gotHrefs, gotTitles, gotNoindex>>

-----------------------------------------------------------------------------
(* A second title is not looked at. *)
OpenTitle ==
    /\ Take({"title"})
    /\ IF title = <<>> THEN inTitle' = TRUE /\ inHeading' = 1 ELSE UNCHANGED <<inTitle, inHeading>>
    /\ UNCHANGED <<flagVars, refVars, title, docHead, keywordsCount, gotWords, gotHrefs,
                   gotTitles, gotNoindex>>

CloseTitle ==
    /\ Take({"/title"})
    /\ IF inTitle
       THEN /\ inTitle' = FALSE /\ inHeading' = 0
            /\ gotTitles' = Append(gotTitles, title)
       ELSE UNCHANGED <<inTitle, inHeading, gotTitles>>
    /\ UNCHANGED <<flagVars, refVars, title, docHead, keywordsCount, gotWords, gotHrefs, gotNoindex>>

Heading ==
    /\ Take({"h1", "/h1"})
    /\ inHeading' = IF html[Place] = "h1" THEN 2 ELSE 0
    /\ UNCHANGED <<flagVars, inTitle, refVars, title, docHead, keywordsCount, gotWords,
                   gotHrefs, gotTitles, gotNoindex>>

-----------------------------------------------------------------------------
(* <a href>: a link that was not closed is. *)
Anchor ==
    /\ Take({"a"})
    /\ IF inRef THEN GotHref(href, description) ELSE UNCHANGED gotHrefs
    /\ href' = Place /\ inRef' = TRUE /\ description' = <<>>
    /\ UNCHANGED <<flagVars, inTitle, inHeading, title, docHead, keywordsCount, gotWords,
                   gotTitles, gotNoindex>>

CloseAnchor ==
    /\ Take({"/a"})
    /\ IF inRef THEN GotHref(href, description) ELSE UNCHANGED gotHrefs
    /\ inRef' = FALSE
    /\ UNCHANGED <<flagVars, inTitle, inHeading, href, description, title, docHead,
                   keywordsCount, gotWords, gotTitles, gotNoindex>>

(* <frame>, <embed>, <object>, <area>, <link>: an open <a> is forgotten.   *)
Frame ==
    /\ Take({"frame"})
    /\ IF nofollow = {}
       THEN GotHref(Place, <<>>) /\ href' = Place /\ inRef' = FALSE
       ELSE UNCHANGED <<gotHrefs, href, inRef>>
    /\ UNCHANGED <<flagVars, inTitle, inHeading, description, title, docHead, keywordsCount,
                   gotWords, gotTitles, gotNoindex>>

(* <meta http-equiv=refresh>: an open <a> gets another URL. *)
Refresh ==
    /\ Take({"refresh"})
    /\ href' = Place
    /\ GotHref(Place, <<>>)
    /\ UNCHANGED <<flagVars, inTitle, inHeading, inRef, description, title, docHead,
                   keywordsCount, gotWords, gotTitles, gotNoindex>>

-----------------------------------------------------------------------------
UnchangedByFlags ==
    UNCHANGED <<inTitle, inHeading, refVars, title, docHead, keywordsCount, gotWords,
                gotHrefs, gotTitles>>

TurnOff(who) == noindex' = noindex \cup {who} /\ nofollow' = nofollow \cup {who}

(* Mutant: everybody's. *)
TurnAllOn(who) == noindex' = {} /\ nofollow' = {}

TurnOn(who) == noindex' = noindex \ {who} /\ nofollow' = nofollow \ {who}

Elements == {"noindex", "style", "script"}
EndOf == [noindex |-> "/noindex", style |-> "/style", script |-> "/script"]

OpenElement ==
    /\ Take(Elements)
    /\ TurnOff(html[Place])
    /\ UNCHANGED gotNoindex
    /\ UnchangedByFlags

(* <noindex follow> *)
NoindexFollow ==
    /\ Take({"noindex follow"})
    /\ noindex' = noindex \cup {"noindex"} /\ nofollow' = nofollow \ {"noindex"}
    /\ UNCHANGED gotNoindex
    /\ UnchangedByFlags

CloseElement ==
    /\ \E e \in Elements : Take({EndOf[e]}) /\ TurnOn(e)
    /\ UNCHANGED gotNoindex
    /\ UnchangedByFlags

(* <meta htdig-noindex>, and <meta htdig-index>, which does not take       *)
(* got_noindex back. *)
MetaHtdig ==
    /\ Take({"htdig-noindex", "htdig-index"})
    /\ IF html[Place] = "htdig-noindex" THEN TurnOff("meta_htdig") /\ gotNoindex' = TRUE
                                        ELSE TurnOn("meta_htdig") /\ UNCHANGED gotNoindex
    /\ UnchangedByFlags

(* <meta name=robots> *)
MetaRobots ==
    /\ Take({"robots noindex", "robots nofollow", "robots none"})
    /\ LET t == html[Place]
           hides == t # "robots nofollow"
       IN /\ noindex' = IF hides THEN noindex \cup {"meta_robots"} ELSE noindex
          /\ nofollow' = IF t # "robots noindex" THEN nofollow \cup {"meta_robots"} ELSE nofollow
          /\ gotNoindex' = (gotNoindex \/ hides)
    /\ UnchangedByFlags

(* <meta name=keywords>, here one of them. *)
MetaKeywords ==
    /\ Take({"keywords"})
    /\ IF noindex = {}
       THEN /\ keywordsCount' = keywordsCount + 1
            /\ IF keywordsCount + 1 <= MaxKeywords THEN GotWord(10) ELSE UNCHANGED gotWords
       ELSE UNCHANGED <<keywordsCount, gotWords>>
    /\ UNCHANGED <<flagVars, inTitle, inHeading, refVars, title, docHead, gotHrefs, gotTitles,
                   gotNoindex>>

(* An empty document is not parsed at all. *)
GotHead ==
    /\ spot = Len(stripped) /\ html # <<>> /\ gotHeads = <<>>
    /\ gotHeads' = <<docHead>>
    /\ UNCHANGED <<html, stripped, spot, flagVars, inTitle, inHeading, refVars, title, docHead,
                   keywordsCount, gotWords, gotHrefs, gotTitles, gotNoindex>>

HTMLNext ==
    \/ Word \/ Img \/ Other \/ OpenTitle \/ CloseTitle \/ Heading
    \/ Anchor \/ CloseAnchor \/ Frame \/ Refresh
    \/ OpenElement \/ NoindexFollow \/ CloseElement
    \/ MetaHtdig \/ MetaRobots \/ MetaKeywords \/ GotHead

HTMLSpec == HTMLInit /\ [][HTMLNext]_htmlVars

-----------------------------------------------------------------------------
(* What turns indexing or following off, and what turns it on again. *)
Switch(off, on) == [off |-> off, on |-> on]

IndexSwitches ==
    {Switch({"noindex", "noindex follow"}, {"/noindex"}), Switch({"style"}, {"/style"}),
     Switch({"script"}, {"/script"}), Switch({"htdig-noindex"}, {"htdig-index"}),
     Switch({"robots noindex", "robots none"}, {})}

FollowSwitches ==
    {Switch({"noindex"}, {"/noindex", "noindex follow"}), Switch({"style"}, {"/style"}),
     Switch({"script"}, {"/script"}), Switch({"htdig-noindex"}, {"htdig-index"}),
     Switch({"robots nofollow", "robots none"}, {})}

Switches == UNION {s.off \cup s.on : s \in IndexSwitches \cup FollowSwitches}

Spots == ToSet(stripped)
Between(p, i) == {q \in Spots : p < q /\ q < i}

(* Nothing that was turned off before i is off at i. *)
IsOn(switches, i) ==
    \A s \in switches, p \in Spots :
        p < i /\ html[p] \in s.off => \E q \in Between(p, i) : html[q] \in s.on

Visible(i) == IsOn(IndexSwitches, i)

KeywordsUpTo(i) == Cardinality({q \in Spots : q <= i /\ html[q] = "keywords" /\ Visible(q)})

ToBeIndexed(i) ==
    /\ Visible(i)
    /\ \/ html[i] \in {"word", "img"}
       \/ html[i] = "keywords" /\ KeywordsUpTo(i) <= MaxKeywords

(* The marked sections of the contents, in a document without comments,    *)
(* and the comments in one without sections. *)
Enclosed(from, to, i) ==
    \E p \in 1..i - 1 : html[p] = from /\ \A q \in p + 1..i - 1 : html[q] # to

StripsWhatIsMarked ==
    LET tokens == ToSet(html)
    IN /\ "<!--" \notin tokens =>
            Spots = {i \in DOMAIN html : ~Enclosed(SkipStart, SkipEnd, i)
                                             /\ html[i] \notin {SkipStart, SkipEnd, "<!>"}}
       /\ tokens \cap {SkipStart, SkipEnd} = {} =>
            Spots = {i \in DOMAIN html : ~Enclosed("<!--", "-->", i)
                                             /\ html[i] \notin {"<!--", "<!>"}}
                     \ {i \in DOMAIN html : html[i] = "-->" /\ Enclosed("<!--", "-->", i)}

(* "mark sections to be stripped out of documents, so they don't get       *)
(* indexed" (FAQ.html:1025-1029): however the sections overlap, the words  *)
(* that are indexed are those that nothing hides, in their order, and      *)
(* neither the title nor the excerpt shows one that is hidden. *)
HiddenNotIndexed ==
    gotHeads # <<>> =>
        /\ StripsWhatIsMarked
        /\ {w.at : w \in ToSet(gotWords)} = {i \in Spots : ToBeIndexed(i)}
        /\ \A j, k \in DOMAIN gotWords : j < k => gotWords[j].at < gotWords[k].at
        /\ \A i \in ToSet(gotHeads[1]) \cup UNION {ToSet(t) : t \in ToSet(gotTitles)} : Visible(i)
        /\ gotNoindex <=> \E p \in Spots :
                html[p] \in {"htdig-noindex", "robots noindex", "robots none"}

(* The tokens of an <a> are followed by the next <a> or </a>, and nothing  *)
(* between them changes what is off or brings another URL. *)
EndsAt(i, e) ==
    /\ html[i] = "a" /\ e \in Spots /\ i < e /\ html[e] \in {"a", "/a"}
    /\ \A q \in Between(i, e) : html[q] \notin {"a", "/a", "frame", "refresh"} \cup Switches

(* Between them are the words of the link. *)
LinkWords(i, e) == {q \in Between(i, e) : html[q] \in WordTokens \cup {"img"}}

(* s has words in their order, but for those that do not fit. *)
Shows(s, words) ==
    /\ ToSet(s) \subseteq words /\ Len(s) <= MaxDescription
    /\ \A j, k \in 1..Len(s) : j < k => s[j] < s[k]
    /\ \A q \in words \ ToSet(s) : Len(s) = MaxDescription /\ \A p \in ToSet(s) : p < q

(* So does d, and ends with the ellipsis if it lacks any but images. *)
IsCut(d) == d # <<>> /\ Last(d) = Ellipsis

Describes(d, words) ==
    LET shown == IF IsCut(d) THEN Front(d) ELSE d
    IN /\ Shows(shown, words)
       /\ IsCut(d) <=> \E q \in words \ ToSet(shown) : html[q] # "img"

(* What the retriever was given for the <a> at i. *)
GivenFor(i) == {k \in 1..Len(gotHrefs) : gotHrefs[k].url = i}

(* A link is given to the retriever once, with the words between <a> and   *)
(* </a> or what fits of them, unless it must not be followed; nothing else *)
(* is taken for a link. *)
LinksOnce ==
    gotHeads # <<>> =>
        /\ \A i, e \in Spots :
              EndsAt(i, e) =>
                IF IsOn(FollowSwitches, i)
                THEN \E k \in 1..Len(gotHrefs) :
                        GivenFor(i) = {k} /\ Describes(gotHrefs[k].description, LinkWords(i, e))
                ELSE GivenFor(i) = {}
        /\ \A k \in 1..Len(gotHrefs) :
              /\ gotHrefs[k].url \in Spots
              /\ html[gotHrefs[k].url] \in {"a", "frame", "refresh"}

=============================================================================
