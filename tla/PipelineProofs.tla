--------------------------- MODULE PipelineProofs ---------------------------
(***************************************************************************)
(* Theorems about htdig and htmerge over the same files, for every web and *)
(* any number of digs and merges, of which the merges may be killed:       *)
(* types, the uniqueness of document IDs across the runs of both, that the *)
(* index leads from words to the documents and versions they are from,     *)
(* that no words of another version are found, that what is found can be   *)
(* displayed, and that what was retrieved is in the index. *)
(***************************************************************************)
EXTENDS Pipeline, DigProofs, MergeProofs

-----------------------------------------------------------------------------
(* The invariant. *)

(* The own words under a document's ID are from the version of it that is  *)
(* stored. *)
OfVersion(db, lines) ==
    \A u \in URLs, w \in lines : db[u] # NoDoc /\ w.id = db[u].id /\ ~w.text.link =>
        w.text = PageText(u, db[u].time)

TextInv ==
    /\ OfVersion(docdb, words)
    /\ phase = "parse" => cur.ref.time = cur.page.ver

(* What a merge that is killed falls back to, with the list it leaves.     *)
Fits(db, lines, free) ==
    IDsAgree(db, lines, free) /\ OfVersion(db, lines)

(* Between the digs the database is the closed one, or a merge drops       *)
(* documents of it. *)
RestInv ==
    /\ mphase # "down" => phase = "down"
    /\ phase = "down" =>
          /\ \A u \in URLs : docdb[u] \in {disk[u], NoDoc}
          /\ Fits(disk, words, nextOnDisk)
          /\ mphase \in {"unlinked", "linked"} => Fits(disk, newList, nextOnDisk)

FoundInv ==
    /\ whole /\ MergedWords => Sound(docdb, wordDb)
    /\ served => /\ phase = "down" /\ mphase = "down"
                 /\ Leads(docIndex) /\ Sound(docdb, wordDb)

PipeTypes == PipelineTypeOK /\ IndexInv

PipeInv == PipeTypes /\ IDInv /\ TextInv /\ RestInv /\ FoundInv

-----------------------------------------------------------------------------
(* Words and versions, while htdig runs.                                   *)

(* That a record is the same but for what its links and an answer without  *)
(* contents change. *)
SameVersion(new, old) ==
    /\ new.id = old.id /\ new.time = old.time /\ new.head = old.head
    /\ new.state = "noindex" => old.state = "noindex"

(* What a step that is not the end of a page does to the documents: each   *)
(* stays what it was or keeps its ID, its version and its text, or is new  *)
(* and has none. *)
KeepsVersions ==
    \A u \in URLs :
        \/ docdb'[u] = docdb[u]
        \/ docdb[u] # NoDoc /\ docdb'[u] # NoDoc /\ SameVersion(docdb'[u], docdb[u])
        \/ /\ docdb[u] = NoDoc /\ docdb'[u] # NoDoc /\ ~docdb'[u].head
           /\ docdb'[u].time = 0 /\ docdb'[u].id \in Nat /\ docdb'[u].id >= nextID

OnlyLinks == \A w \in words' \ words : w.text.link

(* Then the own words under an ID remain those of the version.             *)
LEMMA VersionsKept ==
    ASSUME DigTypeOK, IDsAgree(docdb, words, nextID), OfVersion(docdb, words),
           KeepsVersions, OnlyLinks
    PROVE  OfVersion(docdb', words')
<1> SUFFICES ASSUME NEW u \in URLs, NEW w \in words', docdb'[u] # NoDoc,
                    w.id = docdb'[u].id, ~w.text.link
             PROVE  w.text = PageText(u, docdb'[u].time)
  BY DEF OfVersion
<1>1. w \in words
  BY DEF OnlyLinks
<1>2. w.id \in Nat /\ w.id < nextID /\ nextID \in Nat
  BY <1>1 DEF IDsAgree, DigTypeOK, FilesTypeOK, WordLine
<1>3. docdb'[u] = docdb[u]
        \/ (/\ docdb[u] # NoDoc /\ docdb'[u].id = docdb[u].id
            /\ docdb'[u].time = docdb[u].time)
  BY <1>2 DEF KeepsVersions, SameVersion
<1> QED
  BY <1>1, <1>3 DEF OfVersion

(* The record of a URL that is retrieved is new or of the version it was.  *)
LEMMA RegisteredVersion ==
    ASSUME DigTypeOK, NEW r \in URLRef
    PROVE  /\ docdb[r.url] # NoDoc => SameVersion(Registered(r), docdb[r.url])
           /\ docdb[r.url] = NoDoc =>
                 /\ Registered(r).id = nextID /\ Registered(r).time = 0
                 /\ ~Registered(r).head
           /\ Registered(r).state = "normal"
           /\ AfterRegister(r) >= nextID
<1>1. r.url \in URLs /\ nextID \in Nat
  BY DEF URLRef, DigTypeOK
<1>2. docdb[r.url] # NoDoc => docdb[r.url] \in Doc
  BY <1>1 DEF DigTypeOK, FilesTypeOK
<1>3. CASE docdb[r.url] = NoDoc
  BY <1>1, <1>3 DEF Registered, Fresh, AfterRegister
<1>4. CASE docdb[r.url] # NoDoc
  <2>1. Registered(r) = [docdb[r.url] EXCEPT !.got = TRUE, !.state = "normal"]
        /\ AfterRegister(r) = nextID
    BY <1>4 DEF Registered, AfterRegister
  <2>2. Registered(r).state = "normal" /\ Registered(r).id = docdb[r.url].id
        /\ Registered(r).time = docdb[r.url].time /\ Registered(r).head = docdb[r.url].head
    BY <1>2, <1>4, <2>1 DEF Doc
  <2> QED
    BY <1>1, <1>4, <2>1, <2>2 DEF SameVersion
<1> QED
  BY <1>3, <1>4

(* ... and that of the target of a link. *)
LEMMA LinkedVersion ==
    ASSUME DigTypeOK, NEW v \in URLs, NEW h \in Nat, NEW id \in Nat,
           NEW texts \in SUBSET LinkTexts
    PROVE  /\ docdb[v] # NoDoc => SameVersion(Linked(v, h, id, texts), docdb[v])
           /\ docdb[v] = NoDoc =>
                 /\ Linked(v, h, id, texts).id = id /\ Linked(v, h, id, texts).time = 0
                 /\ ~Linked(v, h, id, texts).head
<1>1. docdb[v] # NoDoc => docdb[v] \in Doc
  BY DEF DigTypeOK, FilesTypeOK
<1> QED
  BY <1>1 DEF Linked, Fresh, Doc, SameVersion

(* A retrieval begins and ends within a round. *)
LEMMA RetrievePhase ==
    ASSUME NEW s \in Servers, Retrieve(s)
    PROVE  phase = "dig" /\ phase' \in {"dig", "parse"}
<1>1. PICK p \in Heard(s) :
        \/ RetrieveGone(s, p) \/ RetrieveUnchanged(s, p) \/ RetrieveUnauthorized(s, p)
        \/ RetrieveRedirect(s, p) \/ RetrievePage(s, p)
  BY DEF Retrieve
<1>2. Take(s, p)
  BY <1>1 DEF RetrieveGone, RetrieveUnchanged, RetrieveUnauthorized, RetrieveRedirect,
              RetrievePage
<1>3. phase = "dig"
  BY <1>2 DEF Take, IsNext
<1> QED
  BY <1>1, <1>3 DEF RetrieveGone, RetrieveUnchanged, RetrieveUnauthorized,
                    RetrieveRedirect, RetrievePage

(* A retrieval changes no version; it is the end of the page that does.    *)
LEMMA RetrieveVersions ==
    ASSUME DigTypeOK, NEW s \in Servers, Retrieve(s)
    PROVE  /\ KeepsVersions /\ OnlyLinks /\ phase = "dig"
           /\ phase' = "parse" => cur'.ref.time = cur'.page.ver
<1> DEFINE r == Head(queue[s])
           u == r.url
           reg == Registered(r)
<1>0. PICK p \in Heard(s) :
        \/ RetrieveGone(s, p) \/ RetrieveUnchanged(s, p) \/ RetrieveUnauthorized(s, p)
        \/ RetrieveRedirect(s, p) \/ RetrievePage(s, p)
  BY DEF Retrieve
<1>a. p \in Answer
  BY <1>0, HeardType
<1>1. Take(s, p) /\ queue[s] # <<>> /\ phase = "dig"
  BY <1>0 DEF RetrieveGone, RetrieveUnchanged, RetrieveUnauthorized,
              RetrieveRedirect, RetrievePage, Take, IsNext
<1>2. r \in URLRef /\ u \in URLs
  BY <1>1, TakenType
<1>3. /\ reg \in Doc /\ reg.hop \in Nat /\ reg.descriptions \in SUBSET LinkTexts
      /\ AfterRegister(r) \in Nat
  BY <1>2, RegisteredType
<1>4. docdb \in [URLs -> Doc \cup {NoDoc}] /\ nextID \in Nat
  BY DEF DigTypeOK, FilesTypeOK
<1>5. /\ docdb[u] # NoDoc => SameVersion(reg, docdb[u])
      /\ docdb[u] = NoDoc => reg.id = nextID /\ reg.time = 0 /\ ~reg.head
      /\ AfterRegister(r) >= nextID /\ reg.state = "normal"
  BY <1>2, RegisteredVersion
<1>6. ASSUME NEW ref \in Doc, SameVersion(ref, reg),
             docdb' = [docdb EXCEPT ![u] = ref]
      PROVE  KeepsVersions
  <2>1. docdb'[u] = ref /\ \A v \in URLs : v # u => docdb'[v] = docdb[v]
    BY <1>2, <1>4, <1>6
  <2>2. ref # NoDoc
    BY DigAssumption
  <2> HIDE DEF u, reg
  <2> QED
    BY <1>2, <1>4, <1>5, <1>6, <2>1, <2>2 DEF KeepsVersions, SameVersion
<1>7. CASE RetrieveGone(s, p)
  <2> DEFINE st == IF Status(u, p) = "not_html" THEN "normal" ELSE "not_found"
             ref == [reg EXCEPT !.state = st]
  <2>1. docdb' = [docdb EXCEPT ![u] = ref] /\ phase' = phase
    BY <1>7 DEF RetrieveGone
  <2>2. ref \in Doc /\ SameVersion(ref, reg)
    BY <1>3 DEF Doc, States, SameVersion
  <2>3. KeepsVersions
    BY <1>6, <2>1, <2>2
  <2>4. words' = words
    BY <1>7 DEF RetrieveGone, AppendMarks
  <2> QED
    BY <1>1, <2>1, <2>3, <2>4 DEF OnlyLinks
<1>8. CASE RetrieveUnchanged(s, p) \/ RetrieveUnauthorized(s, p)
  <2>1. docdb' = [docdb EXCEPT ![u] = reg] /\ phase' = phase /\ words' = words
    BY <1>8 DEF RetrieveUnchanged, RetrieveUnauthorized, AppendMarks, KeepList
  <2>2. KeepsVersions
    BY <1>3, <1>6, <2>1 DEF SameVersion
  <2> QED
    BY <1>1, <2>1, <2>2 DEF OnlyLinks
<1>9. CASE RetrieveRedirect(s, p)
  <2> DEFINE v == p.links[1]
             target == Linked(v, reg.hop, AfterRegister(r), reg.descriptions)
  <2>1. CASE v \notin Limits
    <3>1. docdb' = [docdb EXCEPT ![u] = reg] /\ phase' = phase /\ words' = words
      BY <1>9, <2>1 DEF RetrieveRedirect, AppendMarks
    <3>2. KeepsVersions
      BY <1>3, <1>6, <3>1 DEF SameVersion
    <3> QED
      BY <1>1, <3>1, <3>2 DEF OnlyLinks
  <2>2. CASE v \in Limits
    <3>1. /\ docdb' = [docdb EXCEPT ![v] = target, ![u] = reg]
          /\ phase' = phase /\ v \in URLs
          /\ words' = words \cup Described(v, target.id, reg.descriptions)
      BY <1>9, <2>2, DigAssumption DEF RetrieveRedirect, AppendLines
    <3>2. /\ target \in Doc /\ target.id \in Nat
          /\ docdb[v] # NoDoc => SameVersion(target, docdb[v])
          /\ docdb[v] = NoDoc => target.id = AfterRegister(r) /\ target.time = 0
                                  /\ ~target.head
      <4> HIDE DEF v, reg
      <4>1. target \in Doc /\ target.id \in Nat
        BY <1>3, <3>1, LinkedType
      <4> QED
        BY <1>3, <3>1, <4>1, LinkedVersion
    <3>3. /\ docdb'[u] = reg /\ v # u => docdb'[v] = target
          /\ \A x \in URLs \ {u, v} : docdb'[x] = docdb[x]
      <4> HIDE DEF u, v, target, reg
      <4> QED
        BY <1>2, <1>4, <3>1
    <3>4. KeepsVersions
      <4>1. reg.id \in Nat
        BY <1>3 DEF Doc
      <4> HIDE DEF u, v, target, reg
      <4> QED
        BY <1>2, <1>3, <1>4, <1>5, <3>1, <3>2, <3>3, <4>1, DigAssumption DEF KeepsVersions
    <3>5. OnlyLinks
      <4> SUFFICES ASSUME NEW w \in words', w \notin words
                   PROVE  w.text.link
        BY DEF OnlyLinks
      <4> HIDE DEF v, target, reg
      <4>1. w.text \in LinkTexts
        BY <1>3, <3>1 DEF Described
      <4> QED
        BY <4>1 DEF LinkTexts
    <3> QED
      BY <1>1, <3>1, <3>4, <3>5
  <2> QED
    BY <2>1, <2>2
<1>10. CASE RetrievePage(s, p)
  <2>1. /\ docdb' = docdb /\ words' = words
        /\ cur'.ref.time = p.ver /\ cur'.page.ver = p.ver
    BY <1>3, <1>10 DEF RetrievePage, AppendMarks, KeepList, Doc
  <2> QED
    BY <1>1, <2>1 DEF KeepsVersions, OnlyLinks
<1> QED
  BY <1>0, <1>7, <1>8, <1>9, <1>10

(* Nor does following a link. *)
LEMMA GotHrefVersions ==
    ASSUME DigTypeOK, GotHref
    PROVE  /\ KeepsVersions /\ OnlyLinks /\ phase = "parse"
           /\ cur'.ref.time = cur.ref.time /\ cur'.page = cur.page
<1> DEFINE v == Head(cur.left)
           h == cur.ref.hop + 1
           texts == {LinkText(cur.url, cur.page.ver)}
           ref == Linked(v, h, nextID, texts)
<1>1. /\ phase = "parse" /\ cur \in Cur /\ cur.left # <<>>
      /\ docdb \in [URLs -> Doc \cup {NoDoc}] /\ nextID \in Nat
  BY DEF GotHref, DigTypeOK, FilesTypeOK
<1>2. cur'.ref.time = cur.ref.time /\ cur'.page = cur.page
  <2> DEFINE more_texts == IF v \in Limits /\ v = cur.url
                           THEN cur.ref.descriptions \cup texts ELSE cur.ref.descriptions
  <2>1. cur' = [cur EXCEPT !.left = Tail(cur.left), !.ref.descriptions = more_texts]
    BY DEF GotHref
  <2> HIDE DEF more_texts
  <2> QED
    BY <1>1, <2>1 DEF Cur, Doc
<1>3. OnlyLinks
  <2>1. \/ words' = words
        \/ words' = words \cup Described(v, cur.ref.id, texts)
        \/ words' = words \cup Described(v, ref.id, texts)
    BY DEF GotHref, AppendWords, KeepList
  <2> SUFFICES ASSUME NEW w \in words', w \notin words
               PROVE  w.text.link
    BY DEF OnlyLinks
  <2>2. w.text = LinkText(cur.url, cur.page.ver)
    <3> HIDE DEF v, ref
    <3> QED
      BY <2>1 DEF Described
  <2> QED
    BY <2>2 DEF LinkText
<1>4. CASE Follows(v, h)
  <2>1. docdb' = [docdb EXCEPT ![v] = ref]
    BY <1>4 DEF GotHref
  <2>2. /\ v \in URLs /\ h \in Nat
        /\ {LinkText(cur.url, cur.page.ver)} \in SUBSET LinkTexts
    <3>1. v \in URLs /\ h \in Nat
      BY <1>1, <1>4, DigAssumption DEF Cur, Doc, Follows
    <3> QED
      BY <1>1, <3>1, LinkTextType DEF Cur, Answer
  <2>3. /\ ref \in Doc
        /\ docdb[v] # NoDoc => SameVersion(ref, docdb[v])
        /\ docdb[v] = NoDoc => ref.id = nextID /\ ref.time = 0 /\ ~ref.head
    <3> HIDE DEF v, h
    <3>1. ref \in Doc
      BY <1>1, <2>2, LinkedType
    <3> QED
      BY <1>1, <2>2, <3>1, LinkedVersion
  <2> HIDE DEF v, ref
  <2>4. KeepsVersions
    BY <1>1, <2>1, <2>2, <2>3, DigAssumption DEF KeepsVersions
  <2> QED
    BY <1>1, <1>2, <1>3, <2>4
<1>5. CASE ~Follows(v, h)
  <2>1. docdb' = docdb
    BY <1>5 DEF GotHref
  <2> QED
    BY <1>1, <1>2, <1>3, <2>1 DEF KeepsVersions
<1> QED
  BY <1>4, <1>5

(* The words of a page are filed under an ID that no other version has.    *)
LEMMA ParsedVersion ==
    ASSUME DigTypeOK, IDInv, TextInv, Parsed
    PROVE  OfVersion(docdb', words')
<1>1. /\ phase = "parse" /\ cur \in Cur
      /\ docdb' = [docdb EXCEPT ![cur.url] = cur.ref]
  BY DEF Parsed, DigTypeOK
<1>2. cur.url \in URLs /\ docdb \in [URLs -> Doc \cup {NoDoc}]
        /\ cur.ref.time = cur.page.ver
  BY <1>1 DEF Cur, DigTypeOK, FilesTypeOK, TextInv
<1>3. /\ \A w \in words : w.id = cur.ref.id => w.text.link
      /\ \A u \in URLs \ {cur.url} : docdb[u] # NoDoc => docdb[u].id # cur.ref.id
  BY <1>1 DEF IDInv, Stored
<1> DEFINE line == [id |-> cur.ref.id, url |-> cur.url,
                    text |-> PageText(cur.url, cur.page.ver)]
<1>4. words' = words \/ words' = words \cup {line}
  BY DEF Parsed, AppendMarks, AppendWords
<1>5. line.id = cur.ref.id /\ line.text = PageText(cur.url, cur.page.ver)
  OBVIOUS
<1>6. /\ docdb'[cur.url] = cur.ref
      /\ \A u \in URLs \ {cur.url} : docdb'[u] = docdb[u]
  BY <1>1, <1>2
<1> HIDE DEF line
<1> SUFFICES ASSUME NEW u \in URLs, NEW w \in words', docdb'[u] # NoDoc,
                    w.id = docdb'[u].id, ~w.text.link
             PROVE  w.text = PageText(u, docdb'[u].time)
  BY DEF OfVersion
<1>7. CASE u = cur.url
  BY <1>2, <1>3, <1>4, <1>5, <1>6, <1>7
<1>8. CASE u # cur.url
  BY <1>3, <1>4, <1>5, <1>6, <1>8 DEF TextInv, OfVersion
<1> QED
  BY <1>7, <1>8

(* So htdig keeps words and versions together, unless it is killed.        *)
LEMMA TextStep ==
    ASSUME DigTypeOK, IDInv, TextInv, MaxCrashes = 0, [DigNext]_vars
    PROVE  TextInv'
<1>1. CASE \E s \in Servers : Retrieve(s)
  <2>1. PICK s \in Servers : Retrieve(s)
    BY <1>1
  <2>2. /\ KeepsVersions /\ OnlyLinks /\ phase = "dig"
        /\ phase' = "parse" => cur'.ref.time = cur'.page.ver
    BY <2>1, RetrieveVersions
  <2>3. IDsAgree(docdb, words, nextID)
    BY <2>2 DEF IDInv, NextFree
  <2> QED
    BY <2>2, <2>3, VersionsKept DEF TextInv
<1>2. CASE GotHref
  <2>1. /\ KeepsVersions /\ OnlyLinks /\ phase = "parse"
        /\ cur'.ref.time = cur.ref.time /\ cur'.page = cur.page
    BY <1>2, GotHrefVersions
  <2>2. IDsAgree(docdb, words, nextID)
    BY <2>1 DEF IDInv, NextFree
  <2> QED
    BY <2>1, <2>2, VersionsKept DEF TextInv
<1>3. CASE Parsed
  BY <1>3, ParsedVersion DEF Parsed, TextInv
<1>4. CASE \E initial \in InitialFlags : Start(initial)
  <2>1. PICK initial \in InitialFlags : Start(initial)
    BY <1>4
  <2>2. phase' = "log"
    BY <2>1 DEF Start
  <2>3. CASE initial
    BY <2>1, <2>2, <2>3 DEF Start, TextInv, OfVersion
  <2>4. CASE ~initial
    BY <2>1, <2>2, <2>4 DEF Start, TextInv, OfVersion
  <2> QED
    BY <2>3, <2>4
<1>5. ~Crash
  BY DEF Crash, DigTypeOK
<1>6. ASSUME UNCHANGED <<docdb, words>>,
             phase' = "parse" => phase = "parse" /\ cur' = cur
      PROVE  TextInv'
  BY <1>6 DEF TextInv, OfVersion
<1>7. CASE Load
  BY <1>6, <1>7 DEF Load, InitialLog, InitialDb, InitialStart, Initial,
     LogRead, DbRead, Loaded, fileVars
<1>8. CASE (\E s \in Servers : SkipServer(s)) \/ NewRound \/ Signal \/ Htdump
  BY <1>6, <1>8 DEF SkipServer, NewRound, Signal, Htdump, fileVars, memVars
<1>9. CASE Finish \/ DumpLog
  BY <1>6, <1>9 DEF Finish, DumpLog, CloseDb
<1>10. CASE World
  BY <1>6, <1>10 DEF World, Publish, Outage, fileVars, memVars
<1>11. CASE UNCHANGED vars
  BY <1>6, <1>11 DEF vars, fileVars, memVars
<1> QED
  BY <1>1, <1>2, <1>3, <1>4, <1>5, <1>7, <1>8, <1>9, <1>10, <1>11 DEF DigNext, Work

-----------------------------------------------------------------------------
(* Types. *)

(* What a merge does to the files is all that htdig sees of it.            *)
LEMMA DigTypesKept ==
    ASSUME DigTypeOK, FilesTypeOK', UNCHANGED DigOnly
    PROVE  DigTypeOK'
BY DEF DigOnly, memVars, worldVars, countVars, histVars, DigTypeOK

(* A killed merge leaves records and words that were there. *)
LEMMA KilledTypes ==
    ASSUME FilesTypeOK, MergeTypeOK, MergeCrash
    PROVE  FilesTypeOK' /\ MergeTypeOK' /\ mphase' = "down"
<1>1. /\ docdb' \in [URLs -> Doc \cup {NoDoc}]
      /\ disk' \in [URLs -> Doc \cup {NoDoc}]
  <2>1. CASE mphase = "docs"
    <3>1. LoseDb
      BY <2>1 DEF MergeCrash
    <3>2. PICK kept \in SUBSET URLs :
             docdb' = [u \in URLs |-> IF u \in kept THEN docdb[u] ELSE disk[u]]
      BY <3>1 DEF LoseDb
    <3> QED
      BY <3>1, <3>2 DEF LoseDb, FilesTypeOK
  <2>2. CASE mphase # "docs"
    BY <2>2 DEF MergeCrash, FilesTypeOK
  <2> QED
    BY <2>1, <2>2
<1>2. /\ nextOnDisk' \in Nat /\ words' \in SUBSET WordLine /\ marks' \in SUBSET Mark
      /\ listed' \in BOOLEAN /\ urlLog' \in SUBSET URLs
  BY DEF MergeCrash, FilesTypeOK
<1>3. wordDb' \in SUBSET WordLine /\ docIndex' \in SUBSET IndexEntry
  BY KeptType DEF MergeCrash, FilesTypeOK, MergeTypeOK
<1>4. /\ removeBad' \in BOOLEAN /\ mphase' = "down" /\ job' = {} /\ discard' = {}
      /\ left' = {} /\ newList' \in SUBSET WordLine
  BY DEF MergeCrash, Exit, MergeTypeOK
<1> QED
  BY <1>1, <1>2, <1>3, <1>4 DEF FilesTypeOK, MergeTypeOK

(* Every step keeps the types, and the index as a merge makes it.          *)
LEMMA PipeTypeStep ==
    ASSUME PipeTypes, [PipelineNext]_pipeVars
    PROVE  PipeTypes'
<1>1. /\ DigTypeOK /\ MergeTypeOK /\ FilesTypeOK /\ IndexInv
      /\ merges \in Nat /\ mergeCrashes \in Nat /\ digs \in Nat
      /\ whole \in BOOLEAN /\ served \in BOOLEAN /\ parted \in BOOLEAN
  BY DEF PipeTypes, PipelineTypeOK, DigTypeOK
<1>2. ASSUME UNCHANGED mergeVars, mphase = "down" \/ UNCHANGED docdb
      PROVE  MergeTypeOK' /\ IndexInv'
  BY <1>1, <1>2 DEF mergeVars, MergeTypeOK, IndexInv, Leads, Stored
<1>3. CASE StartDig
  <2>1. DigTypeOK'
    BY <1>1, <1>3, TypeStep DEF StartDig, DigNext
  <2>2. MergeTypeOK' /\ IndexInv'
    BY <1>2, <1>3 DEF StartDig
  <2>3. /\ merges' \in Nat /\ mergeCrashes' \in Nat /\ digs' \in Nat
        /\ whole' \in BOOLEAN /\ served' \in BOOLEAN /\ parted' \in BOOLEAN
    <3>1. served' = FALSE /\ whole' = whole /\ parted' = parted
      BY <1>3 DEF StartDig
    <3>2. merges' \in Nat /\ mergeCrashes' \in Nat /\ digs' \in Nat
      BY <1>1, <1>3 DEF StartDig
    <3> QED
      BY <1>1, <3>1, <3>2
  <2> QED
    BY <2>1, <2>2, <2>3 DEF PipeTypes, PipelineTypeOK
<1>4. CASE DigStep
  <2>1. DigTypeOK'
    BY <1>1, <1>4, TypeStep DEF DigStep, DigNext
  <2> QED
    BY <1>1, <1>2, <1>4, <2>1 DEF DigStep, runVars, PipeTypes, PipelineTypeOK
<1>5. CASE WorldStep
  <2>1. DigTypeOK' /\ docdb' = docdb
    BY <1>1, <1>5, TypeStep DEF WorldStep, DigNext, World, Publish, Outage, fileVars
  <2> QED
    BY <1>1, <1>2, <1>5, <2>1 DEF WorldStep, runVars, PipeTypes, PipelineTypeOK
<1>6. CASE BeginMerge
  <2>1. PICK j \in Jobs : /\ StartMerge(j) /\ whole' = (j = {"words", "docs"})
                        /\ parted' = (parted \/ j = {"words"})
    BY <1>6 DEF BeginMerge
  <2>2. FilesTypeOK' /\ UNCHANGED DigOnly
    BY <1>1, <1>6, <2>1 DEF BeginMerge, StartMerge, fileVars, FilesTypeOK
  <2>3. j \in SUBSET {"words", "docs"}
    BY MergeAssumption
  <2>4. MergeTypeOK' /\ IndexInv'
    BY <1>1, <2>1, <2>3 DEF StartMerge, MergeTypeOK, IndexInv
  <2>5. DigTypeOK'
    BY <1>1, <2>2, DigTypesKept
  <2>6. /\ merges' \in Nat /\ mergeCrashes' \in Nat /\ digs' \in Nat
        /\ whole' \in BOOLEAN /\ served' \in BOOLEAN /\ parted' \in BOOLEAN
    <3>1. served' = FALSE /\ merges' \in Nat /\ mergeCrashes' \in Nat /\ digs' \in Nat
      BY <1>1, <1>6 DEF BeginMerge
    <3>2. whole' \in BOOLEAN /\ parted' \in BOOLEAN
      BY <1>1, <2>1
    <3> QED
      BY <3>1, <3>2
  <2> QED
    BY <2>4, <2>5, <2>6 DEF PipeTypes, PipelineTypeOK
<1>7. CASE MergeStep
  <2>1. FilesTypeOK' /\ MergeTypeOK' /\ IndexInv'
    BY <1>1, <1>7, MergeWorkType, MergeWorkIndex DEF MergeStep
  <2>2. DigTypeOK'
    BY <1>1, <1>7, <2>1, DigTypesKept DEF MergeStep
  <2> QED
    BY <1>1, <1>7, <2>1, <2>2 DEF MergeStep, PipeTypes, PipelineTypeOK
<1>8. CASE KillMerge
  <2>1. FilesTypeOK' /\ MergeTypeOK' /\ mphase' = "down"
    BY <1>1, <1>8, KilledTypes DEF KillMerge
  <2>2. DigTypeOK'
    BY <1>1, <1>8, <2>1, DigTypesKept DEF KillMerge
  <2> QED
    BY <1>1, <1>8, <2>1, <2>2 DEF KillMerge, PipeTypes, PipelineTypeOK, IndexInv
<1>9. CASE UNCHANGED pipeVars
  <2>1. DigTypeOK' /\ docdb' = docdb
    BY <1>1, <1>9, TypeStep DEF pipeVars, vars, fileVars
  <2> QED
    BY <1>1, <1>2, <1>9, <2>1 DEF pipeVars, runVars, PipeTypes, PipelineTypeOK
<1> QED
  BY <1>3, <1>4, <1>5, <1>6, <1>7, <1>8, <1>9 DEF PipelineNext

-----------------------------------------------------------------------------
(* Document IDs and versions, across the runs of both. *)

(* Documents and lines may be missing. *)
LEMMA AgreeLess ==
    ASSUME NEW db, NEW lines, NEW free, IDsAgree(db, lines, free),
           NEW fewer, NEW some \in SUBSET lines,
           \A u \in URLs : fewer[u] \in {db[u], NoDoc}
    PROVE  IDsAgree(fewer, some, free)
BY DEF IDsAgree, OwnWords

(* ... also as to versions. *)
LEMMA VersionLess ==
    ASSUME NEW db, NEW lines, OfVersion(db, lines),
           NEW fewer, NEW some \in SUBSET lines,
           \A u \in URLs : fewer[u] \in {db[u], NoDoc}
    PROVE  OfVersion(fewer, some)
BY DEF OfVersion

(* ... and as to both. *)
LEMMA FitsLess ==
    ASSUME NEW db, NEW lines, NEW free, Fits(db, lines, free),
           NEW fewer, NEW some \in SUBSET lines,
           \A u \in URLs : fewer[u] \in {db[u], NoDoc}
    PROVE  Fits(fewer, some, free)
BY AgreeLess, VersionLess DEF Fits

(* What the parts say of the words that are filed under an ID.             *)
LEMMA SoundIs ==
    ASSUME NEW db, NEW lines, NEW free, IDsAgree(db, lines, free), OfVersion(db, lines)
    PROVE  Sound(db, lines)
BY DEF IDsAgree, OfVersion, Sound

(* A merge leaves less of both, also when it is killed. *)
LEMMA MergeRest ==
    ASSUME FilesTypeOK, MergeTypeOK, RestInv, phase = "down", phase' = "down",
           MergeWork \/ MergeCrash
    PROVE  RestInv'
<1>1. /\ \A u \in URLs : docdb[u] \in {disk[u], NoDoc}
      /\ Fits(disk, words, nextOnDisk)
      /\ mphase \in {"unlinked", "linked"} => Fits(disk, newList, nextOnDisk)
  BY DEF RestInv
<1>2. CASE MergeWork
  <2>1. /\ \A u \in URLs : docdb'[u] \in {docdb[u], NoDoc}
        /\ words' \subseteq words \/ (mphase = "unlinked" /\ words' = newList)
        /\ newList' \subseteq newList \/ (mphase = "words" /\ newList' \subseteq words)
        /\ nextOnDisk' = nextOnDisk
    BY <1>2, MergeWorkDrops
  <2>2. disk' = disk \/ disk' = docdb'
    BY <1>2 DEF MergeWork, BeginWords, MergeWords, LinkList, UnlinkNew, BeginDocs,
       ConvertURL, EndMerge, fileVars
  <2>3. /\ \A u \in URLs : disk'[u] \in {disk[u], NoDoc}
        /\ \A u \in URLs : docdb'[u] \in {disk'[u], NoDoc}
    BY <1>1, <2>1, <2>2
  <2>4. Fits(disk', words', nextOnDisk')
    <3>1. CASE words' \subseteq words
      <4>1. words' \in SUBSET words
        BY <3>1
      <4>2. Fits(disk', words', nextOnDisk)
        BY <1>1, <2>3, <4>1, FitsLess
      <4> QED
        BY <2>1, <4>2
    <3>2. CASE mphase = "unlinked" /\ words' = newList
      <4>1. Fits(disk, newList, nextOnDisk) /\ newList \in SUBSET newList
        BY <1>1, <3>2
      <4>2. Fits(disk', newList, nextOnDisk)
        BY <2>3, <4>1, FitsLess
      <4> QED
        BY <2>1, <3>2, <4>2
    <3> QED
      BY <2>1, <3>1, <3>2
  <2>5. mphase' \in {"unlinked", "linked"} => Fits(disk', newList', nextOnDisk')
    <3>1. ASSUME mphase' \in {"unlinked", "linked"}
          PROVE  MergeWords \/ LinkList
      BY <1>2, <3>1 DEF MergeWork, BeginWords, UnlinkNew, BeginDocs, ConvertURL, EndMerge,
         Exit
    <3>2. CASE MergeWords
      <4>1. newList' \in SUBSET words
        BY <3>2, KeptType DEF MergeWords
      <4>2. Fits(disk', newList', nextOnDisk)
        BY <1>1, <2>3, <4>1, FitsLess
      <4> QED
        BY <2>1, <4>2
    <3>3. CASE LinkList
      <4>1. newList' = newList /\ mphase = "unlinked"
        BY <3>3 DEF LinkList
      <4>2. Fits(disk, newList, nextOnDisk) /\ newList \in SUBSET newList
        BY <1>1, <4>1
      <4>3. Fits(disk', newList, nextOnDisk)
        BY <2>3, <4>2, FitsLess
      <4> QED
        BY <2>1, <4>1, <4>3
    <3> QED
      BY <3>1, <3>2, <3>3
  <2> QED
    BY <2>3, <2>4, <2>5 DEF RestInv
<1>3. CASE MergeCrash
  <2>1. /\ UNCHANGED <<words, newList, nextOnDisk>> /\ mphase' = "down"
    BY <1>3 DEF MergeCrash, Exit
  <2>2. /\ \A u \in URLs : disk'[u] \in {disk[u], NoDoc}
        /\ \A u \in URLs : docdb'[u] \in {disk'[u], NoDoc}
    <3>1. CASE mphase = "docs"
      <4>1. LoseDb
        BY <1>3, <3>1 DEF MergeCrash
      <4>2. PICK kept \in SUBSET URLs :
               docdb' = [u \in URLs |-> IF u \in kept THEN docdb[u] ELSE disk[u]]
        BY <4>1 DEF LoseDb
      <4> QED
        BY <1>1, <4>1, <4>2 DEF LoseDb
    <3>2. CASE mphase # "docs"
      BY <1>1, <1>3, <3>2 DEF MergeCrash
    <3> QED
      BY <3>1, <3>2
  <2>3. Fits(disk', words', nextOnDisk')
    <3>1. words \in SUBSET words
      OBVIOUS
    <3>2. Fits(disk', words, nextOnDisk)
      BY <1>1, <2>2, <3>1, FitsLess
    <3> QED
      BY <2>1, <3>2
  <2> QED
    BY <2>1, <2>2, <2>3 DEF RestInv
<1> QED
  BY <1>2, <1>3

(* htdig begins with what a merge left, and leaves what a merge begins     *)
(* with. *)
LEMMA DigRest ==
    ASSUME RestInv, IDInv', TextInv', mphase = "down", UNCHANGED mergeVars,
           [DigNext]_vars, ~Crash
    PROVE  RestInv'
<1>1. mphase' = "down"
  BY DEF mergeVars
<1>2. ASSUME phase' = "down"
      PROVE  /\ \A u \in URLs : docdb'[u] \in {disk'[u], NoDoc}
             /\ Fits(disk', words', nextOnDisk')
  <2>1. CASE phase # "down"
    <3>1. Finish \/ DumpLog
      BY <1>2, <2>1, RetrievePhase DEF DigNext, Start, Work, Load, InitialLog,
         InitialDb, InitialStart, Initial, LogRead, DbRead, Loaded, SkipServer, NewRound,
         GotHref, Parsed, Signal, Htdump, World, Publish, Outage, vars
    <3>2. disk' = docdb'
      BY <3>1 DEF Finish, DumpLog, CloseDb
    <3> QED
      BY <1>2, <3>2 DEF IDInv, TextInv, NextFree, Fits
  <2>2. CASE phase = "down"
    <3>1. UNCHANGED <<docdb, disk, words, nextOnDisk>>
      BY <1>2, <2>2, RetrievePhase DEF DigNext, Start, Work, Load, InitialLog,
         InitialDb, InitialStart, Initial, LogRead, DbRead, Loaded, SkipServer, IsNext,
         NewRound, GotHref, Parsed, Finish, DumpLog, Signal, Htdump, World, Publish,
         Outage, vars, fileVars
    <3> QED
      BY <2>2, <3>1 DEF RestInv, Fits, OfVersion, IDsAgree
  <2> QED
    BY <2>1, <2>2
<1> QED
  BY <1>1, <1>2 DEF RestInv

-----------------------------------------------------------------------------
(* What is found between the runs. *)

(* The lists that a merge works on fit to the documents. *)
LEMMA RestWords ==
    ASSUME RestInv, phase = "down"
    PROVE  WordInv
<1>1. /\ \A u \in URLs : docdb[u] \in {disk[u], NoDoc}
      /\ Fits(disk, words, nextOnDisk)
      /\ mphase \in {"unlinked", "linked"} => Fits(disk, newList, nextOnDisk)
  BY DEF RestInv
<1>2. ASSUME NEW lines, Fits(disk, lines, nextOnDisk)
      PROVE  Sound(docdb, lines)
  <2>1. lines \in SUBSET lines
    OBVIOUS
  <2>2. Fits(docdb, lines, nextOnDisk)
    BY <1>1, <1>2, <2>1, FitsLess
  <2> QED
    BY <2>2, SoundIs DEF Fits
<1> QED
  BY <1>1, <1>2 DEF WordInv

(* The word database of a merge that is not killed fits to the documents,  *)
(* and htdig leaves both alone until it is started again. *)
LEMMA FoundStep ==
    ASSUME PipeTypes, RestInv, FoundInv, [PipelineNext]_pipeVars
    PROVE  FoundInv'
<1>1. /\ FilesTypeOK /\ MergeTypeOK /\ IndexInv
  BY DEF PipeTypes, PipelineTypeOK, DigTypeOK
<1>2. ASSUME UNCHANGED mergeVars, mphase = "down" \/ UNCHANGED docdb, UNCHANGED whole,
             served' => served /\ phase' = phase /\ UNCHANGED docdb
      PROVE  FoundInv'
  BY <1>2 DEF mergeVars, FoundInv, MergedWords, Leads, Sound
<1>3. CASE StartDig
  BY <1>2, <1>3 DEF StartDig
<1>4. CASE DigStep
  <2>1. mphase = "down" /\ UNCHANGED mergeVars /\ UNCHANGED <<whole, served>>
    BY <1>4 DEF DigStep, runVars
  <2>2. ASSUME phase = "down"
        PROVE  phase' = phase /\ docdb' = docdb
    BY <1>4, <2>2, RetrievePhase DEF DigStep, Work, Load, InitialLog, InitialDb,
       InitialStart, LogRead, DbRead, Loaded, SkipServer, IsNext, NewRound, GotHref,
       Parsed, Finish, DumpLog, Signal, Crash, Htdump
  <2> QED
    BY <1>2, <2>1, <2>2 DEF FoundInv
<1>5. CASE WorldStep
  BY <1>2, <1>5 DEF WorldStep, runVars, World, Publish, Outage, fileVars
<1>6. CASE BeginMerge
  <2>1. PICK j \in Jobs : StartMerge(j) /\ whole' = (j = {"words", "docs"})
    BY <1>6 DEF BeginMerge
  <2>2. mphase' = "begin" /\ job' = j /\ served' = FALSE
    BY <1>6, <2>1 DEF BeginMerge, StartMerge
  <2>3. ~(whole' /\ MergedWords')
    BY <2>1, <2>2 DEF MergedWords
  <2> QED
    BY <2>2, <2>3 DEF FoundInv
<1>7. CASE MergeStep
  <2>1. /\ MergeWork /\ mphase # "down" /\ phase = "down" /\ phase' = "down"
        /\ whole' = whole
    BY <1>7 DEF MergeStep, MergeWork, BeginWords, MergeWords, LinkList, UnlinkNew,
       BeginDocs, ConvertURL, EndMerge, RestInv, DigOnly
  <2>2. WordInv
    BY <2>1, RestWords
  <2>3. whole /\ MergedWords => Sound(docdb, wordDb)
    BY DEF FoundInv
  <2>4. whole /\ (MergedWords \/ MergedWords') => Sound(docdb, wordDb)'
    BY <1>1, <2>1, <2>2, <2>3, MergeWorkWords
  <2>5. ASSUME served'
        PROVE  mphase' = "down" /\ Leads(docIndex)' /\ Sound(docdb, wordDb)'
    <3>1. whole /\ mphase = "docs" /\ mphase' = "down"
      BY <1>7, <2>5 DEF MergeStep
    <3>2. UNCHANGED <<docdb, docIndex>>
      BY <2>1, <3>1 DEF MergeWork, BeginWords, MergeWords, LinkList, UnlinkNew,
         BeginDocs, ConvertURL, EndMerge
    <3>3. Sound(docdb, wordDb)'
      BY <2>4, <3>1 DEF MergedWords
    <3> QED
      BY <1>1, <3>1, <3>2, <3>3 DEF IndexInv, Leads
  <2> QED
    BY <2>1, <2>4, <2>5 DEF FoundInv
<1>8. CASE KillMerge
  <2>1. mphase # "down" /\ mphase' = "down" /\ served' = served
    BY <1>8 DEF KillMerge, MergeCrash, Exit
  <2> QED
    BY <2>1 DEF FoundInv, MergedWords
<1>9. CASE UNCHANGED pipeVars
  BY <1>2, <1>9 DEF pipeVars, vars, fileVars, runVars
<1> QED
  BY <1>3, <1>4, <1>5, <1>6, <1>7, <1>8, <1>9 DEF PipelineNext

(* Of the databases' first state: they are empty. *)
LEMMA PipeInit == PipelineInit => PipeInv
<1> SUFFICES ASSUME PipelineInit PROVE PipeInv
  OBVIOUS
<1>1. DigTypeOK /\ IDInv
  BY InitType, InitIDs DEF PipelineInit
<1>2. MergeTypeOK /\ IndexInv /\ mphase = "down"
  BY MergeAssumption DEF PipelineInit, MergeInit, MergeTypeOK, IndexInv
<1>3. /\ phase = "down" /\ words = {} /\ disk = docdb /\ nextOnDisk = 0
      /\ \A u \in URLs : docdb[u] = NoDoc
      /\ whole = FALSE /\ served = FALSE /\ parted = FALSE
      /\ merges = 0 /\ mergeCrashes = 0 /\ digs = 0
  BY DEF PipelineInit, DigInit, FilesInit
<1>4. TextInv
  BY <1>3 DEF TextInv, OfVersion
<1>5. RestInv
  BY <1>1, <1>2, <1>3, <1>4 DEF RestInv, Fits, IDInv, NextFree, TextInv
<1>6. FoundInv
  BY <1>3 DEF FoundInv
<1>7. PipeTypes
  BY <1>1, <1>2, <1>3 DEF PipeTypes, PipelineTypeOK
<1> QED
  BY <1>1, <1>4, <1>5, <1>6, <1>7 DEF PipeInv

(* No step of either program breaks the invariant. *)
LEMMA PipeStep ==
    ASSUME PipeInv, MaxCrashes = 0, [PipelineNext]_pipeVars
    PROVE  PipeInv'
<1>1. PipeTypes' /\ FoundInv'
  BY PipeTypeStep, FoundStep DEF PipeInv
<1>2. /\ DigTypeOK /\ FilesTypeOK /\ MergeTypeOK /\ IDInv /\ TextInv /\ RestInv
  BY DEF PipeInv, PipeTypes, PipelineTypeOK, DigTypeOK
<1>3. ~Crash
  BY <1>2 DEF Crash, DigTypeOK
<1>4. CASE StartDig \/ DigStep
  <2>1. DigNext /\ mphase = "down" /\ UNCHANGED mergeVars
    BY <1>4 DEF StartDig, DigStep, DigNext
  <2>2. IDInv' /\ TextInv'
    BY <1>2, <2>1, IDStep, TextStep
  <2>3. RestInv'
    BY <1>2, <1>3, <2>1, <2>2, DigRest
  <2> QED
    BY <1>1, <2>2, <2>3 DEF PipeInv
<1>5. CASE WorldStep \/ UNCHANGED pipeVars
  <2>1. [DigNext]_vars /\ UNCHANGED mergeVars
        /\ UNCHANGED <<docdb, disk, words, nextOnDisk, phase>>
    BY <1>5 DEF WorldStep, runVars, pipeVars, vars, fileVars, DigNext, World, Publish,
       Outage
  <2>2. IDInv' /\ TextInv'
    BY <1>2, <2>1, IDStep, TextStep
  <2>3. RestInv'
    BY <1>2, <2>1 DEF mergeVars, RestInv, Fits, OfVersion, IDsAgree
  <2> QED
    BY <1>1, <2>2, <2>3 DEF PipeInv
<1>6. CASE BeginMerge
  <2>1. /\ phase = "down" /\ phase' = "down" /\ mphase' = "begin"
        /\ UNCHANGED <<docdb, disk, words, nextOnDisk>>
    BY <1>6 DEF BeginMerge, StartMerge, fileVars, DigOnly
  <2>2. RestInv'
    BY <1>2, <2>1 DEF RestInv, Fits, OfVersion, IDsAgree
  <2>3. IDInv' /\ TextInv'
    BY <1>2, <2>1 DEF IDInv, TextInv, NextFree, OfVersion, IDsAgree, OwnWords
  <2> QED
    BY <1>1, <2>2, <2>3 DEF PipeInv
<1>7. CASE MergeStep \/ KillMerge
  <2>1. /\ MergeWork \/ MergeCrash
        /\ phase = "down" /\ phase' = "down"
    BY <1>2, <1>7 DEF MergeStep, KillMerge, MergeWork, BeginWords, MergeWords, LinkList,
       UnlinkNew, BeginDocs, ConvertURL, EndMerge, MergeCrash, RestInv, DigOnly
  <2>2. RestInv'
    BY <1>2, <2>1, MergeRest
  <2>3. /\ \A u \in URLs : docdb'[u] \in {disk'[u], NoDoc}
        /\ Fits(disk', words', nextOnDisk') /\ words' \in SUBSET words'
    BY <2>1, <2>2 DEF RestInv
  <2>4. Fits(docdb', words', nextOnDisk')
    BY <2>3, FitsLess
  <2>5. IDInv' /\ TextInv'
    BY <2>1, <2>4 DEF Fits, IDInv, TextInv, NextFree
  <2> QED
    BY <1>1, <2>2, <2>5 DEF PipeInv
<1> QED
  BY <1>4, <1>5, <1>6, <1>7 DEF PipelineNext

(* So it always holds, unless htdig is killed. *)
LEMMA PipeInductive ==
    ASSUME MaxCrashes = 0
    PROVE  PipelineSpec => []PipeInv
BY PipeInit, PipeStep, PTL DEF PipelineSpec

(* The variables of both programs keep their types. *)
THEOREM PipelineTypes == PipelineSpec => []PipelineTypeOK
<1>1. PipelineInit => PipeTypes
  BY PipeInit DEF PipeInv
<1>2. PipeTypes /\ [PipelineNext]_pipeVars => PipeTypes'
  BY PipeTypeStep
<1> QED
  BY <1>1, <1>2, PTL DEF PipelineSpec, PipeTypes

(* However digs and merges follow one another, and however often a merge   *)
(* is killed: no two documents share an ID, none in use is handed out      *)
(* again, and the words under one ID are of one version of one page        *)
(* (htmerge drops documents and words, and leaves the next ID alone). *)
THEOREM IDsOutlastMerges ==
    ASSUME MaxCrashes = 0
    PROVE  PipelineSpec => [](UniqueIDs /\ OneContentPerID)
BY PipeInductive, IDInvImplies, PTL DEF PipeInv

(* Whenever a merge has served its databases an entry of the index leads   *)
(* to the one stored document of that ID, and the words filed under the ID *)
(* are for it and from the version whose record is stored: htsearch, which *)
(* goes from a word by its ID to a URL and a record, shows the page that   *)
(* the word was on. *)
THEOREM FoundIsRight ==
    ASSUME MaxCrashes = 0
    PROVE  PipelineSpec => []IndexSound
<1>1. PipeInv => IndexSound
  <2> SUFFICES ASSUME PipeInv, served, NEW e \in docIndex
               PROVE  /\ docdb[e.url] # NoDoc /\ docdb[e.url].id = e.id
                      /\ \A f \in docIndex : f.id = e.id => f = e
                      /\ \A p \in wordDb : p.id = e.id => p.url = e.url
                      /\ \A p \in OwnWords(wordDb) : p.id = e.id =>
                            p.text = PageText(e.url, docdb[e.url].time)
    BY DEF IndexSound
  <2>1. e.url \in URLs
    BY DEF PipeInv, PipeTypes, PipelineTypeOK, MergeTypeOK, IndexEntry
  <2>2. Leads(docIndex) /\ Sound(docdb, wordDb)
    BY DEF PipeInv, FoundInv
  <2> QED
    BY <2>1, <2>2 DEF Leads, Sound, OwnWords
<1> QED
  BY <1>1, PipeInductive, PTL

-----------------------------------------------------------------------------
(* Which words a merge will keep. *)

(* What a URL may answer, and what of it is retrieved. *)
PagesOf(u) == {Web0[u]} \cup {e.page : e \in {f \in Edits : f.url = u}}
Contents(u) == {p \in PagesOf(u) : p.status = "ok"}

(* What a signal leaves of a page has a text, and asks not to be indexed,  *)
(* as the page does or as plain text does. *)
HalfPage(u, p) ==
    u \in cut /\ \/ p.head /\ ~p.noindex
                 \/ \E q \in Contents(u) : p.head = q.head /\ p.noindex = q.noindex

WebInv ==
    /\ \A u \in URLs : web[u] \in PagesOf(u)
    /\ phase = "parse" =>
          /\ cur.page \in Contents(cur.url) \/ HalfPage(cur.url, cur.page)
          /\ cur.ref.head = cur.page.head
          /\ cur.ref.state = IF cur.page.noindex THEN "noindex" ELSE "normal"

(* The documents whose words the next merge leaves out. *)
Superseded == {m.id : m \in {k \in marks : k.mark = "!"}}

(* Words that are filed under the ID of a stored document, which no merge  *)
(* drops but for being discarded. *)
Live(w, db) ==
    /\ db[w.url] # NoDoc /\ db[w.url].id = w.id
    /\ db[w.url].head /\ db[w.url].state # "noindex"

AllLive(db, lines, gone) == \A w \in OwnWords(lines) : w.id \in gone \/ Live(w, db)

(* Every page has a text to show: convertDocs drops a document without it, *)
(* and mergeWords keeps its words. *)
Headed == \A u \in URLs : \A p \in Contents(u) : p.head

(* While htdig runs. *)
DigLive ==
    /\ AllLive(docdb, words, Superseded)
    /\ phase = "parse" =>
          \A w \in OwnWords(words) : w.url = cur.url => w.id \in Superseded

(* A page that is cut before its type is plain text, and no date is no     *)
(* other page. *)
LEMMA HalfPageIs ==
    ASSUME DigTypeOK, NEW u \in URLs, NEW p \in HalfPages(u)
    PROVE  \/ p.head /\ ~p.noindex
           \/ /\ web[u].status = "ok"
              /\ p.head = web[u].head /\ p.noindex = web[u].noindex
<1>1. web[u] \in Page
  BY DEF DigTypeOK
<1>2. \/ p \in {Plain(web[u]), [Plain(web[u]) EXCEPT !.ver = 0]}
      \/ web[u].status = "ok" /\ p = [web[u] EXCEPT !.ver = 0]
  <2>1. CASE web[u].status = "ok"
    BY <2>1 DEF HalfPages
  <2>2. CASE web[u].status = "not_html"
    BY <2>2 DEF HalfPages
  <2>3. CASE web[u].status \notin {"ok", "not_html"}
    BY <2>3 DEF HalfPages
  <2> QED
    BY <2>1, <2>2, <2>3
<1> QED
  BY <1>1, <1>2 DEF Plain, Page

(* Pages that are published are among those. *)
LEMMA WebStep ==
    ASSUME DigTypeOK, WebInv, [DigNext]_vars
    PROVE  WebInv'
<1>1. CASE \E s \in Servers : Retrieve(s)
  <2>1. PICK s \in Servers : Retrieve(s)
    BY <1>1
  <2>a. PICK page \in Heard(s) :
          \/ RetrieveGone(s, page) \/ RetrieveUnchanged(s, page)
          \/ RetrieveUnauthorized(s, page) \/ RetrieveRedirect(s, page)
          \/ RetrievePage(s, page)
    BY <2>1 DEF Retrieve
  <2>2. CASE RetrievePage(s, page)
    <3> DEFINE r == Head(queue[s])
               old == Registered(r)
    <3>1. Take(s, page) /\ queue[s] # <<>> /\ web' = web /\ phase' = "parse"
      BY <2>2 DEF RetrievePage, Take, worldVars
    <3>2. r \in URLRef /\ r.url \in URLs /\ old \in Doc
      BY <3>1, TakenType, RegisteredType
    <3>3. page \in Answer
      BY <2>a, HeardType
    <3>4. /\ cur'.url = r.url /\ cur'.page = page
          /\ cur'.ref.head = page.head
          /\ cur'.ref.state = IF page.noindex THEN "noindex" ELSE "normal"
      <4> HIDE DEF r
      <4> QED
        BY <2>2, <3>2, <3>3 DEF RetrievePage, Doc, r
    <3> HIDE DEF old
    <3>5. page \in Contents(r.url) \/ HalfPage(cur.url, page)'
      <4>1. page.status = "ok"
        BY <2>2 DEF RetrievePage, Status
      <4>2. web[r.url] \in Page /\ web[r.url] \in PagesOf(r.url)
        BY <3>2 DEF WebInv, DigTypeOK
      <4>3. CASE page = WholeAnswer(r.url)
        <5>1. page = web[r.url]
          BY <4>1, <4>2, <4>3 DEF WholeAnswer, Page
        <5> QED
          BY <4>1, <4>2, <5>1 DEF Contents
      <4>4. CASE page \in CutAnswers(r.url) /\ page # WholeAnswer(r.url)
        <5>1. cut' = cut \cup {r.url}
          BY <3>1, <4>4 DEF Take, Hear
        <5>2. page \in HalfPages(r.url)
          <6>1. page \notin Failures(r.url) /\ page \notin HalfRedirects(r.url)
            BY <4>1, <4>2 DEF Failures, HalfRedirects, Page
          <6> QED
            BY <4>4, <6>1 DEF CutAnswers
        <5>3. \/ page.head /\ ~page.noindex
              \/ /\ web[r.url].status = "ok"
                 /\ page.head = web[r.url].head /\ page.noindex = web[r.url].noindex
          BY <3>2, <5>2, HalfPageIs
        <5> QED
          BY <3>4, <4>2, <5>1, <5>3 DEF HalfPage, Contents, PagesOf
      <4> QED
        BY <2>a, <4>3, <4>4, HeardType
    <3> HIDE DEF r
    <3> QED
      BY <3>1, <3>4, <3>5 DEF WebInv, PagesOf, Contents, HalfPage
  <2>3. CASE \/ RetrieveGone(s, page) \/ RetrieveUnchanged(s, page)
             \/ RetrieveUnauthorized(s, page) \/ RetrieveRedirect(s, page)
    <3>1. web' = web /\ phase' = "dig"
      BY <2>3 DEF RetrieveGone, RetrieveUnchanged, RetrieveUnauthorized, RetrieveRedirect,
         Take, IsNext, worldVars
    <3> QED
      BY <3>1 DEF WebInv, PagesOf, Contents
  <2> QED
    BY <2>a, <2>2, <2>3
<1>2. CASE GotHref
  <2>1. phase = "parse" /\ cur \in Cur /\ web' = web /\ cut' = cut
    BY <1>2 DEF GotHref, DigTypeOK, worldVars
  <2>2. /\ cur'.url = cur.url /\ cur'.page = cur.page
        /\ cur'.ref.head = cur.ref.head /\ cur'.ref.state = cur.ref.state
    <3>1. PICK texts : cur' = [cur EXCEPT !.left = Tail(cur.left), !.ref.descriptions = texts]
      BY <1>2 DEF GotHref
    <3> QED
      BY <2>1, <3>1 DEF Cur, Doc
  <2> QED
    BY <2>1, <2>2 DEF WebInv, PagesOf, Contents, HalfPage
<1>3. CASE World
  <2>1. phase' = phase /\ cur' = cur /\ cut' = cut
    BY <1>3 DEF World, Publish, Outage, memVars, histVars
  <2>2. \A u \in URLs : web'[u] \in PagesOf(u)
    <3>1. CASE web' = web
      BY <3>1 DEF WebInv
    <3>2. CASE Publish
      <4>1. PICK e \in Edits : web' = [web EXCEPT ![e.url] = e.page]
        BY <3>2 DEF Publish
      <4>2. web \in [URLs -> Page]
        BY DEF DigTypeOK
      <4> QED
        BY <4>1, <4>2 DEF WebInv, PagesOf, Contents
    <3> QED
      BY <1>3, <3>1, <3>2 DEF World, Outage
  <2> QED
    BY <2>1, <2>2 DEF WebInv, PagesOf, Contents, HalfPage
<1>4. ASSUME web' = web, phase' # "parse" \/ (phase' = phase /\ cur' = cur /\ cut' = cut)
      PROVE  WebInv'
  BY <1>4 DEF WebInv, PagesOf, Contents, HalfPage
<1>5. CASE \E initial \in InitialFlags : Start(initial)
  BY <1>4, <1>5 DEF Start, worldVars
<1>6. CASE Load
  BY <1>4, <1>6 DEF Load, InitialLog, InitialDb, InitialStart, Initial,
     LogRead, DbRead, Loaded, worldVars
<1>7. CASE (\E s \in Servers : SkipServer(s)) \/ NewRound \/ Signal \/ Htdump
  BY <1>4, <1>7 DEF SkipServer, NewRound, Signal, Htdump, worldVars, memVars, histVars
<1>8. CASE Finish \/ DumpLog \/ Crash \/ Parsed
  BY <1>4, <1>8 DEF Finish, DumpLog, CloseDb, Crash, Parsed, worldVars
<1>9. CASE UNCHANGED vars
  BY <1>4, <1>9 DEF vars, worldVars, memVars, histVars
<1> QED
  BY <1>1, <1>2, <1>3, <1>5, <1>6, <1>7, <1>8, <1>9 DEF DigNext, Work

(* Words stay live as long as only links are added. *)
LEMMA LivesOn ==
    ASSUME DigTypeOK, AllLive(docdb, words, Superseded), KeepsVersions, OnlyLinks,
           marks \subseteq marks'
    PROVE  AllLive(docdb', words', Superseded')
<1> SUFFICES ASSUME NEW w \in OwnWords(words'), w.id \notin Superseded'
             PROVE  Live(w, docdb')
  BY DEF AllLive
<1>1. w \in OwnWords(words) /\ w.url \in URLs
  BY DEF OnlyLinks, OwnWords, DigTypeOK, FilesTypeOK, WordLine
<1>2. w.id \notin Superseded
  BY DEF Superseded
<1>3. Live(w, docdb)
  BY <1>1, <1>2 DEF AllLive
<1> QED
  BY <1>1, <1>3 DEF Live, KeepsVersions, SameVersion

(* What a retrieval writes to the word list: markers of documents that it  *)
(* has given IDs to; and the old version of a page that has a new one is   *)
(* superseded, and only it. *)
LEMMA RetrieveMarks ==
    ASSUME DigTypeOK, IDsAgree(docdb, words, nextID), NEW s \in Servers, Retrieve(s)
    PROVE  /\ words \subseteq words' /\ marks \subseteq marks'
           /\ nextID' >= nextID /\ nextID' \in Nat
           /\ \A m \in marks' : m \in marks \/ m.id < nextID'
           /\ phase' # "parse" => Superseded' = Superseded
           /\ phase' = "parse" =>
                 /\ UNCHANGED <<docdb, words>>
                 /\ cur'.url \in URLs
                 /\ IF Old(cur'.url)
                    THEN /\ Superseded' = Superseded \cup {docdb[cur'.url].id}
                         /\ cur'.ref.id = nextID
                    ELSE /\ Superseded' = Superseded
                         /\ \/ cur'.ref.id = nextID
                            \/ docdb[cur'.url] # NoDoc /\ cur'.ref.id = docdb[cur'.url].id
<1> SUFFICES ASSUME NEW r, r = Head(queue[s]), NEW u, u = r.url, NEW reg, reg = Registered(r)
             PROVE  /\ words \subseteq words' /\ marks \subseteq marks'
                    /\ nextID' >= nextID /\ nextID' \in Nat
                    /\ \A m \in marks' : m \in marks \/ m.id < nextID'
                    /\ phase' # "parse" => Superseded' = Superseded
                    /\ phase' = "parse" =>
                          /\ UNCHANGED <<docdb, words>>
                          /\ cur'.url \in URLs
                          /\ IF Old(cur'.url)
                             THEN /\ Superseded' = Superseded \cup {docdb[cur'.url].id}
                                  /\ cur'.ref.id = nextID
                             ELSE /\ Superseded' = Superseded
                                  /\ \/ cur'.ref.id = nextID
                                     \/ /\ docdb[cur'.url] # NoDoc
                                        /\ cur'.ref.id = docdb[cur'.url].id
  OBVIOUS
<1>0. PICK p \in Heard(s) :
        \/ RetrieveGone(s, p) \/ RetrieveUnchanged(s, p) \/ RetrieveUnauthorized(s, p)
        \/ RetrieveRedirect(s, p) \/ RetrievePage(s, p)
  BY DEF Retrieve
<1>a. p \in Answer
  BY <1>0, HeardType
<1>1. Take(s, p) /\ phase = "dig" /\ queue[s] # <<>>
  BY <1>0 DEF RetrieveGone, RetrieveUnchanged, RetrieveUnauthorized,
              RetrieveRedirect, RetrievePage, Take, IsNext
<1>2. r \in URLRef /\ u \in URLs /\ reg \in Doc /\ reg.id \in Nat /\ nextID \in Nat
  BY <1>1, TakenType, RegisteredType DEF Doc, DigTypeOK
<1>3. /\ docdb[u] # NoDoc => reg.id = docdb[u].id /\ AfterRegister(r) = nextID
      /\ docdb[u] = NoDoc => reg.id = nextID /\ AfterRegister(r) = nextID + 1
  BY <1>2, RegisteredVersion DEF SameVersion, AfterRegister
<1>4. reg.id < AfterRegister(r) /\ AfterRegister(r) >= nextID /\ AfterRegister(r) \in Nat
  BY <1>2, <1>3 DEF IDsAgree
<1>5. ASSUME NEW k \in {"+", "-"}, marks' = marks \cup {[mark |-> k, id |-> reg.id]}
      PROVE  Superseded' = Superseded
  BY <1>5 DEF Superseded
<1>6. CASE RetrieveGone(s, p)
  <2>1. /\ marks' = marks \cup {[mark |-> "-", id |-> reg.id]}
        /\ words' = words /\ nextID' = AfterRegister(r) /\ phase' = phase
    BY <1>6 DEF RetrieveGone, AppendMarks
  <2> QED
    BY <1>1, <1>4, <1>5, <2>1
<1>7. CASE RetrieveUnchanged(s, p)
  <2>1. /\ marks' = marks \cup {[mark |-> "+", id |-> reg.id]}
        /\ words' = words /\ nextID' = nextID /\ phase' = phase
        /\ Status(u, p) = "not_changed"
    BY <1>7 DEF RetrieveUnchanged, AppendMarks
  <2>2. docdb[u] # NoDoc
    <3>1. p.status \in Statuses \cup {"no_server"}
      BY <1>a DEF Answer
    <3> QED
      BY <2>1, <3>1 DEF Status, Old, Statuses
  <2> QED
    BY <1>1, <1>2, <1>3, <1>4, <1>5, <2>1, <2>2
<1>8. CASE RetrieveUnauthorized(s, p)
  <2>1. marks' = marks /\ words' = words /\ nextID' = AfterRegister(r) /\ phase' = phase
    BY <1>8 DEF RetrieveUnauthorized, KeepList
  <2> QED
    BY <1>1, <1>4, <2>1 DEF Superseded
<1>9. CASE RetrieveRedirect(s, p)
  <2>1. /\ marks' = marks \cup {[mark |-> "-", id |-> reg.id]}
        /\ words \subseteq words' /\ phase' = phase
        /\ nextID' \in {AfterRegister(r), AfterRegister(r) + 1}
    BY <1>9 DEF RetrieveRedirect, AppendMarks, AppendLines
  <2> QED
    BY <1>1, <1>2, <1>4, <1>5, <2>1
<1>10. CASE RetrievePage(s, p)
  <2>1. /\ UNCHANGED <<docdb, words>> /\ phase' = "parse" /\ cur'.url = u
    BY <1>10 DEF RetrievePage, AppendMarks, KeepList
  <2>2. cur'.ref.id = IF Old(u) THEN nextID ELSE reg.id
    BY <1>2, <1>10 DEF RetrievePage, Doc
  <2>3. CASE Old(u)
    <3>1. /\ marks' = marks \cup {[mark |-> "!", id |-> reg.id]} /\ nextID' = nextID + 1
          /\ docdb[u] # NoDoc
      BY <1>10, <2>3 DEF RetrievePage, AppendMarks, Old
    <3>2. Superseded' = Superseded \cup {docdb[u].id}
      <4> SUFFICES Superseded' = Superseded \cup {reg.id}
        BY <1>3, <3>1
      <4> DEFINE k == [mark |-> "!", id |-> reg.id]
      <4>1. marks' = marks \cup {k} /\ k.mark = "!" /\ k.id = reg.id
        BY <3>1
      <4> HIDE DEF k
      <4> QED
        BY <4>1 DEF Superseded
    <3> QED
      BY <1>2, <1>3, <1>4, <2>1, <2>2, <2>3, <3>1, <3>2
  <2>4. CASE ~Old(u)
    <3>1. marks' = marks /\ nextID' = AfterRegister(r)
      BY <1>10, <2>4 DEF RetrievePage, KeepList
    <3>2. Superseded' = Superseded
      BY <3>1 DEF Superseded
    <3> QED
      BY <1>2, <1>3, <1>4, <2>1, <2>2, <2>4, <3>1, <3>2
  <2> QED
    BY <2>3, <2>4
<1> QED
  BY <1>0, <1>6, <1>7, <1>8, <1>9, <1>10

(* While it reads the web htdig leaves every word live or supersedes it.   *)
LEMMA DigLiveStep ==
    ASSUME DigTypeOK, IDInv, WebInv, Headed, DigLive, [DigNext]_vars, ~Crash
    PROVE  DigLive'
<1>1. CASE \E s \in Servers : Retrieve(s)
  <2>1. PICK s \in Servers : Retrieve(s)
    BY <1>1
  <2>2. KeepsVersions /\ OnlyLinks /\ phase = "dig"
    BY <2>1, RetrieveVersions
  <2>3. IDsAgree(docdb, words, nextID)
    BY <2>2 DEF IDInv, NextFree
  <2>4. /\ marks \subseteq marks'
        /\ phase' = "parse" =>
              /\ UNCHANGED <<docdb, words>> /\ cur'.url \in URLs
              /\ Old(cur'.url) => Superseded' = Superseded \cup {docdb[cur'.url].id}
    BY <2>1, <2>3, RetrieveMarks
  <2>5. AllLive(docdb', words', Superseded')
    BY <2>2, <2>4, LivesOn DEF DigLive
  <2>6. ASSUME phase' = "parse", NEW w \in OwnWords(words'), w.url = cur'.url
        PROVE  w.id \in Superseded'
    <3>1. words' = words /\ docdb' = docdb /\ w \in words /\ ~w.text.link
      BY <2>4, <2>6 DEF OwnWords
    <3>2. w.id \in Superseded' \/ Live(w, docdb')
      BY <2>5, <2>6 DEF AllLive
    <3>3. CASE Live(w, docdb)
      <4>1. docdb[w.url] # NoDoc /\ docdb[w.url].id = w.id /\ w.url \in URLs
        BY <2>4, <2>6, <3>3 DEF Live
      <4>2. docdb[w.url].got
        BY <2>3, <3>1, <4>1 DEF IDsAgree
      <4> QED
        BY <2>4, <2>6, <4>1, <4>2 DEF Old
    <3> QED
      BY <3>1, <3>2, <3>3
  <2> QED
    BY <2>5, <2>6 DEF DigLive
<1>2. CASE GotHref
  <2>1. /\ KeepsVersions /\ OnlyLinks /\ phase = "parse" /\ cur \in Cur
        /\ marks' = marks
    BY <1>2, GotHrefVersions DEF GotHref, AppendWords, KeepList, DigTypeOK
  <2>2. cur'.url = cur.url
    BY <1>2, <2>1 DEF GotHref, Cur
  <2>3. AllLive(docdb', words', Superseded')
    BY <2>1, LivesOn DEF DigLive
  <2>4. \A w \in OwnWords(words') : w.url = cur'.url => w.id \in Superseded'
    BY <2>1, <2>2 DEF DigLive, OnlyLinks, OwnWords, Superseded
  <2> QED
    BY <2>3, <2>4 DEF DigLive
<1>3. CASE Parsed
  <2> DEFINE line == [id |-> cur.ref.id, url |-> cur.url,
                      text |-> PageText(cur.url, cur.page.ver)]
  <2>1. /\ phase = "parse" /\ phase' = "dig" /\ cur \in Cur
        /\ docdb' = [docdb EXCEPT ![cur.url] = cur.ref]
        /\ marks \subseteq marks'
        /\ words' = words \/ (cur.ref.state # "noindex" /\ words' = words \cup {line})
    BY <1>3 DEF Parsed, DigTypeOK, AppendMarks, AppendWords
  <2>2. /\ cur.url \in URLs /\ cur.ref \in Doc /\ cur.ref.head
        /\ docdb' \in [URLs -> Doc \cup {NoDoc}]
        /\ docdb'[cur.url] = cur.ref
        /\ \A u \in URLs \ {cur.url} : docdb'[u] = docdb[u]
    BY <2>1 DEF Cur, DigTypeOK, FilesTypeOK, WebInv, Headed, HalfPage
  <2>3. \A w \in OwnWords(words) : w.id \in Superseded' \/ Live(w, docdb')
    <3> SUFFICES ASSUME NEW w \in OwnWords(words), w.id \notin Superseded'
                 PROVE  Live(w, docdb')
      OBVIOUS
    <3>1. w.id \notin Superseded /\ w.url \in URLs
      BY <2>1 DEF Superseded, OwnWords, DigTypeOK, FilesTypeOK, WordLine
    <3> QED
      BY <2>1, <2>2, <3>1 DEF DigLive, AllLive, Live
  <2>4. cur.ref.state # "noindex" => Live(line, docdb')
    BY <2>2, DigAssumption DEF Live
  <2> HIDE DEF line
  <2> QED
    BY <2>1, <2>3, <2>4 DEF DigLive, AllLive, OwnWords
<1>4. ASSUME UNCHANGED <<docdb, words, marks>>,
             phase' = "parse" => phase = "parse" /\ cur' = cur
      PROVE  DigLive'
  BY <1>4 DEF DigLive, AllLive, Live, Superseded
<1>5. CASE \E initial \in InitialFlags : Start(initial)
  <2>1. PICK initial \in InitialFlags : Start(initial)
    BY <1>5
  <2>2. CASE initial
    BY <2>1, <2>2 DEF Start, DigLive, AllLive, OwnWords
  <2>3. CASE ~initial
    BY <1>4, <2>1, <2>3 DEF Start
  <2> QED
    BY <2>2, <2>3
<1>6. CASE Load
  BY <1>4, <1>6 DEF Load, InitialLog, InitialDb, InitialStart, Initial,
     LogRead, DbRead, Loaded, fileVars
<1>7. CASE (\E s \in Servers : SkipServer(s)) \/ NewRound \/ Signal \/ Htdump
  BY <1>4, <1>7 DEF SkipServer, NewRound, Signal, Htdump, fileVars, memVars
<1>8. CASE Finish \/ DumpLog
  BY <1>4, <1>8 DEF Finish, DumpLog, CloseDb
<1>9. CASE World \/ UNCHANGED vars
  BY <1>4, <1>9 DEF World, Publish, Outage, vars, fileVars, memVars
<1> QED
  BY <1>1, <1>2, <1>3, <1>5, <1>6, <1>7, <1>8, <1>9 DEF DigNext, Work

-----------------------------------------------------------------------------
(* No two versions of a page in the word database. *)

(* The list that a merge goes on with. *)
Lines == IF mphase \in {"unlinked", "linked"} THEN newList ELSE words

NoStale(lines) == \A p, q \in OwnWords(lines) : p.url = q.url => p = q

LiveInv ==
    /\ AllLive(docdb, Lines, Superseded)
    /\ mphase = "down" => DigLive
    /\ mphase = "unlinked" => words = {} /\ marks = {}
    /\ mphase = "linked" => words = newList
    /\ MergedWords => \A w \in OwnWords(Lines) : w.id \notin discard
    /\ NoStale(wordDb)

(* What mergeWords keeps are the words of one version each. *)
LEMMA KeptAreLive ==
    ASSUME RestInv, phase = "down", AllLive(docdb, words, Superseded)
    PROVE  /\ \A w \in OwnWords(Kept) : Live(w, docdb) /\ w.id \notin Discarded
           /\ NoStale(Kept)
<1>1. \A w \in OwnWords(Kept) : w \in OwnWords(words) /\ w.id \notin Discarded
  BY DEF Kept, OwnWords
<1>2. Superseded \subseteq Discarded
  BY DEF Superseded, Discarded
<1>3. \A w \in OwnWords(Kept) : Live(w, docdb)
  BY <1>1, <1>2 DEF AllLive
<1>4. ASSUME NEW p \in OwnWords(Kept), NEW q \in OwnWords(Kept), p.url = q.url
      PROVE  p = q
  <2>1. p.id = q.id
    BY <1>3, <1>4 DEF Live
  <2>2. IDsAgree(disk, words, nextOnDisk)
    BY DEF RestInv, Fits
  <2> QED
    BY <1>1, <2>1, <2>2 DEF IDsAgree
<1> QED
  BY <1>1, <1>3, <1>4 DEF NoStale

(* htmerge drops no document whose words it keeps. *)
LEMMA MergeLiveStep ==
    ASSUME FilesTypeOK, MergeTypeOK, RestInv, LiveInv, phase = "down", phase' = "down",
           MergeWork \/ MergeCrash
    PROVE  LiveInv'
<1>1. ASSUME \A w \in OwnWords(Lines') :
                 /\ w.id \in Superseded' \/ Live(w, docdb')
                 /\ MergedWords' => w.id \notin discard',
             mphase' \in {"unlinked", "linked"} => MergeWords \/ LinkList,
             \/ wordDb' \in {{}, wordDb} 
             \/ mphase = "words" /\ wordDb' \subseteq Kept
      PROVE  LiveInv'
  <2>1. AllLive(docdb', Lines', Superseded')
    BY <1>1 DEF AllLive
  <2>2. NoStale(wordDb')
    <3>1. CASE mphase = "words" /\ wordDb' \subseteq Kept
      <4>1. AllLive(docdb, words, Superseded)
        BY <3>1 DEF LiveInv, Lines
      <4>2. NoStale(Kept)
        BY <4>1, KeptAreLive
      <4> QED
        BY <3>1, <4>2 DEF NoStale, OwnWords
    <3>2. CASE wordDb' \in {{}, wordDb}
      BY <3>2 DEF LiveInv, NoStale, OwnWords
    <3> QED
      BY <1>1, <3>1, <3>2
  <2>3. /\ mphase' = "unlinked" => words' = {} /\ marks' = {}
        /\ mphase' = "linked" => words' = newList'
    BY <1>1 DEF MergeWords, LinkList
  <2>4. mphase' = "down" => Lines' = words'
    BY DEF Lines
  <2> QED
    BY <1>1, <2>1, <2>2, <2>3, <2>4 DEF LiveInv, DigLive
<1>2. CASE BeginWords
  <2>1. /\ UNCHANGED <<docdb, words, marks>> /\ wordDb' = {} /\ mphase' \in {"words", "down"}
        /\ Lines = words /\ Lines' = words /\ ~MergedWords'
    BY <1>2 DEF BeginWords, Exit, fileVars, Lines, MergedWords
  <2> QED
    BY <1>1, <2>1 DEF LiveInv, AllLive, Live, Superseded
<1>3. CASE MergeWords
  <2>1. /\ docdb' = docdb /\ Lines = words /\ Lines' = Kept /\ wordDb' = Kept
        /\ discard' = Discarded /\ mphase = "words"
    BY <1>3 DEF MergeWords, Lines
  <2>2. AllLive(docdb, words, Superseded)
    BY <2>1 DEF LiveInv
  <2>3. \A w \in OwnWords(Kept) : Live(w, docdb) /\ w.id \notin Discarded
    BY <2>2, KeptAreLive
  <2> QED
    BY <1>1, <1>3, <2>1, <2>3
<1>4. CASE LinkList \/ UnlinkNew
  <2>1. /\ UNCHANGED <<docdb, marks, discard, wordDb>> /\ Lines' = Lines /\ MergedWords
        /\ mphase' = "linked" => LinkList
        /\ mphase' # "unlinked"
    BY <1>4 DEF LinkList, UnlinkNew, fileVars, Lines, MergedWords, LiveInv
  <2> QED
    BY <1>1, <2>1 DEF LiveInv, AllLive, Live, Superseded
<1>5. CASE BeginDocs \/ EndMerge
  <2>1. /\ UNCHANGED <<docdb, words, marks, wordDb>> /\ Lines' = words /\ Lines = words
        /\ MergedWords' => MergedWords /\ discard' = discard
        /\ mphase' \in {"down", "docs"}
    BY <1>5 DEF BeginDocs, EndMerge, Exit, fileVars, Lines, MergedWords
  <2> QED
    BY <1>1, <2>1 DEF LiveInv, AllLive, Live, Superseded
<1>6. CASE \E u \in URLs : ConvertURL(u)
  <2>1. PICK u \in URLs : ConvertURL(u)
    BY <1>6
  <2>2. /\ UNCHANGED <<words, marks, discard, wordDb, mphase>> /\ mphase = "docs"
        /\ Lines' = words /\ Lines = words /\ MergedWords
    BY <2>1 DEF ConvertURL, Lines, MergedWords
  <2>3. docdb' = docdb \/ (Drops(u) /\ docdb' = [docdb EXCEPT ![u] = NoDoc])
    BY <2>1 DEF ConvertURL
  <2>4. ASSUME NEW w \in OwnWords(words), Live(w, docdb)
        PROVE  Live(w, docdb')
    <3>1. w.id \notin discard /\ w.url \in URLs
      BY <2>2, <2>4 DEF LiveInv, OwnWords, FilesTypeOK, WordLine
    <3>2. w.url = u => ~Drops(u)
      BY <2>4, <3>1 DEF Live, Drops
    <3>3. docdb'[w.url] = docdb[w.url]
      BY <2>3, <3>1, <3>2 DEF FilesTypeOK
    <3> QED
      BY <2>4, <3>3 DEF Live
  <2> QED
    BY <1>1, <2>2, <2>4 DEF LiveInv, AllLive, Superseded
<1>7. CASE MergeCrash
  <2>1. /\ UNCHANGED <<words, marks, newList>> /\ mphase' = "down" /\ Lines' = words'
        /\ mphase = "words" \/ wordDb' = wordDb
        /\ mphase = "words" => wordDb' \subseteq Kept
        /\ ~MergedWords'
    BY <1>7 DEF MergeCrash, Exit, Lines, MergedWords
  <2>2. ASSUME NEW w \in OwnWords(words), Live(w, docdb)
        PROVE  Live(w, docdb')
    <3>1. docdb[w.url] # NoDoc /\ w.url \in URLs
      BY <2>2 DEF Live, OwnWords, FilesTypeOK, WordLine
    <3>2. docdb[w.url] = disk[w.url]
      BY <3>1 DEF RestInv
    <3>3. docdb'[w.url] = docdb[w.url]
      BY <1>7, <3>1, <3>2 DEF MergeCrash, LoseDb
    <3> QED
      BY <2>2, <3>3 DEF Live
  <2>3. \A w \in OwnWords(words) : w.id \in Superseded \/ Live(w, docdb)
    <3>1. CASE mphase = "unlinked"
      BY <3>1 DEF LiveInv, OwnWords
    <3>2. CASE mphase # "unlinked"
      BY <3>2 DEF LiveInv, Lines, AllLive
    <3> QED
      BY <3>1, <3>2
  <2> QED
    BY <1>1, <2>1, <2>2, <2>3 DEF Superseded
<1> QED
  BY <1>2, <1>3, <1>4, <1>5, <1>6, <1>7 DEF MergeWork

StaleInv == PipeInv /\ WebInv /\ LiveInv

(* In the first state there are no words.                                  *)
LEMMA InitStale == PipelineInit => StaleInv
<1> SUFFICES ASSUME PipelineInit PROVE StaleInv
  OBVIOUS
<1>1. PipeInv
  BY PipeInit
<1>2. WebInv
  BY DEF PipelineInit, DigInit, WebInv, PagesOf
<1>3. /\ words = {} /\ wordDb = {} /\ mphase = "down" /\ phase = "down"
  BY DEF PipelineInit, DigInit, FilesInit, MergeInit
<1>4. LiveInv
  BY <1>3 DEF LiveInv, Lines, AllLive, OwnWords, NoStale, MergedWords, DigLive
<1> QED
  BY <1>1, <1>2, <1>4 DEF StaleInv

(* Neither program breaks the invariant. *)
LEMMA StaleStep ==
    ASSUME StaleInv, MaxCrashes = 0, Headed, [PipelineNext]_pipeVars
    PROVE  StaleInv'
<1>1. PipeInv'
  BY PipeStep DEF StaleInv
<1>2. /\ DigTypeOK /\ FilesTypeOK /\ MergeTypeOK /\ IDInv /\ RestInv /\ WebInv /\ LiveInv
  BY DEF StaleInv, PipeInv, PipeTypes, PipelineTypeOK, DigTypeOK
<1>3. ~Crash
  BY <1>2 DEF Crash, DigTypeOK
<1>4. ASSUME UNCHANGED <<web, phase, cur, cut>>
      PROVE  WebInv'
  BY <1>2, <1>4 DEF WebInv, PagesOf, Contents, HalfPage
<1>5. CASE StartDig \/ DigStep
  <2>1. DigNext /\ mphase = "down" /\ UNCHANGED mergeVars
    BY <1>5 DEF StartDig, DigStep, DigNext
  <2>2. WebInv' /\ DigLive'
    BY <1>2, <1>3, <2>1, WebStep, DigLiveStep DEF LiveInv
  <2>3. mphase' = "down" /\ wordDb' = wordDb /\ Lines' = words' /\ ~MergedWords'
    BY <2>1 DEF mergeVars, Lines, MergedWords
  <2>4. LiveInv'
    BY <1>2, <2>2, <2>3 DEF LiveInv, DigLive
  <2> QED
    BY <1>1, <2>2, <2>4 DEF StaleInv
<1>6. CASE WorldStep \/ UNCHANGED pipeVars
  <2>1. /\ [DigNext]_vars /\ UNCHANGED mergeVars
        /\ UNCHANGED <<docdb, words, marks, phase, cur>>
    BY <1>6 DEF WorldStep, runVars, pipeVars, vars, fileVars, memVars, DigNext, World,
       Publish, Outage
  <2>2. WebInv'
    BY <1>2, <2>1, WebStep
  <2>3. LiveInv'
    BY <1>2, <2>1 DEF mergeVars, LiveInv, Lines, DigLive, AllLive, Live, Superseded,
       MergedWords, NoStale
  <2> QED
    BY <1>1, <2>2, <2>3 DEF StaleInv
<1>7. CASE BeginMerge
  <2>1. /\ mphase = "down" /\ mphase' = "begin" /\ discard' = {} /\ UNCHANGED wordDb
        /\ UNCHANGED <<docdb, words, marks, web, phase, cur, cut>>
        /\ Lines = words /\ Lines' = words
    BY <1>7 DEF BeginMerge, StartMerge, fileVars, DigOnly, memVars, worldVars, histVars,
       Lines
  <2>2. LiveInv'
    BY <1>2, <2>1 DEF LiveInv, AllLive, Live, Superseded, NoStale
  <2> QED
    BY <1>1, <1>4, <2>1, <2>2 DEF StaleInv
<1>8. CASE MergeStep \/ KillMerge
  <2>1. /\ MergeWork \/ MergeCrash
        /\ phase = "down" /\ UNCHANGED <<web, phase, cur, cut>>
    BY <1>2, <1>8 DEF MergeStep, KillMerge, MergeWork, BeginWords, MergeWords, LinkList,
       UnlinkNew, BeginDocs, ConvertURL, EndMerge, MergeCrash, RestInv, DigOnly, memVars,
       worldVars, histVars
  <2>2. LiveInv'
    BY <1>2, <2>1, MergeLiveStep
  <2> QED
    BY <1>1, <1>4, <2>1, <2>2 DEF StaleInv
<1> QED
  BY <1>5, <1>6, <1>7, <1>8 DEF PipelineNext

(* So it always holds, if htdig is not killed and every page has a text.   *)
LEMMA StaleInductive ==
    ASSUME MaxCrashes = 0, Headed
    PROVE  PipelineSpec => []StaleInv
BY InitStale, StaleStep, PTL DEF PipelineSpec

(* However often pages change, however often digs and merges of any kind   *)
(* follow one another, and however often a merge is killed: of no page are *)
(* the words of two versions found.  A version that was superseded while   *)
(* any number of digs went on is discarded by its marker (parse_url,       *)
(* mergeWords), and a record that convertDocs drops leaves no words behind *)
(* that its successor, under another ID, could not discard. *)
THEOREM NoStaleFound ==
    ASSUME MaxCrashes = 0, Headed
    PROVE  PipelineSpec => []NoStaleWords
<1>1. StaleInv => NoStaleWords
  BY DEF StaleInv, LiveInv, NoStale, NoStaleWords
<1> QED
  BY <1>1, StaleInductive, PTL

-----------------------------------------------------------------------------
(* Documents are found by their words, and lead to what is displayed. *)

AllFound(db, lines, gone) ==
    \A u \in URLs : db[u] # NoDoc /\ db[u].head =>
        db[u].id \in gone \/ \E w \in OwnWords(lines) : w.id = db[u].id

(* No page asks not to be indexed. *)
NoneHidden == \A u \in URLs : \A p \in Contents(u) : ~p.noindex

(* While htdig runs.  Unless remove_bad_urls drops what a marker gives up, *)
(* no document has an ID that was superseded but the one that is being     *)
(* parsed anew. *)
DigAgree ==
    /\ AllFound(docdb, words, IF removeBad THEN Superseded ELSE {})
    /\ \A m \in marks : m.id < NextFree
    /\ ~removeBad =>
          /\ \A u \in Stored : docdb[u].id \in Superseded => phase = "parse" /\ u = cur.url
          /\ phase = "parse" => cur.ref.id \notin Superseded

(* Who is found stays found when lines and links are added. *)
LEMMA FoundOn ==
    ASSUME DigTypeOK, KeepsVersions, words \subseteq words', NEW gone, NEW lost,
           gone \subseteq lost, AllFound(docdb, words, gone)
    PROVE  AllFound(docdb', words', lost)
<1> SUFFICES ASSUME NEW u \in URLs, docdb'[u] # NoDoc, docdb'[u].head
             PROVE  docdb'[u].id \in lost \/ \E w \in OwnWords(words') : w.id = docdb'[u].id
  BY DEF AllFound
<1>1. docdb[u] # NoDoc /\ docdb[u].head /\ docdb'[u].id = docdb[u].id
  BY DEF KeepsVersions, SameVersion
<1>2. OwnWords(words) \subseteq OwnWords(words')
  BY DEF OwnWords
<1> QED
  BY <1>1, <1>2 DEF AllFound

(* htdig leaves every document that has a text with its words, or marks it *)
(* as superseded. *)
LEMMA DigAgreeStep ==
    ASSUME DigTypeOK, IDInv, WebInv, DigAgree, removeBad \in BOOLEAN, removeBad' = removeBad,
           removeBad \/ NoneHidden, [DigNext]_vars, ~Crash
    PROVE  DigAgree'
<1> DEFINE Lost0 == IF removeBad THEN Superseded ELSE {}
<1>1. CASE \E s \in Servers : Retrieve(s)
  <2>1. PICK s \in Servers : Retrieve(s)
    BY <1>1
  <2>2. KeepsVersions /\ OnlyLinks /\ phase = "dig"
    BY <2>1, RetrieveVersions
  <2>3. IDsAgree(docdb, words, nextID) /\ nextID \in Nat /\ NextFree = nextID
    BY <2>2 DEF IDInv, NextFree, DigTypeOK
  <2>4. /\ words \subseteq words' /\ marks \subseteq marks'
        /\ nextID' >= nextID /\ nextID' \in Nat
        /\ \A m \in marks' : m \in marks \/ m.id < nextID'
        /\ phase' # "parse" => Superseded' = Superseded
        /\ phase' = "parse" =>
              /\ UNCHANGED <<docdb, words>> /\ cur'.url \in URLs
              /\ IF Old(cur'.url)
                 THEN /\ Superseded' = Superseded \cup {docdb[cur'.url].id}
                      /\ cur'.ref.id = nextID
                 ELSE /\ Superseded' = Superseded
                      /\ \/ cur'.ref.id = nextID
                         \/ docdb[cur'.url] # NoDoc /\ cur'.ref.id = docdb[cur'.url].id
    BY <2>1, <2>3, RetrieveMarks
  <2>5. phase' # "down" /\ NextFree' = nextID'
    BY <2>1, RetrievePhase DEF NextFree
  <2>6. Superseded \subseteq Superseded'
    BY <2>4 DEF Superseded
  <2>7. AllFound(docdb', words', IF removeBad' THEN Superseded' ELSE {})
    <3>1. Lost0 \subseteq IF removeBad' THEN Superseded' ELSE {}
      BY <2>6
    <3>2. AllFound(docdb, words, Lost0)
      BY DEF DigAgree
    <3> QED
      BY <2>2, <2>4, <3>1, <3>2, FoundOn
  <2>8. \A m \in marks' : m.id < NextFree'
    <3>1. \A m \in marks : m.id \in Nat /\ m.id < nextID
      BY <2>3 DEF DigAgree, DigTypeOK, FilesTypeOK, Mark
    <3> QED
      BY <2>3, <2>4, <2>5, <3>1
  <2>9. \A i \in Superseded : i \in Nat /\ i < nextID
    BY <2>3 DEF DigAgree, DigTypeOK, FilesTypeOK, Mark, Superseded
  <2>10. \A v \in Stored : docdb[v].id \in Nat /\ docdb[v].id < nextID
    BY <2>3 DEF IDsAgree, Stored, DigTypeOK, FilesTypeOK, Doc
  <2>11. ASSUME ~removeBad
         PROVE  /\ \A u \in Stored' : docdb'[u].id \in Superseded' =>
                        phase' = "parse" /\ u = cur'.url
                /\ phase' = "parse" => cur'.ref.id \notin Superseded'
    <3>1. \A v \in Stored : docdb[v].id \notin Superseded
      BY <2>2, <2>11 DEF DigAgree
    <3>2. CASE phase' # "parse"
      <4>1. ASSUME NEW v \in Stored' PROVE docdb'[v].id \notin Superseded
        <5>1. v \in URLs /\ docdb'[v] # NoDoc
          BY DEF Stored
        <5>2. \/ v \in Stored /\ docdb'[v].id = docdb[v].id
              \/ docdb'[v].id \in Nat /\ docdb'[v].id >= nextID
          BY <2>2, <5>1 DEF KeepsVersions, SameVersion, Stored
        <5> QED
          BY <2>3, <2>9, <3>1, <5>2
      <4> QED
        BY <2>4, <3>2, <4>1
    <3>3. CASE phase' = "parse"
      <4>1. Stored' = Stored /\ docdb' = docdb
        BY <2>4, <3>3 DEF Stored
      <4>2. CASE Old(cur'.url)
        <5>1. Superseded' = Superseded \cup {docdb[cur'.url].id} /\ cur'.ref.id = nextID
              /\ cur'.url \in Stored
          BY <2>4, <3>3, <4>2 DEF Old, Stored
        <5>2. \A v \in Stored : docdb[v].id = docdb[cur'.url].id => v = cur'.url
          BY <2>3, <5>1 DEF IDsAgree, Stored
        <5>3. nextID \notin Superseded'
          BY <2>3, <2>9, <2>10, <5>1
        <5> QED
          BY <3>1, <3>3, <4>1, <5>1, <5>2, <5>3
      <4>3. CASE ~Old(cur'.url)
        <5>1. Superseded' = Superseded
              /\ (cur'.ref.id = nextID
                  \/ (cur'.url \in Stored /\ cur'.ref.id = docdb[cur'.url].id))
          BY <2>4, <3>3, <4>3 DEF Stored
        <5>2. nextID \notin Superseded
          BY <2>3, <2>9
        <5> QED
          BY <3>1, <4>1, <5>1, <5>2
      <4> QED
        BY <4>2, <4>3
    <3> QED
      BY <3>2, <3>3
  <2> QED
    BY <2>7, <2>8, <2>11 DEF DigAgree
<1>2. CASE GotHref
  <2>1. /\ KeepsVersions /\ OnlyLinks /\ phase = "parse" /\ cur \in Cur
        /\ marks' = marks /\ words \subseteq words' /\ phase' = "parse"
        /\ nextID \in Nat /\ nextID' \in {nextID, nextID + 1}
    BY <1>2, GotHrefVersions DEF GotHref, AppendWords, KeepList, DigTypeOK
  <2>2. cur'.url = cur.url /\ cur'.ref.id = cur.ref.id
    <3>1. PICK texts : cur' = [cur EXCEPT !.left = Tail(cur.left), !.ref.descriptions = texts]
      BY <1>2 DEF GotHref
    <3> QED
      BY <2>1, <3>1 DEF Cur, Doc
  <2>3. Superseded' = Superseded
    BY <2>1 DEF Superseded
  <2>4. AllFound(docdb', words', IF removeBad' THEN Superseded' ELSE {})
    <3>1. Lost0 \subseteq IF removeBad' THEN Superseded' ELSE {}
      BY <2>3
    <3>2. AllFound(docdb, words, Lost0)
      BY DEF DigAgree
    <3> QED
      BY <2>1, <3>1, <3>2, FoundOn
  <2>5. \A m \in marks : m.id \in Nat /\ m.id < nextID
    BY <2>1 DEF DigAgree, DigTypeOK, FilesTypeOK, Mark, NextFree
  <2>6. \A m \in marks' : m.id < NextFree'
    BY <2>1, <2>5 DEF NextFree
  <2>7. ASSUME ~removeBad, NEW v \in Stored', docdb'[v].id \in Superseded'
        PROVE  v = cur.url
    <3>1. v \in URLs /\ docdb'[v] # NoDoc
      BY DEF Stored
    <3>2. \/ v \in Stored /\ docdb'[v].id = docdb[v].id
          \/ docdb'[v].id \in Nat /\ docdb'[v].id >= nextID
      BY <2>1, <3>1 DEF KeepsVersions, SameVersion, Stored
    <3>3. ~(docdb'[v].id \in Nat /\ docdb'[v].id >= nextID)
      BY <2>1, <2>3, <2>5, <2>7 DEF Superseded
    <3> QED
      BY <2>1, <2>3, <2>7, <3>2, <3>3 DEF DigAgree
  <2> QED
    BY <2>1, <2>2, <2>3, <2>4, <2>6, <2>7 DEF DigAgree
<1>3. CASE Parsed
  <2> DEFINE line == [id |-> cur.ref.id, url |-> cur.url,
                      text |-> PageText(cur.url, cur.page.ver)]
             mark == [mark |-> "!", id |-> cur.ref.id]
  <2>1. /\ phase = "parse" /\ phase' = "dig" /\ cur \in Cur
        /\ docdb' = [docdb EXCEPT ![cur.url] = cur.ref]
        /\ nextID' = nextID /\ NextFree' = nextID /\ NextFree = nextID
        /\ IF cur.ref.state = "noindex"
           THEN marks' = marks \cup {mark} /\ words' = words
           ELSE marks' = marks /\ words' = words \cup {line}
    BY <1>3 DEF Parsed, DigTypeOK, AppendMarks, AppendWords, NextFree
  <2>2. /\ cur.url \in URLs /\ cur.ref \in Doc /\ cur.ref.id < nextID
        /\ docdb' \in [URLs -> Doc \cup {NoDoc}]
        /\ docdb'[cur.url] = cur.ref
        /\ \A u \in URLs \ {cur.url} : docdb'[u] = docdb[u]
    BY <2>1 DEF Cur, DigTypeOK, FilesTypeOK, IDInv
  <2>3. cur.ref.state = "noindex" => removeBad
    BY <2>1, <2>2 DEF WebInv, NoneHidden, HalfPage
  <2>4. Superseded \subseteq Superseded'
    BY <2>1 DEF Superseded
  <2>5. cur.ref.state = "noindex" => cur.ref.id \in Superseded'
    <3>1. mark.mark = "!" /\ mark.id = cur.ref.id
      OBVIOUS
    <3> HIDE DEF mark
    <3> QED
      BY <2>1, <3>1 DEF Superseded
  <2>6. cur.ref.state # "noindex" => Superseded' = Superseded
    BY <2>1 DEF Superseded
  <2>7. line.id = cur.ref.id /\ ~line.text.link
    BY DEF PageText
  <2>8. mark.id = cur.ref.id
    OBVIOUS
  <2> HIDE DEF line, mark
  <2>9. AllFound(docdb', words', IF removeBad' THEN Superseded' ELSE {})
    <3> SUFFICES ASSUME NEW u \in URLs, docdb'[u] # NoDoc, docdb'[u].head
                 PROVE  \/ removeBad /\ docdb'[u].id \in Superseded'
                        \/ \E w \in OwnWords(words') : w.id = docdb'[u].id
      BY DEF AllFound
    <3>1. CASE u # cur.url
      <4>1. docdb'[u] = docdb[u]
        BY <2>2, <3>1
      <4>2. (removeBad /\ docdb[u].id \in Superseded)
            \/ \E w \in OwnWords(words) : w.id = docdb[u].id
        BY <4>1 DEF DigAgree, AllFound
      <4>3. OwnWords(words) \subseteq OwnWords(words')
        BY <2>1 DEF OwnWords
      <4> QED
        BY <2>4, <4>1, <4>2, <4>3
    <3>2. CASE u = cur.url
      BY <2>1, <2>2, <2>3, <2>5, <2>7, <3>2 DEF OwnWords
    <3> QED
      BY <3>1, <3>2
  <2>10. \A m \in marks' : m.id < NextFree'
    BY <2>1, <2>2, <2>8 DEF DigAgree
  <2>11. ASSUME ~removeBad, NEW v \in Stored' PROVE docdb'[v].id \notin Superseded'
    BY <2>1, <2>2, <2>3, <2>6, <2>11 DEF DigAgree, Stored
  <2> QED
    BY <2>1, <2>9, <2>10, <2>11 DEF DigAgree
<1>4. ASSUME UNCHANGED <<docdb, words, marks>>, NextFree' = NextFree,
             phase = "parse" => phase' = "parse",
             phase' = "parse" => phase = "parse" /\ cur' = cur
      PROVE  DigAgree'
  BY <1>4 DEF DigAgree, AllFound, Superseded, Stored
<1>5. CASE \E initial \in InitialFlags : Start(initial)
  <2>1. PICK initial \in InitialFlags : Start(initial)
    BY <1>5
  <2>2. CASE initial
    <3>1. docdb' = [u \in URLs |-> NoDoc] /\ marks' = {} /\ phase' = "log"
      BY <2>1, <2>2 DEF Start
    <3> QED
      BY <3>1 DEF DigAgree, AllFound, Stored
  <2>3. CASE ~initial
    BY <1>4, <2>1, <2>3 DEF Start, NextFree
  <2> QED
    BY <2>2, <2>3
<1>6. CASE Load
  BY <1>4, <1>6 DEF Load, InitialLog, InitialDb, InitialStart, Initial,
     LogRead, DbRead, Loaded, fileVars, NextFree
<1>7. CASE (\E s \in Servers : SkipServer(s)) \/ NewRound \/ Signal \/ Htdump
  BY <1>4, <1>7 DEF SkipServer, NewRound, Signal, Htdump, fileVars, memVars, NextFree
<1>8. CASE Finish \/ DumpLog
  BY <1>4, <1>8 DEF Finish, DumpLog, CloseDb, NextFree
<1>9. CASE World \/ UNCHANGED vars
  BY <1>4, <1>9 DEF World, Publish, Outage, vars, fileVars, memVars, NextFree
<1> QED
  BY <1>1, <1>2, <1>3, <1>5, <1>6, <1>7, <1>8, <1>9 DEF DigNext, Work

-----------------------------------------------------------------------------
(* ... and after the merges. *)

Lost == IF removeBad THEN Superseded \cup discard ELSE {}

JobInv ==
    /\ removeBad \in RemoveBadValues
    /\ mphase \in {"words", "unlinked", "linked"} => "words" \in job
    /\ "words" \in job \/ discard # {} => "docs" \in job
    /\ ~MergedWords => discard = {}

(* A document that has a text has words of its own in the list that the    *)
(* merge goes on with, or is to be dropped; convertDocs has dropped or     *)
(* listed what it has looked at. *)
AgreeInv ==
    /\ AllFound(docdb, Lines, Lost)
    /\ mphase = "down" => DigAgree
    /\ \A m \in marks : m.id < NextFree
    /\ mphase # "down" /\ ~removeBad =>
          \A u \in Stored : docdb[u].id \notin Superseded \cup discard
    /\ whole /\ MergedWords => wordDb = Lines /\ marks = {}
    /\ mphase = "docs" => \A u \in Stored \ left :
          ~Drops(u) /\ [id |-> docdb[u].id, url |-> u] \in docIndex
    /\ served => IndexesAgree

(* The options under which no document loses its words: the words are      *)
(* never merged alone, and the documents that are not to be indexed are    *)
(* dropped with those that were not found, or there are none. *)
Together == {"words"} \notin Jobs /\ (RemoveBadValues \subseteq {TRUE} \/ NoneHidden)

(* What is superseded is discarded, and without remove_bad_urls only that. *)
LEMMA DiscardedIs ==
    /\ Superseded \subseteq Discarded
    /\ ~removeBad => Discarded = Superseded
BY DEF Superseded, Discarded

(* A job is done as a whole, unless the files are not there. *)
LEMMA JobStep ==
    ASSUME MergeTypeOK, JobInv, MergeWork
    PROVE  JobInv'
<1>1. CASE BeginWords
  BY <1>1 DEF MergeWork, BeginWords, Exit, JobInv, MergedWords
<1>2. CASE MergeWords
  BY <1>2 DEF MergeWork, MergeWords, JobInv, MergedWords
<1>3. CASE LinkList \/ UnlinkNew
  BY <1>3 DEF MergeWork, LinkList, UnlinkNew, JobInv, MergedWords
<1>4. CASE BeginDocs \/ EndMerge
  BY <1>4 DEF MergeWork, BeginDocs, EndMerge, Exit, JobInv, MergedWords
<1>5. CASE \E u \in URLs : ConvertURL(u)
  BY <1>5 DEF MergeWork, ConvertURL, JobInv, MergedWords
<1> QED
  BY <1>1, <1>2, <1>3, <1>4, <1>5 DEF MergeWork

(* What has a text and is not discarded keeps its words in mergeWords.     *)
LEMMA MergeFound ==
    ASSUME removeBad \/ \A u \in Stored : docdb[u].id \notin Superseded,
           AllFound(docdb, words, IF removeBad THEN Superseded ELSE {})
    PROVE  AllFound(docdb, Kept, IF removeBad THEN Discarded ELSE {})
<1> SUFFICES ASSUME NEW u \in URLs, docdb[u] # NoDoc, docdb[u].head,
                    removeBad => docdb[u].id \notin Discarded
             PROVE  \E w \in OwnWords(Kept) : w.id = docdb[u].id
  BY DEF AllFound
<1>1. docdb[u].id \notin Discarded
  BY DiscardedIs DEF Stored
<1>2. PICK w \in OwnWords(words) : w.id = docdb[u].id
  BY <1>1, DiscardedIs DEF AllFound
<1> QED
  BY <1>1, <1>2 DEF Kept, OwnWords

(* convertDocs has looked at a document. *)
LEMMA ConvertAgrees ==
    ASSUME FilesTypeOK, MergeTypeOK, IndexInv, IDsAgree(docdb, words, nextOnDisk),
           NEW u \in URLs, ConvertURL(u),
           \A v \in Stored \ left : ~Drops(v) /\ [id |-> docdb[v].id, url |-> v] \in docIndex,
           removeBad' = removeBad
    PROVE  \A v \in Stored' \ left' :
               ~Drops(v)' /\ [id |-> docdb'[v].id, url |-> v] \in docIndex'
<1>1. /\ u \in left /\ left' = left \ {u} /\ left \subseteq Stored /\ discard' = discard
  BY DEF ConvertURL, IndexInv
<1>2. CASE Drops(u)
  <2>1. docdb' = [docdb EXCEPT ![u] = NoDoc] /\ docIndex' = docIndex
    BY <1>2 DEF ConvertURL
  <2>2. docdb'[u] = NoDoc /\ \A v \in URLs \ {u} : docdb'[v] = docdb[v]
    BY <2>1 DEF FilesTypeOK
  <2> SUFFICES ASSUME NEW v \in Stored' \ left'
               PROVE  ~Drops(v)' /\ [id |-> docdb'[v].id, url |-> v] \in docIndex'
    OBVIOUS
  <2>3. v \in Stored \ left /\ docdb'[v] = docdb[v]
    BY <1>1, <2>2 DEF Stored
  <2>4. ~Drops(v) /\ [id |-> docdb[v].id, url |-> v] \in docIndex
    BY <2>3
  <2> QED
    BY <1>1, <2>1, <2>3, <2>4 DEF Drops
<1>3. CASE ~Drops(u)
  <2>1. /\ docdb' = docdb
        /\ docIndex' = {e \in docIndex : e.id # docdb[u].id} \cup
                       {[id |-> docdb[u].id, url |-> u]}
    BY <1>3 DEF ConvertURL
  <2> SUFFICES ASSUME NEW v \in Stored \ left'
               PROVE  ~Drops(v) /\ [id |-> docdb[v].id, url |-> v] \in docIndex'
    BY <1>1, <2>1 DEF Drops, Stored
  <2>2. CASE v = u
    BY <1>3, <2>1, <2>2
  <2>3. CASE v # u
    <3>1. v \in Stored \ left /\ v \in URLs /\ docdb[v] # NoDoc /\ docdb[u] # NoDoc
      BY <1>1, <2>3 DEF Stored
    <3>2. docdb[v].id # docdb[u].id
      BY <2>3, <3>1 DEF IDsAgree
    <3>3. ~Drops(v) /\ [id |-> docdb[v].id, url |-> v] \in docIndex
      BY <3>1
    <3> QED
      BY <2>1, <3>2, <3>3
  <2> QED
    BY <2>2, <2>3
<1> QED
  BY <1>2, <1>3

(* At its end the index has the documents that are found. *)
LEMMA EndAgrees ==
    ASSUME MergeTypeOK, IndexInv, LiveInv, AgreeInv, removeBad \in BOOLEAN,
           whole, mphase = "docs", left = {}
    PROVE  {p.id : p \in OwnWords(wordDb)} = {e.id : e \in docIndex}
<1>1. /\ MergedWords /\ Lines = words /\ wordDb = words /\ marks = {} /\ Superseded = {}
  BY DEF MergedWords, Lines, AgreeInv, Superseded
<1>2. ASSUME NEW p \in OwnWords(words)
      PROVE  \E e \in docIndex : e.id = p.id
  <2>1. Live(p, docdb)
    BY <1>1 DEF LiveInv, AllLive
  <2>2. p.url \in Stored \ left
    BY <1>1, <2>1 DEF Live, Stored, OwnWords, MergeTypeOK, WordLine
  <2>3. [id |-> docdb[p.url].id, url |-> p.url] \in docIndex
    BY <2>2 DEF AgreeInv
  <2> QED
    BY <2>1, <2>3 DEF Live
<1>3. ASSUME NEW e \in docIndex
      PROVE  \E p \in OwnWords(words) : p.id = e.id
  <2>1. e.url \in Stored \ left /\ e.url \in URLs /\ docdb[e.url] # NoDoc
        /\ docdb[e.url].id = e.id
    BY DEF IndexInv, Leads, Stored, MergeTypeOK, IndexEntry
  <2>2. ~Drops(e.url)
    BY <2>1 DEF AgreeInv
  <2>3. docdb[e.url].head /\ e.id \notin Lost
    BY <1>1, <2>1, <2>2 DEF Drops, Lost
  <2> QED
    BY <1>1, <2>1, <2>3 DEF AgreeInv, AllFound
<1> QED
  BY <1>1, <1>2, <1>3

(* No step of a merge that is not killed separates words and documents.    *)
LEMMA MergeAgreeStep ==
    ASSUME FilesTypeOK, MergeTypeOK, IndexInv, RestInv, LiveInv, JobInv, AgreeInv,
           phase = "down", phase' = "down", MergeWork, whole' = whole,
           served' = (whole /\ mphase = "docs" /\ mphase' = "down")
    PROVE  AgreeInv'
<1>1. /\ removeBad' = removeBad /\ removeBad \in BOOLEAN /\ nextOnDisk' = nextOnDisk
      /\ NextFree' = NextFree
  BY MergeWorkDrops DEF MergeWork, MergeTypeOK, NextFree
<1>2. /\ mphase # "down"
      /\ ~removeBad => \A u \in Stored : docdb[u].id \notin Superseded \cup discard
  BY DEF MergeWork, BeginWords, MergeWords, LinkList, UnlinkNew, BeginDocs, ConvertURL,
     EndMerge, AgreeInv
<1>3. ASSUME AllFound(docdb', Lines', Lost'), marks' \subseteq marks,
             ~removeBad => \A u \in Stored' : docdb'[u].id \notin Superseded' \cup discard',
             whole /\ MergedWords' => wordDb' = Lines' /\ marks' = {},
             mphase' = "docs" => \A u \in Stored' \ left' :
                 ~Drops(u)' /\ [id |-> docdb'[u].id, url |-> u] \in docIndex',
             served' => IndexesAgree',
             mphase' = "down" => discard' = {}
      PROVE  AgreeInv'
  <2>1. \A m \in marks' : m.id < NextFree'
    BY <1>1, <1>3 DEF AgreeInv
  <2>2. mphase' = "down" => DigAgree'
    <3>1. mphase' = "down" => Lines' = words' /\ Lost' = IF removeBad' THEN Superseded' ELSE {}
      BY <1>3 DEF Lines, Lost
    <3> QED
      BY <1>1, <1>3, <2>1, <3>1 DEF DigAgree
  <2> QED
    BY <1>1, <1>3, <2>1, <2>2 DEF AgreeInv
<1>4. CASE BeginWords
  <2>1. /\ UNCHANGED <<docdb, words, marks>> /\ mphase' \in {"words", "down"}
        /\ Lines = words /\ Lines' = words /\ ~MergedWords' /\ ~MergedWords
        /\ discard' = {} /\ discard = {} /\ ~served'
    BY <1>4 DEF BeginWords, Exit, fileVars, Lines, MergedWords, JobInv
  <2>2. AllFound(docdb', Lines', Lost')
    BY <1>1, <2>1 DEF AgreeInv, AllFound, Lost, Superseded
  <2>3. ~removeBad => \A u \in Stored' : docdb'[u].id \notin Superseded' \cup discard'
    BY <1>2, <2>1 DEF Stored, Superseded
  <2> QED
    BY <1>3, <2>1, <2>2, <2>3
<1>5. CASE MergeWords
  <2>1. /\ docdb' = docdb /\ Lines = words /\ Lines' = Kept /\ wordDb' = Kept
        /\ discard' = Discarded /\ mphase = "words" /\ marks' = {} /\ mphase' = "unlinked"
        /\ ~MergedWords /\ discard = {} /\ ~served'
    BY <1>5 DEF MergeWords, Lines, MergedWords, JobInv
  <2>2. Superseded' = {}
    BY <2>1 DEF Superseded
  <2>3. AllFound(docdb, Kept, IF removeBad THEN Discarded ELSE {})
    BY <1>2, <2>1, MergeFound DEF AgreeInv, Lost
  <2>4. AllFound(docdb', Lines', Lost')
    BY <1>1, <2>1, <2>2, <2>3 DEF Lost
  <2>5. ~removeBad => \A u \in Stored' : docdb'[u].id \notin Superseded' \cup discard'
    BY <1>2, <2>1, <2>2, DiscardedIs DEF Stored
  <2> QED
    BY <1>3, <2>1, <2>4, <2>5
<1>6. CASE LinkList \/ UnlinkNew
  <2>1. /\ UNCHANGED <<docdb, marks, discard, wordDb>> /\ Lines' = Lines /\ MergedWords
        /\ mphase' \in {"linked", "begin"} /\ ~served'
    BY <1>6 DEF LinkList, UnlinkNew, fileVars, Lines, MergedWords, LiveInv
  <2>2. AllFound(docdb', Lines', Lost')
    BY <1>1, <2>1 DEF AgreeInv, AllFound, Lost, Superseded
  <2>3. ~removeBad => \A u \in Stored' : docdb'[u].id \notin Superseded' \cup discard'
    BY <1>2, <2>1 DEF Stored, Superseded
  <2>4. whole /\ MergedWords' => wordDb' = Lines' /\ marks' = {}
    BY <2>1 DEF AgreeInv
  <2> QED
    BY <1>3, <2>1, <2>2, <2>3, <2>4
<1>7. CASE BeginDocs
  <2>1. /\ UNCHANGED <<docdb, words, marks, wordDb>> /\ Lines' = words /\ Lines = words
        /\ MergedWords /\ ~served'
        /\ \/ mphase' = "down" /\ discard' = {} /\ Stored = {}
           \/ mphase' = "docs" /\ discard' = discard /\ left' = Stored
    BY <1>7 DEF BeginDocs, Exit, fileVars, Lines, MergedWords
  <2>2. Stored' = Stored
    BY <2>1 DEF Stored
  <2>3. AllFound(docdb', Lines', Lost')
    BY <1>1, <2>1 DEF AgreeInv, AllFound, Lost, Superseded, Stored
  <2>4. ~removeBad => \A u \in Stored' : docdb'[u].id \notin Superseded' \cup discard'
    BY <1>2, <2>1, <2>2 DEF Superseded
  <2>5. whole /\ MergedWords' => wordDb' = Lines' /\ marks' = {}
    BY <2>1 DEF AgreeInv
  <2> QED
    BY <1>3, <2>1, <2>2, <2>3, <2>4, <2>5
<1>8. CASE \E u \in URLs : ConvertURL(u)
  <2>1. PICK u \in URLs : ConvertURL(u)
    BY <1>8
  <2>2. /\ UNCHANGED <<words, marks, discard, wordDb, mphase>> /\ mphase = "docs"
        /\ Lines' = words /\ Lines = words /\ MergedWords /\ ~served'
    BY <2>1 DEF ConvertURL, Lines, MergedWords
  <2>3. \A v \in URLs : docdb'[v] \in {docdb[v], NoDoc}
    BY MergeWorkDrops
  <2>4. AllFound(docdb', Lines', Lost')
    BY <1>1, <2>2, <2>3 DEF AgreeInv, AllFound, Lost, Superseded
  <2>5. ~removeBad => \A v \in Stored' : docdb'[v].id \notin Superseded' \cup discard'
    BY <1>2, <2>2, <2>3 DEF Superseded, Stored
  <2>6. whole /\ MergedWords' => wordDb' = Lines' /\ marks' = {}
    BY <2>2 DEF AgreeInv
  <2>7. IDsAgree(docdb, words, nextOnDisk)
    <3>1. IDsAgree(disk, words, nextOnDisk) /\ \A v \in URLs : docdb[v] \in {disk[v], NoDoc}
          /\ words \in SUBSET words
      BY DEF RestInv, Fits
    <3> QED
      BY <3>1, AgreeLess
  <2>8. \A v \in Stored' \ left' :
            ~Drops(v)' /\ [id |-> docdb'[v].id, url |-> v] \in docIndex'
    <3>1. \A v \in Stored \ left :
              ~Drops(v) /\ [id |-> docdb[v].id, url |-> v] \in docIndex
      BY <2>2 DEF AgreeInv
    <3> QED
      BY <1>1, <2>1, <2>7, <3>1, ConvertAgrees
  <2> QED
    BY <1>3, <2>2, <2>4, <2>5, <2>6, <2>8
<1>9. CASE EndMerge
  <2>1. /\ UNCHANGED <<docdb, words, marks, wordDb, docIndex>> /\ Lines' = words
        /\ Lines = words /\ discard' = {} /\ mphase' = "down" /\ ~MergedWords'
        /\ \/ mphase = "docs" /\ left = {}
           \/ mphase = "begin" /\ job = {}
    BY <1>9 DEF EndMerge, Exit, fileVars, Lines, MergedWords
  <2>2. Superseded' = Superseded
    BY <2>1 DEF Superseded
  <2>3. AllFound(docdb', Lines', Lost')
    <3>1. CASE mphase = "begin" /\ job = {}
      <4>1. discard = {}
        BY <3>1 DEF JobInv
      <4>2. Lost' = Lost
        BY <1>1, <2>1, <2>2, <4>1 DEF Lost
      <4> QED
        BY <2>1, <4>2 DEF AgreeInv
    <3>2. CASE mphase = "docs" /\ left = {}
      <4>1. \A u \in Stored : removeBad => docdb[u].id \notin discard
        BY <3>2 DEF AgreeInv, Drops
      <4>2. Lost' = IF removeBad THEN Superseded ELSE {}
        BY <1>1, <2>1, <2>2 DEF Lost
      <4>3. AllFound(docdb, words, Lost)
        BY <2>1 DEF AgreeInv
      <4>4. AllFound(docdb, words, Lost')
        BY <4>1, <4>2, <4>3 DEF AllFound, Lost, Stored
      <4> QED
        BY <2>1, <4>4
    <3> QED
      BY <2>1, <3>1, <3>2
  <2>4. ~removeBad => \A u \in Stored' : docdb'[u].id \notin Superseded' \cup discard'
    BY <1>2, <2>1, <2>2 DEF Stored
  <2>5. served' => IndexesAgree'
    <3> SUFFICES ASSUME whole, mphase = "docs"
                 PROVE  {p.id : p \in OwnWords(wordDb')} = {e.id : e \in docIndex'}
      BY DEF IndexesAgree
    <3>1. {p.id : p \in OwnWords(wordDb)} = {e.id : e \in docIndex}
      BY <1>1, <2>1, EndAgrees
    <3> QED
      BY <2>1, <3>1
  <2> QED
    BY <1>3, <2>1, <2>3, <2>4, <2>5
<1> QED
  BY <1>4, <1>5, <1>6, <1>7, <1>8, <1>9 DEF MergeWork

FindInv == StaleInv /\ JobInv /\ AgreeInv

(* In the first state there are no documents, either. *)
LEMMA InitFind == PipelineInit => FindInv
<1> SUFFICES ASSUME PipelineInit PROVE FindInv
  OBVIOUS
<1>1. /\ removeBad \in RemoveBadValues /\ mphase = "down" /\ job = {} /\ discard = {}
      /\ marks = {} /\ whole = FALSE /\ served = FALSE /\ phase = "down"
      /\ Stored = {} /\ \A u \in URLs : docdb[u] = NoDoc
  BY DEF PipelineInit, DigInit, FilesInit, MergeInit, Stored
<1>2. JobInv
  BY <1>1 DEF JobInv, MergedWords
<1>3. AgreeInv
  BY <1>1 DEF AgreeInv, AllFound, DigAgree
<1> QED
  BY <1>2, <1>3, InitStale DEF FindInv

(* Neither program breaks the invariant. *)
LEMMA FindStep ==
    ASSUME FindInv, MaxCrashes = 0, MaxMergeCrashes = 0, Headed, Together,
           [PipelineNext]_pipeVars
    PROVE  FindInv'
<1>1. StaleInv'
  BY StaleStep DEF FindInv
<1>2. /\ DigTypeOK /\ FilesTypeOK /\ MergeTypeOK /\ IndexInv /\ IDInv /\ RestInv /\ WebInv
      /\ LiveInv /\ JobInv /\ AgreeInv /\ mergeCrashes \in Nat
  BY DEF FindInv, StaleInv, PipeInv, PipeTypes, PipelineTypeOK, DigTypeOK
<1>3. ~Crash /\ ~KillMerge
  BY <1>2 DEF Crash, DigTypeOK, KillMerge
<1>4. removeBad \in BOOLEAN /\ (removeBad \/ NoneHidden)
  BY <1>2, MergeAssumption DEF JobInv, Together, MergeTypeOK
<1>5. ASSUME UNCHANGED mergeVars PROVE JobInv'
  BY <1>2, <1>5 DEF mergeVars, JobInv, MergedWords
<1>6. CASE StartDig \/ DigStep
  <2>1. /\ DigNext /\ mphase = "down" /\ UNCHANGED mergeVars /\ whole' = whole
        /\ served' => served
    BY <1>6 DEF StartDig, DigStep, DigNext, runVars
  <2>2. DigAgree'
    BY <1>2, <1>3, <1>4, <2>1, DigAgreeStep DEF AgreeInv, mergeVars
  <2>3. /\ mphase' = "down" /\ Lines' = words' /\ ~MergedWords' /\ discard' = {}
    BY <1>2, <2>1 DEF mergeVars, Lines, MergedWords, JobInv
  <2>4. AllFound(docdb', Lines', Lost')
    BY <2>2, <2>3 DEF DigAgree, Lost
  <2>5. served' => IndexesAgree'
    BY <1>2, <2>1 DEF AgreeInv, IndexesAgree, mergeVars
  <2>6. AgreeInv'
    BY <2>2, <2>3, <2>4, <2>5 DEF AgreeInv, DigAgree
  <2> QED
    BY <1>1, <1>5, <2>1, <2>6 DEF FindInv
<1>7. CASE WorldStep \/ UNCHANGED pipeVars
  <2>1. /\ [DigNext]_vars /\ UNCHANGED mergeVars /\ UNCHANGED <<whole, served>>
        /\ UNCHANGED <<docdb, words, marks, phase, nextID, nextOnDisk, cur>>
    BY <1>7 DEF WorldStep, runVars, pipeVars, vars, fileVars, memVars, DigNext, World,
       Publish, Outage
  <2>2. NextFree' = NextFree /\ Stored' = Stored /\ Superseded' = Superseded
        /\ Lines' = Lines /\ Lost' = Lost
    BY <2>1 DEF NextFree, Stored, Superseded, Lines, Lost, mergeVars
  <2>3. mphase = "down" => DigAgree'
    BY <1>2, <2>1, <2>2 DEF AgreeInv, DigAgree, AllFound, mergeVars
  <2>4. AgreeInv'
    BY <1>2, <2>1, <2>2, <2>3 DEF AgreeInv, AllFound, mergeVars, MergedWords, Drops,
       IndexesAgree
  <2> QED
    BY <1>1, <1>5, <2>1, <2>4 DEF FindInv
<1>8. CASE BeginMerge
  <2>1. PICK j \in Jobs : StartMerge(j) /\ whole' = (j = {"words", "docs"})
    BY <1>8 DEF BeginMerge
  <2>2. /\ mphase = "down" /\ mphase' = "begin" /\ discard' = {} /\ UNCHANGED <<wordDb, removeBad>>
        /\ UNCHANGED <<docdb, words, marks, phase, nextOnDisk>> /\ job' = j
        /\ Lines = words /\ Lines' = words /\ served' = FALSE /\ phase = "down"
    BY <1>8, <2>1 DEF BeginMerge, StartMerge, fileVars, DigOnly, Lines
  <2>3. "words" \in j => "docs" \in j
    BY MergeAssumption DEF Together
  <2>4. JobInv'
    BY <1>2, <2>2, <2>3 DEF JobInv
  <2>5. ~(whole' /\ MergedWords')
    BY <2>1, <2>2 DEF MergedWords
  <2>6. discard = {} /\ Superseded' = Superseded /\ Stored' = Stored /\ Lost' = Lost
        /\ NextFree' = NextFree
    BY <1>2, <2>2 DEF JobInv, MergedWords, Superseded, Stored, Lost, NextFree
  <2>7. AgreeInv'
    BY <1>2, <2>2, <2>5, <2>6 DEF AgreeInv, DigAgree, AllFound
  <2> QED
    BY <1>1, <2>4, <2>7 DEF FindInv
<1>9. CASE MergeStep
  <2>1. /\ MergeWork /\ phase = "down" /\ phase' = "down" /\ whole' = whole
        /\ served' = (whole /\ mphase = "docs" /\ mphase' = "down")
    BY <1>2, <1>9 DEF MergeStep, MergeWork, BeginWords, MergeWords, LinkList,
       UnlinkNew, BeginDocs, ConvertURL, EndMerge, RestInv, DigOnly
  <2>2. JobInv' /\ AgreeInv'
    BY <1>2, <2>1, JobStep, MergeAgreeStep
  <2> QED
    BY <1>1, <2>2 DEF FindInv
<1> QED
  BY <1>3, <1>6, <1>7, <1>8, <1>9 DEF PipelineNext

(* So it always holds under these options. *)
LEMMA FindInductive ==
    ASSUME MaxCrashes = 0, MaxMergeCrashes = 0, Headed, Together
    PROVE  PipelineSpec => []FindInv
BY InitFind, FindStep, PTL DEF PipelineSpec

(* After every merge that served its databases, of any number of digs      *)
(* before it, the documents that words of their own lead to are those that *)
(* can be displayed: convertDocs drops a document if and only if           *)
(* mergeWords drops its words.  Where this fails one of the hypotheses     *)
(* does: a killed dig hands out IDs twice; a killed merge, or one of the   *)
(* words alone, forgets what it discarded; a page without a text is        *)
(* dropped and its words are not; and the record of a page with a noindex  *)
(* tag becomes a normal one when it is asked for again, which only         *)
(* remove_bad_urls makes up for. *)
THEOREM IndexesMatch ==
    ASSUME MaxCrashes = 0, MaxMergeCrashes = 0, Headed, Together
    PROVE  PipelineSpec => []IndexesAgree
<1>1. FindInv => IndexesAgree
  BY DEF FindInv, AgreeInv, IndexesAgree
<1> QED
  BY <1>1, FindInductive, PTL

-----------------------------------------------------------------------------
(* What asks not to be indexed is not found. *)

(* Words of a page's own are from a version of it that may be indexed,     *)
(* unless a signal cut the page. *)
OpenTexts(lines) ==
    \A w \in OwnWords(lines) :
        \/ w.url \in cut
        \/ \E p \in Contents(w.url) : ~p.noindex /\ w.text = PageText(w.url, p.ver)

OpenInv == OpenTexts(words) /\ OpenTexts(newList) /\ OpenTexts(wordDb)

(* A page that begins or ceases to ask not to be indexed has changed. *)
VersionsTell ==
    \A u \in URLs : \A p, q \in PagesOf(u) : p.ver = q.ver => p.noindex = q.noindex

(* htdig files the words of such a version only. *)
LEMMA DigOpen ==
    ASSUME DigTypeOK, WebInv, OpenTexts(words), [DigNext]_vars
    PROVE  OpenTexts(words)'
<1>a. cut \subseteq cut'
  BY CutGrows
<1>1. ASSUME OnlyLinks PROVE OpenTexts(words)'
  BY <1>a, <1>1 DEF OnlyLinks, OpenTexts, OwnWords, Contents, PagesOf
<1>2. CASE (\E s \in Servers : Retrieve(s)) \/ GotHref
  BY <1>1, <1>2, RetrieveVersions, GotHrefVersions
<1>3. CASE Parsed
  <2> DEFINE line == [id |-> cur.ref.id, url |-> cur.url,
                      text |-> PageText(cur.url, cur.page.ver)]
  <2>1. /\ phase = "parse"
        /\ words' = words \/ (cur.ref.state # "noindex" /\ words' = words \cup {line})
    BY <1>3 DEF Parsed, AppendMarks, AppendWords
  <2>2. line.url = cur.url /\ line.text = PageText(cur.url, cur.page.ver)
    OBVIOUS
  <2>3. /\ cur.page \in Contents(cur.url) \/ cur.url \in cut
        /\ cur.ref.state # "noindex" => ~cur.page.noindex
    BY <2>1 DEF WebInv, HalfPage
  <2> HIDE DEF line
  <2> QED
    BY <1>a, <2>1, <2>2, <2>3 DEF OpenTexts, OwnWords, Contents, PagesOf
<1>4. CASE words' = words
  BY <1>a, <1>4 DEF OpenTexts, Contents, PagesOf
<1>5. CASE \E initial \in InitialFlags : Start(initial)
  <2>1. words' = {} \/ words' = words
    BY <1>5 DEF Start
  <2> QED
    BY <1>4, <2>1 DEF OpenTexts, OwnWords
<1>6. CASE Load
  BY <1>4, <1>6 DEF Load, InitialLog, InitialDb, InitialStart, Initial,
     LogRead, DbRead, Loaded, fileVars
<1>7. CASE (\E s \in Servers : SkipServer(s)) \/ NewRound \/ Signal \/ Htdump \/ Crash
  BY <1>4, <1>7 DEF SkipServer, NewRound, Signal, Htdump, Crash, fileVars
<1>8. CASE Finish \/ DumpLog
  BY <1>4, <1>8 DEF Finish, DumpLog, CloseDb
<1>9. CASE World \/ UNCHANGED vars
  BY <1>4, <1>9 DEF World, Publish, Outage, vars, fileVars
<1> QED
  BY <1>2, <1>3, <1>5, <1>6, <1>7, <1>8, <1>9 DEF DigNext, Work

(* htmerge files no others. *)
LEMMA OpenStep ==
    ASSUME DigTypeOK, WebInv, OpenInv, [PipelineNext]_pipeVars
    PROVE  OpenInv'
<1>1. CASE StartDig \/ DigStep \/ WorldStep \/ UNCHANGED pipeVars
  <2>1. [DigNext]_vars /\ UNCHANGED mergeVars
    BY <1>1 DEF StartDig, DigStep, WorldStep, DigNext, pipeVars
  <2> QED
    BY <2>1, DigOpen, CutGrows DEF OpenInv, OpenTexts, mergeVars, Contents, PagesOf
<1>2. CASE BeginMerge
  BY <1>2 DEF BeginMerge, StartMerge, fileVars, DigOnly, histVars, OpenInv, OpenTexts,
     Contents, PagesOf
<1>3. CASE MergeStep \/ KillMerge
  <2>1. /\ words' \subseteq words \cup newList /\ newList' \subseteq words \cup newList
        /\ wordDb' \subseteq words \cup wordDb /\ cut' = cut
    BY <1>3, MergeWorkDrops DEF MergeStep, KillMerge, MergeWork, BeginWords, MergeWords,
       LinkList, UnlinkNew, BeginDocs, ConvertURL, EndMerge, MergeCrash, fileVars, DigOnly, histVars,
       Kept
  <2>2. ASSUME NEW lines, NEW other, OpenTexts(lines), OpenTexts(other),
               NEW some \in SUBSET (lines \cup other)
        PROVE  OpenTexts(some)
    BY <2>2 DEF OpenTexts, OwnWords
  <2>3. ASSUME NEW lines, OpenTexts(lines) PROVE OpenTexts(lines)'
    BY <2>1, <2>3 DEF OpenTexts
  <2> QED
    BY <2>1, <2>2, <2>3 DEF OpenInv
<1> QED
  BY <1>1, <1>2, <1>3 DEF PipelineNext

(* So such words are the only ones. *)
LEMMA OpenInductive ==
    ASSUME MaxCrashes = 0, Headed
    PROVE  PipelineSpec => []OpenInv
<1>1. PipelineInit => OpenInv
  BY DEF PipelineInit, DigInit, FilesInit, MergeInit, OpenInv, OpenTexts, OwnWords
<1>2. StaleInv /\ OpenInv /\ [PipelineNext]_pipeVars => OpenInv'
  BY OpenStep DEF StaleInv, PipeInv, PipeTypes, PipelineTypeOK
<1> QED
  BY <1>1, <1>2, StaleInductive, PTL DEF PipelineSpec

(* Then no page that asks not to be indexed is listed in the index with    *)
(* the version that asks it, however many digs asked for it since and were *)
(* told that it has not changed, before the merge or after it (parse_url,  *)
(* mergeWords, convertDocs): if remove_bad_urls is on wherever a page asks *)
(* it, every merge that does the words does the documents, and no signal   *)
(* cut the page. *)
THEOREM HiddenUnlisted ==
    ASSUME MaxCrashes = 0, MaxMergeCrashes = 0, Headed, Together, VersionsTell
    PROVE  PipelineSpec => []NoindexUnlisted
<1>1. ASSUME FindInv, OpenInv
      PROVE  NoindexUnlisted
  <2> SUFFICES ASSUME served, NEW e \in docIndex, web[e.url].noindex, e.url \notin cut,
                      docdb[e.url].time = web[e.url].ver
               PROVE  FALSE
    BY DEF NoindexUnlisted
  <2>1. /\ e.url \in URLs /\ web[e.url] \in PagesOf(e.url)
        /\ Leads(docIndex) /\ Sound(docdb, wordDb) /\ IndexesAgree
    BY <1>1 DEF FindInv, StaleInv, PipeInv, FoundInv, WebInv, AgreeInv, PipeTypes,
       PipelineTypeOK, MergeTypeOK, IndexEntry
  <2>2. docdb[e.url] # NoDoc /\ docdb[e.url].id = e.id
    BY <2>1 DEF Leads
  <2>3. PICK w \in OwnWords(wordDb) : w.id = e.id
    BY <2>1 DEF IndexesAgree
  <2>4. w.url = e.url /\ w.text = PageText(e.url, docdb[e.url].time)
    BY <2>1, <2>2, <2>3 DEF Sound, OwnWords
  <2>5. PICK p \in Contents(e.url) : ~p.noindex /\ w.text = PageText(e.url, p.ver)
    BY <1>1, <2>4 DEF OpenInv, OpenTexts
  <2>6. p.ver = web[e.url].ver
    BY <2>4, <2>5 DEF PageText
  <2> QED
    BY <2>1, <2>5, <2>6 DEF VersionsTell, Contents
<1> QED
  BY <1>1, FindInductive, OpenInductive, PTL

-----------------------------------------------------------------------------
(* What was retrieved is in the index. *)

(* When every merge does the words, and one dig at most comes before each, *)
(* a dig begins with a list without markers. *)
MarkInv ==
    /\ ~listed => marks = {}
    /\ mphase \in {"words", "unlinked", "linked"} => "words" \in job
    /\ mphase \in {"unlinked", "linked", "docs"} => marks = {}
    /\ mphase = "begin" /\ "words" \notin job => marks = {}
    /\ mphase # "down" => digs = 0
    /\ mphase = "down" => discard = {}
    /\ mphase = "down" /\ phase = "down" /\ digs = 0 => marks = {}
    /\ phase # "down" => digs > 0
    /\ phase \in {"log", "db", "start"} => marks = {}
    /\ \A m \in marks : m.id < NextFree

(* Nothing waits twice, and what waits was noted as visited. *)
OrderInv ==
    /\ Orderly(queue)
    /\ Queued \subseteq visited
    /\ \A u \in visited : ServerOf[u] \in known
    /\ phase = "down" => visited = {}
    /\ phase = "db" /\ ~restart => todo \cap visited = {}

(* What this run has done with, or has given up. *)
Passed == visited \ Queued

(* So the documents that a marker gives up will not be asked for again in  *)
(* this run. *)
OnceInv ==
    /\ phase \in {"dig", "parse"} =>
          \A u \in Stored : docdb[u].id \in Discarded => u \in Passed
    /\ phase = "parse" => cur.url \in Passed /\ cur.ref.id \notin Discarded

(* A page that always has a text has one in the record of any version.     *)
HeadInv == \A u \in Indexable \cap Stored : docdb[u].time # 0 => docdb[u].head

Answered == {u \in Indexable \cap fetched : last[u] \in {"ok", "not_changed"}}

(* What convertDocs lists. *)
Stays(u) ==
    /\ docdb[u] # NoDoc /\ docdb[u].head /\ docdb[u].state # "noindex"
    /\ docdb[u].id \notin Discarded \cup discard

AllStay == \A u \in Answered : (phase = "parse" /\ u = cur.url) \/ Stays(u)

ListedInv ==
    mphase = "docs" => \A u \in Stored \ left :
        ~Drops(u) /\ [id |-> docdb[u].id, url |-> u] \in docIndex

(* What a retrieval stores of the URL, and what it gives up. *)
LEMMA RetrieveTakes ==
    ASSUME DigTypeOK, removeBad' = removeBad, NEW s \in Servers, Retrieve(s),
           NEW u, u = Head(queue[s]).url
    PROVE  \E p \in Heard(s) :
           /\ u \in URLs /\ phase = "dig" /\ phase' \in {"dig", "parse"}
           /\ \/ p = WholeAnswer(u) /\ last' = [last EXCEPT ![u] = Status(u, p)]
              \/ last' = [last EXCEPT ![u] = "cut"]
           /\ fetched' = fetched \cup {u}
           /\ \A i \in Discarded' \ Discarded : docdb'[u] # NoDoc /\ i = docdb'[u].id
           /\ (phase' = "parse") <=> (Status(u, p) = "ok")
           /\ phase' = "parse" => cur'.url = u /\ (Old(u) \/ Discarded' = Discarded)
           /\ Status(u, p) = "not_changed" =>
                 /\ docdb[u] # NoDoc /\ docdb[u].time = p.ver
                 /\ docdb'[u] # NoDoc /\ SameVersion(docdb'[u], docdb[u])
                 /\ docdb'[u].state = "normal"
                 /\ Discarded' = Discarded
<1> DEFINE r == Head(queue[s])
           reg == Registered(r)
<1>0. PICK p \in Heard(s) :
        \/ RetrieveGone(s, p) \/ RetrieveUnchanged(s, p) \/ RetrieveUnauthorized(s, p)
        \/ RetrieveRedirect(s, p) \/ RetrievePage(s, p)
  BY DEF Retrieve
<1>a. p \in Answer
  BY <1>0, HeardType
<1> SUFFICES
           /\ u \in URLs /\ phase = "dig" /\ phase' \in {"dig", "parse"}
           /\ \/ p = WholeAnswer(u) /\ last' = [last EXCEPT ![u] = Status(u, p)]
              \/ last' = [last EXCEPT ![u] = "cut"]
           /\ fetched' = fetched \cup {u}
           /\ \A i \in Discarded' \ Discarded : docdb'[u] # NoDoc /\ i = docdb'[u].id
           /\ (phase' = "parse") <=> (Status(u, p) = "ok")
           /\ phase' = "parse" => cur'.url = u /\ (Old(u) \/ Discarded' = Discarded)
           /\ Status(u, p) = "not_changed" =>
                 /\ docdb[u] # NoDoc /\ docdb[u].time = p.ver
                 /\ docdb'[u] # NoDoc /\ SameVersion(docdb'[u], docdb[u])
                 /\ docdb'[u].state = "normal"
                 /\ Discarded' = Discarded
  OBVIOUS
<1>1. Take(s, p) /\ phase = "dig" /\ queue[s] # <<>>
  BY <1>0 DEF RetrieveGone, RetrieveUnchanged, RetrieveUnauthorized,
              RetrieveRedirect, RetrievePage, Take, IsNext
<1>2. /\ r \in URLRef /\ u = r.url /\ u \in URLs /\ reg \in Doc /\ reg # NoDoc
      /\ docdb \in [URLs -> Doc \cup {NoDoc}]
  BY <1>1, TakenType, RegisteredType, DigAssumption DEF DigTypeOK, FilesTypeOK
<1>3. /\ \/ p = WholeAnswer(u) /\ last' = [last EXCEPT ![u] = Status(u, p)]
         \/ last' = [last EXCEPT ![u] = "cut"]
      /\ fetched' = fetched \cup {u}
  BY <1>1 DEF Take, Hear
<1>4. reg.state = "normal" /\ (docdb[u] # NoDoc => SameVersion(reg, docdb[u]))
  BY <1>2, RegisteredVersion
<1>5. ASSUME NEW k \in {"+", "-", "!"}, marks' = marks \cup {[mark |-> k, id |-> reg.id]}
      PROVE  /\ \A i \in Discarded' \ Discarded : i = reg.id
             /\ k = "+" => Discarded' = Discarded
  BY <1>5 DEF Discarded
<1>6. marks' = marks => Discarded' = Discarded
  BY DEF Discarded
<1>7. CASE RetrieveGone(s, p)
  <2> DEFINE state == IF Status(u, p) = "not_html" THEN "normal" ELSE "not_found"
             ref == [reg EXCEPT !.state = state]
  <2>1. /\ docdb' = [docdb EXCEPT ![u] = ref] /\ phase' = phase
        /\ marks' = marks \cup {[mark |-> "-", id |-> reg.id]}
        /\ Status(u, p) \in {"not_found", "no_server", "not_html"}
    BY <1>7 DEF RetrieveGone, AppendMarks
  <2>2. ref \in Doc /\ ref.id = reg.id
    BY <1>2 DEF Doc, States
  <2> HIDE DEF ref, reg, r
  <2>3. docdb'[u] = ref /\ ref # NoDoc
    BY <1>2, <2>1, <2>2, DigAssumption
  <2> QED
    BY <1>1, <1>2, <1>3, <1>5, <2>1, <2>2, <2>3
<1>8. CASE RetrieveUnchanged(s, p)
  <2>1. /\ docdb' = [docdb EXCEPT ![u] = reg] /\ phase' = phase
        /\ marks' = marks \cup {[mark |-> "+", id |-> reg.id]}
        /\ Status(u, p) = "not_changed"
    BY <1>8 DEF RetrieveUnchanged, AppendMarks
  <2>2. docdb[u] # NoDoc /\ docdb[u].time = p.ver
    <3>1. p.status \in Statuses \cup {"no_server"}
      BY <1>a DEF Answer
    <3> QED
      BY <2>1, <3>1 DEF Status, Old, Statuses
  <2> HIDE DEF reg, r
  <2>3. docdb'[u] = reg
    BY <1>2, <2>1
  <2> QED
    BY <1>1, <1>2, <1>3, <1>4, <1>5, <2>1, <2>2, <2>3
<1>9. CASE RetrieveUnauthorized(s, p)
  <2>1. marks' = marks /\ phase' = phase /\ Status(u, p) = "not_authorized"
    BY <1>9 DEF RetrieveUnauthorized, KeepList
  <2> QED
    BY <1>1, <1>2, <1>3, <1>6, <2>1
<1>10. CASE RetrieveRedirect(s, p)
  <2> DEFINE v == p.links[1]
             target == Linked(v, reg.hop, AfterRegister(r), reg.descriptions)
  <2>1. /\ marks' = marks \cup {[mark |-> "-", id |-> reg.id]} /\ phase' = phase
        /\ Status(u, p) = "redirect"
        /\ \/ docdb' = [docdb EXCEPT ![v] = target, ![u] = reg]
           \/ docdb' = [docdb EXCEPT ![u] = reg]
    BY <1>10 DEF RetrieveRedirect, AppendMarks, AppendLines
  <2> HIDE DEF v, target, reg, r
  <2>2. docdb'[u] = reg
    BY <1>2, <2>1
  <2> QED
    BY <1>1, <1>2, <1>3, <1>5, <2>1, <2>2
<1>11. CASE RetrievePage(s, p)
  <2>1. /\ docdb' = docdb /\ phase' = "parse" /\ cur'.url = u /\ Status(u, p) = "ok"
        /\ \/ Old(u) /\ marks' = marks \cup {[mark |-> "!", id |-> reg.id]}
           \/ marks' = marks
    BY <1>11 DEF RetrievePage, AppendMarks, KeepList
  <2>2. Old(u) => docdb[u] # NoDoc /\ reg.id = docdb[u].id
    BY <1>4 DEF Old, SameVersion
  <2> HIDE DEF reg, r
  <2> QED
    BY <1>1, <1>2, <1>3, <1>5, <1>6, <2>1, <2>2
<1> QED
  BY <1>0, <1>7, <1>8, <1>9, <1>10, <1>11

(* A retrieval takes its URL from the queues; it will not come back.       *)
LEMMA RetrievePasses ==
    ASSUME DigTypeOK, OrderInv, NEW s \in Servers, Retrieve(s),
           NEW u, u = Head(queue[s]).url
    PROVE  OrderInv' /\ u \in Queued /\ Passed \cup {u} \subseteq Passed'
<1>0. PICK p \in Heard(s) :
        \/ RetrieveGone(s, p) \/ RetrieveUnchanged(s, p) \/ RetrieveUnauthorized(s, p)
        \/ RetrieveRedirect(s, p) \/ RetrievePage(s, p)
  BY DEF Retrieve
<1>1. queue[s] # <<>> /\ phase = "dig" /\ u \in URLs
  BY <1>0, TakenType, HeardType, RetrievePhase
<1>2. queue \in [Servers -> Seq(URLRef)] /\ Orderly(queue)
  BY DEF DigTypeOK, OrderInv
<1>3. /\ Orderly(Popped(s)) /\ InQueues(Popped(s)) = Queued \ {u}
      /\ u \in Queued
  BY <1>1, <1>2, PopQueues, QueuedIs DEF Popped
<1>4. phase' \in {"dig", "parse"}
  BY RetrievePhase
<1>5. CASE queue' = Popped(s) /\ UNCHANGED <<visited, known>>
  <2>1. Queued' = Queued \ {u}
    BY <1>3, <1>5, QueuedIs
  <2> QED
    BY <1>3, <1>4, <1>5, <2>1 DEF OrderInv, Passed
<1>6. CASE \E v \in URLs \ visited, h \in Nat : Push(Popped(s), v, h) /\ \E i \in BOOLEAN : Connect(ServerOf[v], i)
  <2>1. PICK v \in URLs \ visited, h \in Nat :
                 Push(Popped(s), v, h) /\ \E i \in BOOLEAN : Connect(ServerOf[v], i)
    BY <1>6
  <2>2. Popped(s) \in [Servers -> Seq(URLRef)] /\ v \notin InQueues(Popped(s))
    BY <1>1, <1>3, <2>1, TakenType DEF OrderInv
  <2>3. /\ Orderly(queue') /\ visited' = visited \cup {v}
        /\ Queued' = (Queued \ {u}) \cup {v} \/ Queued' = Queued \ {u}
    BY <1>3, <2>1, <2>2, PushQueues
  <2>4. known' = known \cup {ServerOf[v]}
    BY <2>1 DEF Connect
  <2> QED
    BY <1>3, <1>4, <2>1, <2>3, <2>4 DEF OrderInv, Passed
<1>7. CASE RetrieveRedirect(s, p)
  <2> DEFINE r == Head(queue[s])
             v == p.links[1]
             h == Linked(v, Registered(r).hop, AfterRegister(r), Registered(r).descriptions).hop
  <2>1. CASE v \in Limits /\ v \notin visited
    <3>1. /\ \E i \in BOOLEAN : Connect(ServerOf[v], i)
          /\ Push(Popped(s), v, h) /\ v \in URLs
      <4>1. noSignal' \in BOOLEAN
        BY <1>7 DEF RetrieveRedirect, Take, Hear
      <4> QED
        BY <1>7, <2>1, <4>1, DigAssumption DEF RetrieveRedirect
    <3>2. h \in Nat
      <4>1. r \in URLRef
        BY <1>1, TakenType
      <4>2. /\ Registered(r).hop \in Nat /\ AfterRegister(r) \in Nat
            /\ Registered(r).descriptions \in SUBSET LinkTexts
        BY <4>1, RegisteredType
      <4> HIDE DEF v, r
      <4> QED
        BY <3>1, <4>2, LinkedType
    <3> HIDE DEF v, h
    <3> QED
      BY <1>6, <2>1, <3>1, <3>2
  <2>2. CASE ~(v \in Limits /\ v \notin visited)
    BY <1>5, <1>7, <2>2 DEF RetrieveRedirect
  <2> QED
    BY <2>1, <2>2
<1>8. CASE ~RetrieveRedirect(s, p)
  BY <1>0, <1>5, <1>8 DEF RetrieveGone, RetrieveUnchanged, RetrieveUnauthorized,
                    RetrievePage
<1> QED
  BY <1>7, <1>8

(* Following a link lets nothing come back. *)
LEMMA GotHrefPasses ==
    ASSUME DigTypeOK, OrderInv, GotHref
    PROVE  OrderInv' /\ Passed \subseteq Passed'
<1> DEFINE v == Head(cur.left)
           h == cur.ref.hop + 1
           hop == Linked(v, h, nextID, {LinkText(cur.url, cur.page.ver)}).hop
<1>1. phase = "parse" /\ phase' = phase
  BY DEF GotHref
<1>2. CASE Follows(v, h) /\ v \notin visited
  <2>1. (\E i \in BOOLEAN : Connect(ServerOf[v], i)) /\ Push(queue, v, hop)
    BY <1>2 DEF GotHref, DigTypeOK
  <2>2. cur \in Cur /\ cur.left # <<>>
    BY <1>1 DEF GotHref, DigTypeOK
  <2>3. v \in URLs /\ h \in Nat /\ nextID \in Nat
    BY <1>2, <2>2, DigAssumption DEF Cur, Doc, DigTypeOK, Follows
  <2>4. {LinkText(cur.url, cur.page.ver)} \in SUBSET LinkTexts
    BY <2>2, LinkTextType DEF Cur, Answer
  <2>5. hop \in Nat
    <3> HIDE DEF v, h
    <3> QED
      BY <2>3, <2>4, LinkedType
  <2>6. /\ queue \in [Servers -> Seq(URLRef)] /\ Orderly(queue)
        /\ v \notin InQueues(queue)
    BY <1>2, QueuedIs DEF DigTypeOK, OrderInv
  <2>7. known' = known \cup {ServerOf[v]}
    BY <2>1 DEF Connect
  <2> HIDE DEF v, h, hop
  <2>8. /\ Orderly(queue') /\ visited' = visited \cup {v}
        /\ Queued' = Queued \cup {v} \/ Queued' = Queued
    BY <2>1, <2>3, <2>5, <2>6, PushQueues, QueuedIs
  <2> QED
    BY <1>1, <1>2, <2>3, <2>7, <2>8 DEF OrderInv, Passed
<1>3. CASE ~(Follows(v, h) /\ v \notin visited)
  <2>1. UNCHANGED <<queue, visited, known>>
    BY <1>3 DEF GotHref
  <2> QED
    BY <1>1, <2>1, QueuedIs DEF OrderInv, Passed
<1> QED
  BY <1>2, <1>3

(* Nor does loading let anything wait twice. *)
LEMMA InitialOrder ==
    ASSUME DigTypeOK, OrderInv, phase' = phase, restart' = restart, phase # "down",
           NEW u \in URLs, NEW skip \in BOOLEAN, NEW pushes \in BOOLEAN,
           Initial(u, skip, pushes), skip \/ u \notin visited \/ ~pushes
    PROVE  OrderInv'
<1>1. todo' = todo \ {u}
  BY DEF Initial
<1>2. CASE ServerOf[u] \in known /\ skip /\ u \in visited
  <2>1. UNCHANGED <<queue, visited, known>>
    BY <1>2 DEF Initial
  <2> QED
    BY <1>1, <2>1, QueuedIs DEF OrderInv
<1>3. CASE ~(ServerOf[u] \in known /\ skip /\ u \in visited)
  <2>1. known' = known \cup {ServerOf[u]}
    BY <1>3 DEF Initial, Connect
  <2>2. CASE pushes
    <3>1. u \notin visited /\ u \notin InQueues(queue)
      BY <1>3, <2>2, QueuedIs DEF OrderInv
    <3>2. Push(queue, u, 0)
      BY <1>3, <2>2 DEF Initial
    <3>3. queue \in [Servers -> Seq(URLRef)] /\ Orderly(queue)
      BY DEF DigTypeOK, OrderInv
    <3>4. /\ Orderly(queue') /\ visited' = visited \cup {u}
          /\ Queued' = Queued \cup {u} \/ Queued' = Queued
      BY <3>1, <3>2, <3>3, PushQueues, QueuedIs
    <3> QED
      BY <1>1, <2>1, <3>4 DEF OrderInv
  <2>3. CASE ~pushes
    <3>1. queue' = queue /\ visited' = visited \cup {u}
      BY <1>3, <2>3 DEF Initial
    <3> QED
      BY <1>1, <2>1, <3>1, QueuedIs DEF OrderInv
  <2> QED
    BY <2>2, <2>3
<1> QED
  BY <1>2, <1>3

(* So it is in every step of htdig. *)
LEMMA OrderStep ==
    ASSUME DigTypeOK, OrderInv, [DigNext]_vars
    PROVE  OrderInv'
<1>1. CASE \E s \in Servers : Retrieve(s)
  BY <1>1, RetrievePasses
<1>2. CASE GotHref
  BY <1>2, GotHrefPasses
<1>3. CASE \E u \in URLs : InitialLog(u) \/ InitialDb(u) \/ InitialStart(u)
  <2>1. PICK u \in URLs : InitialLog(u) \/ InitialDb(u) \/ InitialStart(u)
    BY <1>3
  <2>2. phase' = phase /\ restart' = restart /\ phase # "down" /\ restart \in BOOLEAN
    BY <2>1 DEF InitialLog, InitialDb, InitialStart, Initial, DigTypeOK
  <2>3. PICK skip \in BOOLEAN, pushes \in BOOLEAN :
              Initial(u, skip, pushes) /\ (skip \/ u \notin visited \/ ~pushes)
    <3>1. CASE InitialLog(u) \/ InitialStart(u)
      BY <3>1 DEF InitialLog, InitialStart
    <3>2. CASE InitialDb(u)
      <4>1. Initial(u, restart, ~restart) /\ phase = "db" /\ u \in todo
        BY <3>2 DEF InitialDb, Initial
      <4> QED
        BY <2>2, <4>1 DEF OrderInv
    <3> QED
      BY <2>1, <3>1, <3>2
  <2> QED
    BY <2>2, <2>3, InitialOrder
<1>4. CASE LogRead
  BY <1>4, QueuedIs DEF LogRead, OrderInv, DigTypeOK
<1>5. ASSUME UNCHANGED <<queue, visited, known>>, phase' # "db", phase' # "down" \/ phase = "down"
      PROVE  OrderInv'
  BY <1>5, QueuedIs DEF OrderInv
<1>6. ASSUME UNCHANGED <<queue, visited, known, phase, restart, todo>>
      PROVE  OrderInv'
  BY <1>6, QueuedIs DEF OrderInv
<1>7. CASE DbRead \/ Loaded \/ \E initial \in InitialFlags : Start(initial)
  BY <1>5, <1>7 DEF DbRead, Loaded, Start
<1>8. CASE Parsed
  BY <1>5, <1>8 DEF Parsed
<1>9. CASE (\E s \in Servers : SkipServer(s)) \/ NewRound \/ Signal \/ World \/ UNCHANGED vars
  BY <1>6, <1>9 DEF SkipServer, NewRound, Signal, World, Publish, Outage, vars, memVars
<1>10. CASE Htdump
  BY <1>6, <1>10 DEF Htdump, memVars
<1>11. CASE Finish \/ DumpLog \/ Crash
  <2>1. /\ visited' = {} /\ queue' = [s \in Servers |-> <<>>] /\ phase' = "down"
    BY <1>11 DEF Finish, DumpLog, CloseDb, Crash, ClearMemory
  <2>2. Queued' = {} /\ Orderly(queue')
    BY <2>1 DEF Queued, Orderly
  <2> QED
    BY <2>1, <2>2 DEF OrderInv
<1> QED
  BY <1>1, <1>2, <1>3, <1>4, <1>7, <1>8, <1>9, <1>10, <1>11 DEF DigNext, Work, Load

(* A version that has a text keeps it. *)
LEMMA HeadOn ==
    ASSUME HeadInv, KeepsVersions
    PROVE  HeadInv'
BY DEF HeadInv, KeepsVersions, SameVersion, Stored, Indexable

(* A retrieval gives up the document it asked for, and no other.           *)
LEMMA RetrieveKeeps ==
    ASSUME DigTypeOK, IDInv, IDInv', OrderInv, OnceInv, HeadInv, AllStay,
           \A m \in marks : m.id < NextFree,
           removeBad' = removeBad, discard' = {}, NEW s \in Servers, Retrieve(s)
    PROVE  /\ OnceInv' /\ HeadInv' /\ AllStay'
           /\ \A m \in marks' : m.id < NextFree'
<1> SUFFICES ASSUME NEW u, u = Head(queue[s]).url
             PROVE  /\ OnceInv' /\ HeadInv' /\ AllStay'
                    /\ \A m \in marks' : m.id < NextFree'
  OBVIOUS
<1>1. KeepsVersions /\ HeadInv'
  BY RetrieveVersions, HeadOn
<1>0. PICK p \in Heard(s) :
           /\ u \in URLs /\ phase = "dig" /\ phase' \in {"dig", "parse"}
           /\ \/ p = WholeAnswer(u) /\ last' = [last EXCEPT ![u] = Status(u, p)]
              \/ last' = [last EXCEPT ![u] = "cut"]
           /\ fetched' = fetched \cup {u}
           /\ \A i \in Discarded' \ Discarded : docdb'[u] # NoDoc /\ i = docdb'[u].id
           /\ (phase' = "parse") <=> (Status(u, p) = "ok")
           /\ phase' = "parse" => cur'.url = u /\ (Old(u) \/ Discarded' = Discarded)
           /\ Status(u, p) = "not_changed" =>
                 /\ docdb[u] # NoDoc /\ docdb[u].time = p.ver
                 /\ docdb'[u] # NoDoc /\ SameVersion(docdb'[u], docdb[u])
                 /\ docdb'[u].state = "normal"
                 /\ Discarded' = Discarded
  BY RetrieveTakes
<1>2. /\ u \in URLs /\ phase = "dig" /\ phase' \in {"dig", "parse"}
      /\ \/ p = WholeAnswer(u) /\ last' = [last EXCEPT ![u] = Status(u, p)]
         \/ last' = [last EXCEPT ![u] = "cut"]
      /\ fetched' = fetched \cup {u}
      /\ \A i \in Discarded' \ Discarded : docdb'[u] # NoDoc /\ i = docdb'[u].id
      /\ (phase' = "parse") <=> (Status(u, p) = "ok")
      /\ phase' = "parse" => cur'.url = u /\ (Old(u) \/ Discarded' = Discarded)
  BY <1>0
<1>3. Status(u, p) = "not_changed" =>
          /\ docdb[u] # NoDoc /\ docdb[u].time = p.ver
          /\ docdb'[u] # NoDoc /\ SameVersion(docdb'[u], docdb[u])
          /\ docdb'[u].state = "normal"
          /\ Discarded' = Discarded
  BY <1>0
<1>4. u \in Queued /\ Passed \cup {u} \subseteq Passed' /\ u \notin Passed
  BY RetrievePasses DEF Passed
<1>5. /\ NextFree = nextID /\ NextFree' = nextID' /\ nextID \in Nat
      /\ IDsAgree(docdb, words, nextID) /\ IDsAgree(docdb', words', nextID')
  BY <1>2 DEF NextFree, IDInv, DigTypeOK
<1>6. /\ marks \subseteq marks' /\ nextID' >= nextID /\ nextID' \in Nat
      /\ \A m \in marks' : m \in marks \/ m.id < nextID'
      /\ phase' = "parse" =>
            /\ UNCHANGED docdb
            /\ \/ cur'.ref.id = nextID
               \/ ~Old(u) /\ docdb[u] # NoDoc /\ cur'.ref.id = docdb[u].id
  BY <1>2, <1>5, RetrieveMarks
<1>7. \A m \in marks' : m.id < NextFree'
  <2> SUFFICES ASSUME NEW m \in marks, m.id < nextID PROVE m.id < nextID'
    BY <1>5, <1>6
  <2>1. m.id \in Nat
    BY DEF DigTypeOK, FilesTypeOK, Mark
  <2> QED
    BY <1>5, <1>6, <2>1
<1>8. \A i \in Discarded : i \in Nat /\ i < nextID
  BY <1>5 DEF Discarded, DigTypeOK, FilesTypeOK, Mark
<1>9. ASSUME NEW v \in URLs, docdb'[v] # NoDoc, docdb'[v].id \in Discarded' \ Discarded
      PROVE  v = u
  BY <1>2, <1>5, <1>9 DEF IDsAgree
<1>10. ASSUME NEW v \in URLs, docdb'[v] # NoDoc, docdb'[v].id \in Discarded
       PROVE  docdb[v] # NoDoc /\ docdb[v].id = docdb'[v].id
  BY <1>1, <1>5, <1>8, <1>10 DEF KeepsVersions, SameVersion
<1>11. docdb[u] # NoDoc => docdb[u].id \notin Discarded
  BY <1>2, <1>4 DEF OnceInv, Stored
<1>12. OnceInv'
  <2>1. ASSUME NEW v \in URLs, docdb'[v] # NoDoc, docdb'[v].id \in Discarded'
        PROVE  v \in Passed'
    <3>1. CASE docdb'[v].id \in Discarded
      BY <1>2, <1>4, <1>10, <2>1, <3>1 DEF OnceInv, Stored
    <3>2. CASE docdb'[v].id \notin Discarded
      BY <1>4, <1>9, <2>1, <3>2
    <3> QED
      BY <3>1, <3>2
  <2>2. ASSUME phase' = "parse"
        PROVE  cur'.url \in Passed' /\ cur'.ref.id \notin Discarded'
    <3>1. docdb[u] # NoDoc => docdb[u].id \in Nat /\ docdb[u].id < nextID
      BY <1>2, <1>5 DEF IDsAgree, DigTypeOK, FilesTypeOK, Doc
    <3>2. \A i \in Discarded' : i \in Nat /\ i < nextID
      BY <1>2, <1>6, <1>8, <2>2, <3>1
    <3>3. CASE cur'.ref.id = nextID
      BY <1>2, <1>4, <1>5, <2>2, <3>2, <3>3
    <3>4. CASE ~Old(u) /\ docdb[u] # NoDoc /\ cur'.ref.id = docdb[u].id
      BY <1>2, <1>4, <1>11, <2>2, <3>4
    <3> QED
      BY <1>6, <2>2, <3>3, <3>4
  <2> QED
    BY <2>1, <2>2 DEF OnceInv, Stored
<1>13. AllStay'
  <2> SUFFICES ASSUME NEW v \in Answered', ~(phase' = "parse" /\ v = cur'.url)
               PROVE  Stays(v)'
    BY DEF AllStay
  <2>1. v \in Indexable /\ v \in URLs /\ last'[v] \in {"ok", "not_changed"}
        /\ v \in fetched \cup {u} /\ Indexable' = Indexable
    BY <1>2 DEF Answered, Indexable
  <2>2. last \in [URLs -> Answers] /\ web[u] \in Page /\ web[u].ver # 0
        /\ [web[u] EXCEPT !.status = "no_server"].ver # 0
    BY <1>2 DEF DigTypeOK, Page
  <2>3. CASE v = u
    <3>1. Status(u, p) = "not_changed" /\ p = WholeAnswer(u)
      <4>1. Status(u, p) \in {"ok", "not_changed"} /\ p = WholeAnswer(u)
        BY <1>2, <2>1, <2>2, <2>3
      <4> QED
        BY <1>2, <2>3, <4>1
    <3>a. p.ver # 0
      BY <2>2, <3>1 DEF WholeAnswer
    <3>2. docdb[u].head
      BY <1>2, <1>3, <3>a, <2>1, <2>2, <2>3, <3>1 DEF HeadInv, Stored
    <3> QED
      BY <1>3, <1>11, <2>3, <3>1, <3>2 DEF Stays, SameVersion
  <2>4. CASE v # u
    <3>1. Stays(v)
      <4>1. v \in Answered
        BY <1>2, <2>1, <2>2, <2>4 DEF Answered
      <4> QED
        BY <1>2, <4>1 DEF AllStay
    <3>2. /\ docdb'[v] # NoDoc /\ docdb'[v].head /\ docdb'[v].state # "noindex"
          /\ docdb'[v].id = docdb[v].id
      BY <1>1, <2>1, <3>1 DEF Stays, KeepsVersions, SameVersion
    <3>3. docdb'[v].id \notin Discarded'
      BY <1>9, <2>1, <2>4, <3>1, <3>2 DEF Stays
    <3> QED
      BY <3>2, <3>3 DEF Stays
  <2> QED
    BY <2>3, <2>4
<1> QED
  BY <1>1, <1>7, <1>12, <1>13

(* The end of a page stores what will be listed. *)
LEMMA ParsedKeeps ==
    ASSUME DigTypeOK, IDInv, WebInv, OnceInv, HeadInv, AllStay,
           \A m \in marks : m.id < NextFree,
           removeBad' = removeBad, discard' = {}, Parsed
    PROVE  /\ OnceInv' /\ HeadInv' /\ AllStay'
           /\ \A m \in marks' : m.id < NextFree'
<1>1. /\ phase = "parse" /\ phase' = "dig" /\ cur \in Cur /\ nextID' = nextID
      /\ UNCHANGED <<queue, visited, last, fetched>>
      /\ docdb' = [docdb EXCEPT ![cur.url] = cur.ref]
      /\ IF cur.ref.state = "noindex"
         THEN marks' = marks \cup {[mark |-> "!", id |-> cur.ref.id]} ELSE marks' = marks
  BY DEF Parsed, AppendMarks, AppendWords, histVars, DigTypeOK
<1>2. /\ cur.url \in URLs /\ cur.ref \in Doc /\ cur.ref # NoDoc
      /\ docdb \in [URLs -> Doc \cup {NoDoc}]
  BY <1>1, DigAssumption DEF Cur, DigTypeOK, FilesTypeOK
<1>3. /\ docdb'[cur.url] = cur.ref
      /\ \A v \in URLs \ {cur.url} : docdb'[v] = docdb[v]
  BY <1>1, <1>2
<1>4. Passed' = Passed /\ cur.url \in Passed
  BY <1>1, QueuedIs DEF Passed, OnceInv
<1>5. /\ NextFree = nextID /\ NextFree' = nextID' /\ cur.ref.id < nextID
      /\ cur.ref.id \notin Discarded
      /\ \A v \in Stored \ {cur.url} : docdb[v].id # cur.ref.id
  BY <1>1 DEF NextFree, IDInv, OnceInv
<1>6. \A m \in marks' : m.id < NextFree'
  BY <1>1, <1>5
<1>7. /\ \A i \in Discarded' : i \in Discarded \/ i = cur.ref.id
      /\ cur.ref.state # "noindex" => Discarded' = Discarded
  BY <1>1 DEF Discarded
<1>8. cur.url \in Indexable => cur.ref.head /\ cur.ref.state # "noindex"
  BY <1>1 DEF WebInv, HalfPage, Contents, PagesOf, Indexable
<1>9. OnceInv'
  BY <1>1, <1>3, <1>4, <1>5, <1>7 DEF OnceInv, Stored
<1>10. HeadInv'
  BY <1>3, <1>8 DEF HeadInv, Stored, Indexable
<1>11. AllStay'
  <2> SUFFICES ASSUME NEW v \in Answered
               PROVE  Stays(v)'
    BY <1>1 DEF AllStay, Answered, Indexable
  <2>1. v \in Indexable /\ v \in URLs
    BY DEF Answered, Indexable
  <2>2. CASE v = cur.url
    BY <1>2, <1>3, <1>5, <1>7, <1>8, <2>1, <2>2 DEF Stays
  <2>3. CASE v # cur.url
    BY <1>3, <1>5, <1>7, <2>1, <2>3 DEF AllStay, Stays, Stored
  <2> QED
    BY <2>2, <2>3
<1> QED
  BY <1>6, <1>9, <1>10, <1>11

(* So htdig keeps what it has retrieved, if the list had no markers when   *)
(* it began. *)
LEMMA DigKeeps ==
    ASSUME DigTypeOK, IDInv, IDInv', WebInv, OrderInv, OnceInv, HeadInv, AllStay,
           \A m \in marks : m.id < NextFree,
           phase \in {"log", "db", "start"} => marks = {},
           phase = "down" /\ phase' # "down" => marks = {},
           removeBad' = removeBad, discard = {}, discard' = {}, [DigNext]_vars, ~Crash
    PROVE  /\ OnceInv' /\ HeadInv' /\ AllStay'
           /\ \A m \in marks' : m.id < NextFree'
<1>1. CASE \E s \in Servers : Retrieve(s)
  BY <1>1, RetrieveKeeps
<1>2. CASE Parsed
  BY <1>2, ParsedKeeps
<1>3. CASE GotHref
  <2>1. /\ KeepsVersions /\ phase = "parse" /\ phase' = "parse" /\ cur \in Cur
        /\ UNCHANGED <<marks, last, fetched>>
    BY <1>3, GotHrefVersions DEF GotHref, AppendWords, KeepList, DigTypeOK
  <2>2. cur'.url = cur.url /\ cur'.ref.id = cur.ref.id
    <3>1. PICK texts : cur' = [cur EXCEPT !.left = Tail(cur.left), !.ref.descriptions = texts]
      BY <1>3 DEF GotHref
    <3> QED
      BY <2>1, <3>1 DEF Cur, Doc
  <2>3. Passed \subseteq Passed' /\ Discarded' = Discarded
    BY <1>3, <2>1, GotHrefPasses DEF Discarded
  <2>4. /\ NextFree = nextID /\ NextFree' = nextID' /\ nextID \in Nat /\ nextID' \in Nat
        /\ nextID' >= nextID
    BY <1>3, <2>1 DEF NextFree, GotHref, DigTypeOK
  <2>5. \A m \in marks : m.id \in Nat /\ m.id < nextID
    BY <2>4 DEF DigTypeOK, FilesTypeOK, Mark
  <2>6. \A m \in marks' : m.id < NextFree'
    BY <2>1, <2>4, <2>5
  <2>7. ASSUME NEW v \in URLs, docdb'[v] # NoDoc, docdb'[v].id \in Discarded
        PROVE  docdb[v] # NoDoc /\ docdb[v].id = docdb'[v].id
    BY <2>1, <2>4, <2>5, <2>7 DEF KeepsVersions, SameVersion, Discarded
  <2>8. OnceInv'
    BY <2>1, <2>2, <2>3, <2>7 DEF OnceInv, Stored
  <2>9. AllStay'
    <3> SUFFICES ASSUME NEW v \in Answered, v # cur.url
                 PROVE  Stays(v)'
      BY <2>1, <2>2 DEF AllStay, Answered, Indexable
    <3>1. v \in URLs /\ Stays(v)
      BY DEF Answered, Indexable, AllStay
    <3> QED
      BY <2>1, <2>3, <3>1 DEF Stays, KeepsVersions, SameVersion
  <2> QED
    BY <2>1, <2>6, <2>8, <2>9, HeadOn
<1>4. ASSUME UNCHANGED <<docdb, marks, last>>, fetched' \subseteq fetched,
             NextFree' = NextFree,
             phase' = "parse" => UNCHANGED <<queue, visited, cur>>,
             phase' = "dig" => marks = {} \/ UNCHANGED <<phase, queue, visited>>,
             phase' = "parse" <=> phase = "parse"
      PROVE  /\ OnceInv' /\ HeadInv' /\ AllStay'
             /\ \A m \in marks' : m.id < NextFree'
  <2>1. Discarded' = Discarded /\ (marks = {} => Discarded = {})
    BY <1>4 DEF Discarded
  <2>2. OnceInv'
    <3>1. UNCHANGED <<queue, visited>> => Passed' = Passed
      BY QueuedIs DEF Passed
    <3> QED
      BY <1>4, <2>1, <3>1 DEF OnceInv, Stored
  <2>3. AllStay'
    BY <1>4, <2>1 DEF AllStay, Answered, Stays, Indexable
  <2> QED
    BY <1>4, <2>2, <2>3 DEF HeadInv, Stored, Indexable
<1>5. CASE \E initial \in InitialFlags : Start(initial)
  <2>1. PICK initial \in InitialFlags : Start(initial)
    BY <1>5
  <2>2. marks = {} /\ phase = "down" /\ phase' = "log" /\ last' = last
    BY <2>1 DEF Start
  <2>3. CASE initial
    <3>1. /\ \A u \in URLs : docdb'[u] = NoDoc
          /\ marks' = {} /\ fetched' = {}
      BY <2>1, <2>3 DEF Start
    <3> QED
      BY <2>2, <3>1 DEF OnceInv, HeadInv, AllStay, Answered, Stored, Indexable
  <2>4. CASE ~initial
    <3>1. /\ UNCHANGED <<docdb, marks>> /\ fetched' \subseteq fetched
          /\ nextID' = nextOnDisk
      BY <2>1, <2>4 DEF Start
    <3> QED
      BY <1>4, <2>2, <3>1 DEF NextFree
  <2> QED
    BY <2>3, <2>4
<1>6. CASE Load
  <2>1. /\ UNCHANGED <<docdb, marks, last, fetched, nextID>> /\ marks = {}
        /\ phase # "down" /\ phase' \in {"log", "db", "start", "dig"} /\ phase # "parse"
    BY <1>6 DEF Load, InitialLog, InitialDb, InitialStart, Initial, LogRead, DbRead, Loaded,
       fileVars, histVars
  <2> QED
    BY <1>4, <2>1 DEF NextFree
<1>7. CASE (\E s \in Servers : SkipServer(s)) \/ NewRound \/ Signal \/ Htdump \/ World
             \/ UNCHANGED vars
  <2>1. UNCHANGED <<docdb, marks, last, fetched, nextID, nextOnDisk, phase, queue, visited, cur>>
    BY <1>7 DEF SkipServer, NewRound, Signal, Htdump, World, Publish, Outage, vars, fileVars,
       memVars, histVars
  <2> QED
    BY <1>4, <2>1 DEF NextFree
<1>8. CASE Finish \/ DumpLog
  <2>1. /\ UNCHANGED <<docdb, marks, last, fetched>> /\ phase = "dig" /\ phase' = "down"
        /\ nextOnDisk' = nextID
    BY <1>8 DEF Finish, DumpLog, CloseDb, histVars
  <2> QED
    BY <1>4, <2>1 DEF NextFree
<1> QED
  BY <1>1, <1>2, <1>3, <1>5, <1>6, <1>7, <1>8 DEF DigNext, Work

(* The list has markers from where a dig retrieves to where a merge has    *)
(* read them. *)
LEMMA MarkStep ==
    ASSUME PipelineTypeOK, MarkInv, RestInv, PipelineTypeOK', [PipelineNext]_pipeVars,
           DigsPerMerge <= 1, MaxMergeCrashes = 0, \A j \in Jobs : "words" \in j,
           ~Crash, \A m \in marks' : m.id < NextFree'
    PROVE  MarkInv'
<1>1. CASE StartDig
  <2>1. PICK initial \in InitialFlags : Start(initial)
    BY <1>1 DEF StartDig
  <2>2. /\ mphase = "down" /\ digs < DigsPerMerge /\ digs' = digs + 1 /\ UNCHANGED mergeVars
        /\ phase = "down" /\ phase' = "log"
        /\ \/ marks' = {}
           \/ UNCHANGED <<marks, listed>>
    BY <1>1, <2>1 DEF StartDig, Start
  <2>3. digs = 0 /\ marks = {} /\ digs' > 0
    BY <2>2, PipelineAssumption DEF MarkInv, PipelineTypeOK
  <2> QED
    BY <2>2, <2>3 DEF MarkInv, mergeVars
<1>2. CASE DigStep
  <2>1. /\ mphase = "down" /\ UNCHANGED mergeVars /\ digs' = digs
        /\ Work \/ Signal \/ Htdump
    BY <1>2 DEF DigStep, runVars
  <2>2. /\ phase = "down" => phase' = "down" /\ marks' = marks
        /\ phase' \in {"log", "db", "start"} => phase \in {"log", "db", "start"}
        /\ UNCHANGED <<marks, listed>> \/ (listed' = TRUE /\ phase \in {"dig", "parse"})
    <3>1. CASE \E s \in Servers : Retrieve(s)
      <4>1. PICK s \in Servers : Retrieve(s)
        BY <3>1
      <4>2. PICK p \in Heard(s) :
              \/ RetrieveGone(s, p) \/ RetrieveUnchanged(s, p)
              \/ RetrieveUnauthorized(s, p) \/ RetrieveRedirect(s, p)
              \/ RetrievePage(s, p)
        BY <4>1 DEF Retrieve
      <4>3. UNCHANGED <<marks, listed>> \/ listed' = TRUE
        BY <4>2 DEF RetrieveGone, RetrieveUnchanged, RetrieveUnauthorized,
           RetrieveRedirect, RetrievePage, AppendMarks, AppendLines, KeepList
      <4> QED
        BY <4>1, <4>3, RetrievePhase
    <3>2. CASE GotHref \/ Parsed
      BY <3>2 DEF GotHref, Parsed, AppendWords, AppendMarks, KeepList
    <3>3. CASE Load
      BY <3>3 DEF Load, InitialLog, InitialDb, InitialStart, Initial, LogRead, DbRead, Loaded,
         fileVars
    <3>4. CASE (\E s \in Servers : SkipServer(s)) \/ NewRound \/ Signal \/ Htdump
      BY <3>4 DEF SkipServer, IsNext, NewRound, Signal, Htdump, fileVars
    <3>5. CASE Finish \/ DumpLog
      BY <3>5 DEF Finish, DumpLog, CloseDb
    <3> QED
      BY <2>1, <3>1, <3>2, <3>3, <3>4, <3>5 DEF Work
  <2>3. digs > 0 \/ phase = "down"
    BY DEF MarkInv
  <2> QED
    BY <2>1, <2>2, <2>3, PipelineAssumption DEF MarkInv, mergeVars, PipelineTypeOK
<1>3. CASE BeginMerge
  <2>1. PICK j \in Jobs : StartMerge(j)
    BY <1>3 DEF BeginMerge
  <2> QED
    BY <1>3, <2>1 DEF BeginMerge, StartMerge, MarkInv, DigOnly, fileVars
<1>4. CASE MergeStep
  <2>1. /\ phase' = phase /\ digs' = digs /\ digs = 0 /\ phase = "down" /\ MergeWork
    BY <1>4 DEF MergeStep, DigOnly, MergeWork, BeginWords, MergeWords, LinkList,
       UnlinkNew, BeginDocs, ConvertURL, EndMerge, MarkInv, RestInv
  <2>2. CASE BeginWords
    BY <2>1, <2>2 DEF BeginWords, Exit, fileVars, MarkInv
  <2>3. CASE MergeWords
    BY <2>1, <2>3 DEF MergeWords, MarkInv
  <2>4. CASE LinkList \/ UnlinkNew
    BY <2>1, <2>4 DEF LinkList, UnlinkNew, fileVars, MarkInv
  <2>5. CASE BeginDocs
    BY <2>1, <2>5 DEF BeginDocs, Exit, fileVars, MarkInv
  <2>6. CASE \E u \in URLs : ConvertURL(u)
    BY <2>1, <2>6 DEF ConvertURL, MarkInv
  <2>7. CASE EndMerge
    BY <2>1, <2>7 DEF EndMerge, Exit, MarkInv
  <2> QED
    BY <2>1, <2>2, <2>3, <2>4, <2>5, <2>6, <2>7 DEF MergeWork
<1>5. ~KillMerge
  BY DEF KillMerge, PipelineTypeOK
<1>6. CASE WorldStep \/ UNCHANGED pipeVars
  BY <1>6 DEF WorldStep, World, Publish, Outage, pipeVars, vars, fileVars, mergeVars, runVars,
     MarkInv
<1> QED
  BY <1>1, <1>2, <1>3, <1>4, <1>5, <1>6 DEF PipelineNext

(* htmerge drops nothing that is to be listed, and lists it. *)
LEMMA MergeKeeps ==
    ASSUME FilesTypeOK, MergeTypeOK, IndexInv, RestInv, HeadInv, AllStay, ListedInv,
           phase = "down", phase' = "down", MergeWork, UNCHANGED <<last, fetched>>
    PROVE  /\ HeadInv' /\ AllStay' /\ ListedInv'
           /\ mphase = "docs" /\ mphase' = "down" => AnswerKept'
<1>1. /\ \A u \in URLs : docdb'[u] \in {docdb[u], NoDoc}
      /\ removeBad' = removeBad /\ nextOnDisk' = nextOnDisk
  BY MergeWorkDrops DEF MergeWork
<1>2. HeadInv'
  BY <1>1 DEF HeadInv, Stored, Indexable
<1>3. \A u \in Answered : u \in URLs /\ Stays(u)
  BY DEF AllStay, Answered, Indexable
<1>4. Answered' = Answered
  BY DEF Answered, Indexable
<1>5. CASE BeginWords \/ LinkList \/ UnlinkNew \/ BeginDocs \/ EndMerge
  <2>1. UNCHANGED <<docdb, marks>> /\ discard' \subseteq discard
    BY <1>5 DEF BeginWords, LinkList, UnlinkNew, BeginDocs, EndMerge, Exit, fileVars
  <2>2. AllStay'
    BY <1>1, <1>3, <1>4, <2>1 DEF AllStay, Stays, Discarded
  <2>3. mphase' = "docs" => BeginDocs /\ left' = Stored
    BY <1>5 DEF BeginWords, LinkList, UnlinkNew, BeginDocs, EndMerge, Exit
  <2>4. ListedInv'
    BY <2>1, <2>3 DEF ListedInv, Stored
  <2>5. ASSUME mphase = "docs", mphase' = "down" PROVE AnswerKept'
    <3>1. left = {} /\ UNCHANGED docIndex
      BY <1>5, <2>5 DEF BeginWords, LinkList, UnlinkNew, BeginDocs, EndMerge
    <3>2. \A u \in Answered : [id |-> docdb[u].id, url |-> u] \in docIndex
      BY <1>3, <2>5, <3>1 DEF ListedInv, Stays, Stored
    <3>3. \A u \in Answered : \E e \in docIndex' : e.url = u
      BY <3>1, <3>2
    <3> QED
      BY <3>3 DEF AnswerKept, Answered, Indexable
  <2> QED
    BY <1>2, <2>2, <2>4, <2>5
<1>6. CASE MergeWords
  <2>1. /\ docdb' = docdb /\ marks' = {} /\ discard' = Discarded /\ mphase' = "unlinked"
    BY <1>6 DEF MergeWords
  <2>2. Discarded' = {}
    BY <2>1 DEF Discarded
  <2>3. AllStay'
    BY <1>3, <1>4, <2>1, <2>2 DEF AllStay, Stays
  <2> QED
    BY <1>2, <2>1, <2>3 DEF ListedInv
<1>7. CASE \E u \in URLs : ConvertURL(u)
  <2>1. PICK u \in URLs : ConvertURL(u)
    BY <1>7
  <2>2. /\ UNCHANGED <<marks, discard, mphase>> /\ mphase = "docs"
        /\ IF Drops(u) THEN docdb' = [docdb EXCEPT ![u] = NoDoc] ELSE docdb' = docdb
    BY <2>1 DEF ConvertURL
  <2>3. Discarded' = Discarded
    BY <1>1, <2>2 DEF Discarded
  <2>4. \A v \in URLs : Stays(v) => docdb'[v] = docdb[v]
    <3>1. Stays(u) => ~Drops(u)
      BY DEF Stays, Drops
    <3> QED
      BY <2>2, <3>1 DEF FilesTypeOK
  <2>5. AllStay'
    BY <1>3, <1>4, <2>2, <2>3, <2>4 DEF AllStay, Stays
  <2>6. IDsAgree(docdb, words, nextOnDisk)
    <3>1. IDsAgree(disk, words, nextOnDisk) /\ \A v \in URLs : docdb[v] \in {disk[v], NoDoc}
          /\ words \in SUBSET words
      BY DEF RestInv, Fits
    <3> QED
      BY <3>1, AgreeLess
  <2>7. ListedInv'
    <3>1. \A v \in Stored \ left :
              ~Drops(v) /\ [id |-> docdb[v].id, url |-> v] \in docIndex
      BY <2>2 DEF ListedInv
    <3>2. \A v \in Stored' \ left' :
              ~Drops(v)' /\ [id |-> docdb'[v].id, url |-> v] \in docIndex'
      BY <1>1, <2>1, <2>6, <3>1, ConvertAgrees
    <3> QED
      BY <3>2 DEF ListedInv
  <2> QED
    BY <1>2, <2>2, <2>5, <2>7
<1> QED
  BY <1>5, <1>6, <1>7 DEF MergeWork

(* htdig at rest does nothing but read the log, as htdump.                *)
LEMMA OnlyHtdump ==
    ASSUME Work \/ Signal \/ Crash \/ Htdump, phase = "down"
    PROVE  Htdump
BY RetrievePhase
   DEF Work, Load, InitialLog, InitialDb, InitialStart, LogRead, DbRead, Loaded,
       SkipServer, IsNext, NewRound, GotHref, Parsed, Finish, DumpLog, Signal, Crash

KeepInv ==
    /\ PipeInv /\ WebInv /\ MarkInv /\ OrderInv /\ OnceInv /\ HeadInv /\ AllStay /\ ListedInv
    /\ served => AnswerKept

(* Digs and merges that take turns: no dig is killed, no merge is, every   *)
(* merge does the words, and no second dig comes before it. *)
InTurn ==
    /\ MaxCrashes = 0 /\ MaxMergeCrashes = 0 /\ DigsPerMerge <= 1
    /\ \A j \in Jobs : "words" \in j

(* At first nothing was retrieved. *)
LEMMA InitKeep == PipelineInit => KeepInv
<1> SUFFICES ASSUME PipelineInit PROVE KeepInv
  OBVIOUS
<1>1. /\ phase = "down" /\ mphase = "down" /\ marks = {} /\ discard = {} /\ visited = {}
      /\ digs = 0 /\ fetched = {} /\ queue = [s \in Servers |-> <<>>] /\ served = FALSE
      /\ \A u \in URLs : docdb[u] = NoDoc
  BY DEF PipelineInit, DigInit, MemInit, FilesInit, MergeInit
<1>2. Queued = {} /\ Orderly(queue)
  BY <1>1 DEF Queued, Orderly
<1>3. /\ MarkInv /\ OrderInv /\ OnceInv /\ HeadInv /\ AllStay /\ ListedInv
  BY <1>1, <1>2 DEF MarkInv, OrderInv, OnceInv, HeadInv, AllStay, ListedInv, Answered, Stored
<1>4. PipeInv /\ WebInv
  BY InitStale DEF StaleInv
<1> QED
  BY <1>1, <1>3, <1>4 DEF KeepInv

(* Neither program breaks the invariant. *)
LEMMA KeepStep ==
    ASSUME KeepInv, InTurn, [PipelineNext]_pipeVars
    PROVE  KeepInv'
<1>1. MaxCrashes = 0 /\ MaxMergeCrashes = 0 /\ DigsPerMerge <= 1
      /\ \A j \in Jobs : "words" \in j
  BY DEF InTurn
<1>2. PipeInv'
  BY <1>1, PipeStep DEF KeepInv
<1>3. /\ PipelineTypeOK /\ DigTypeOK /\ FilesTypeOK /\ MergeTypeOK /\ IndexInv /\ IDInv
      /\ RestInv /\ FoundInv /\ WebInv /\ MarkInv /\ OrderInv /\ OnceInv /\ HeadInv
      /\ AllStay /\ ListedInv
  BY DEF KeepInv, PipeInv, PipeTypes, PipelineTypeOK, DigTypeOK
<1>4. PipelineTypeOK' /\ IDInv' /\ FoundInv'
  BY <1>2 DEF PipeInv, PipeTypes
<1>5. ~Crash /\ ~KillMerge
  BY <1>1, <1>3 DEF Crash, DigTypeOK, KillMerge, PipelineTypeOK
<1>6. ASSUME [DigNext]_vars, UNCHANGED mergeVars,
             served' => served /\ UNCHANGED <<last, fetched>>,
             phase = "down" /\ phase' # "down" => marks = {},
             mphase = "down" \/ UNCHANGED <<docdb, marks, phase, cur, nextID, nextOnDisk,
                                            visited, queue, last, fetched>>
      PROVE  KeepInv'
  <2>1. WebInv' /\ OrderInv'
    BY <1>3, <1>6, WebStep, OrderStep
  <2>2. /\ OnceInv' /\ HeadInv' /\ AllStay' /\ ListedInv'
        /\ \A m \in marks' : m.id < NextFree'
    <3>1. CASE mphase = "down"
      <4>1. /\ discard = {} /\ discard' = {} /\ removeBad' = removeBad /\ mphase' = "down"
            /\ phase \in {"log", "db", "start"} => marks = {}
            /\ \A m \in marks : m.id < NextFree
        BY <1>3, <1>6, <3>1 DEF MarkInv, mergeVars
      <4>2. /\ OnceInv' /\ HeadInv' /\ AllStay'
            /\ \A m \in marks' : m.id < NextFree'
        BY <1>3, <1>4, <1>5, <1>6, <4>1, DigKeeps
      <4> QED
        BY <4>1, <4>2 DEF ListedInv
    <3>2. CASE UNCHANGED <<docdb, marks, phase, cur, nextID, nextOnDisk, visited, queue,
                           last, fetched>>
      <4>1. /\ Queued' = Queued /\ Passed' = Passed /\ Discarded' = Discarded
            /\ Stored' = Stored /\ Answered' = Answered /\ NextFree' = NextFree
        BY <1>6, <3>2, QueuedIs DEF Passed, Discarded, Stored, Answered, Indexable, NextFree,
           mergeVars
      <4>2. /\ OnceInv' /\ HeadInv' /\ AllStay'
            /\ \A m \in marks' : m.id < NextFree'
        BY <1>3, <1>6, <3>2, <4>1 DEF OnceInv, HeadInv, AllStay, Stays, MarkInv, mergeVars,
           Indexable
      <4>3. ListedInv'
        BY <1>3, <1>6, <3>2, <4>1 DEF ListedInv, Drops, mergeVars
      <4> QED
        BY <4>2, <4>3
    <3> QED
      BY <1>6, <3>1, <3>2
  <2>3. MarkInv'
    BY <1>1, <1>3, <1>4, <1>5, <2>2, MarkStep
  <2>4. served' => AnswerKept'
    BY <1>4, <1>6 DEF KeepInv, AnswerKept, Indexable, mergeVars
  <2> QED
    BY <1>2, <2>1, <2>2, <2>3, <2>4 DEF KeepInv
<1>7. CASE StartDig
  <2>1. /\ mphase = "down" /\ UNCHANGED mergeVars /\ DigNext /\ served' = FALSE
        /\ phase = "down" /\ digs < DigsPerMerge
    BY <1>7 DEF StartDig, DigNext, Start
  <2>2. marks = {}
    BY <1>1, <1>3, <2>1, PipelineAssumption DEF MarkInv, PipelineTypeOK
  <2> QED
    BY <1>6, <2>1, <2>2
<1>8. CASE DigStep
  <2>1. /\ mphase = "down" /\ UNCHANGED mergeVars /\ DigNext /\ served' = served
    BY <1>8 DEF DigStep, DigNext, runVars
  <2>2. phase = "down" => phase' = "down" /\ UNCHANGED <<last, fetched>>
    BY <1>5, <1>8, OnlyHtdump DEF DigStep, Htdump, histVars
  <2>3. served => phase = "down"
    BY <1>3 DEF FoundInv
  <2> QED
    BY <1>6, <2>1, <2>2, <2>3
<1>9. CASE WorldStep \/ UNCHANGED pipeVars
  <2>1. /\ [DigNext]_vars /\ UNCHANGED mergeVars /\ served' = served
        /\ UNCHANGED <<docdb, marks, phase, cur, nextID, nextOnDisk, visited, queue,
                       last, fetched>>
    BY <1>9 DEF WorldStep, runVars, pipeVars, vars, fileVars, memVars, histVars, DigNext,
       World, Publish, Outage
  <2> QED
    BY <1>6, <2>1
<1>10. ASSUME phase = "down", UNCHANGED DigOnly, \A m \in marks' : m.id < NextFree',
              HeadInv', AllStay', ListedInv', served' => AnswerKept'
       PROVE  KeepInv'
  <2>1. phase' = phase /\ UNCHANGED <<web, cur, queue, visited, known, todo, restart, cut>>
    BY <1>10 DEF DigOnly, memVars, worldVars, histVars
  <2>2. WebInv' /\ OrderInv' /\ OnceInv'
    BY <1>3, <1>10, <2>1, QueuedIs DEF WebInv, HalfPage, PagesOf, Contents, OrderInv,
       OnceInv
  <2>3. MarkInv'
    BY <1>1, <1>3, <1>4, <1>5, <1>10, MarkStep
  <2> QED
    BY <1>2, <1>10, <2>2, <2>3 DEF KeepInv
<1>11. CASE BeginMerge
  <2>1. /\ phase = "down" /\ UNCHANGED DigOnly /\ mphase' = "begin" /\ served' = FALSE
        /\ UNCHANGED <<docdb, marks, nextOnDisk, removeBad>> /\ discard' = {}
    BY <1>11 DEF BeginMerge, StartMerge, fileVars
  <2>2. /\ phase' = phase /\ UNCHANGED <<last, fetched>>
        /\ Discarded' = Discarded /\ Stored' = Stored
    BY <2>1 DEF DigOnly, histVars, Discarded, Stored
  <2>3. /\ HeadInv' /\ AllStay' /\ ListedInv'
        /\ \A m \in marks' : m.id < NextFree'
    BY <1>3, <2>1, <2>2 DEF HeadInv, AllStay, Answered, Stays, Indexable, ListedInv,
       MarkInv, NextFree
  <2> QED
    BY <1>10, <2>1, <2>3
<1>12. CASE MergeStep
  <2>1. /\ phase = "down" /\ UNCHANGED DigOnly /\ MergeWork
        /\ served' = (whole /\ mphase = "docs" /\ mphase' = "down")
    BY <1>3, <1>12 DEF MergeStep, MergeWork, BeginWords, MergeWords, LinkList,
       UnlinkNew, BeginDocs, ConvertURL, EndMerge, RestInv
  <2>2. phase' = phase /\ UNCHANGED <<last, fetched>>
    BY <2>1 DEF DigOnly, histVars
  <2>3. /\ HeadInv' /\ AllStay' /\ ListedInv'
        /\ served' => AnswerKept'
    BY <1>3, <2>1, <2>2, MergeKeeps
  <2>4. \A m \in marks' : m.id < NextFree'
    <3>1. marks' \subseteq marks /\ nextOnDisk' = nextOnDisk
      BY <1>3, <2>1, MergeWorkDrops DEF MergeWork, BeginWords, MergeWords, LinkList,
         UnlinkNew, BeginDocs, ConvertURL, EndMerge, fileVars
    <3> QED
      BY <1>3, <2>1, <2>2, <3>1 DEF MarkInv, NextFree
  <2> QED
    BY <1>10, <2>1, <2>3, <2>4
<1> QED
  BY <1>5, <1>7, <1>8, <1>9, <1>11, <1>12 DEF PipelineNext

(* So it always holds when they take turns. *)
LEMMA KeepInductive ==
    ASSUME InTurn
    PROVE  PipelineSpec => []KeepInv
BY InitKeep, KeepStep, PTL DEF PipelineSpec

(* A page whose last answer in a dig was its contents, or that they had    *)
(* not changed, and was not cut by a signal, is in the index after the     *)
(* merge, whatever else was asked for, failed, moved or changed in that    *)
(* dig or in an earlier one (parse_url, mergeWords, convertDocs): a marker *)
(* gives up only the ID of a URL that this run has done with.  With two    *)
(* digs before a merge it may be one that the second dig finds again,      *)
(* which the merge drops all the same. *)
THEOREM AnswersAreKept ==
    ASSUME InTurn
    PROVE  PipelineSpec => []AnswerKept
<1>1. KeepInv => AnswerKept
  BY DEF KeepInv, AnswerKept
<1> QED
  BY <1>1, KeepInductive, PTL

=============================================================================
