---------------------------- MODULE MergeProofs ----------------------------
(***************************************************************************)
(* Lemmas about htmerge, for the theorems about htmerge -m and about digs  *)
(* and merges over the same files.                                         *)
(***************************************************************************)
EXTENDS Merge, TLAPS

(* The lines that mergeWords keeps are lines of the list, the IDs that it  *)
(* discards are those of markers. *)
LEMMA KeptType ==
    ASSUME FilesTypeOK
    PROVE  Kept \in SUBSET words /\ Discarded \in SUBSET Nat
<1>1. \A m \in marks : m.id \in Nat
  BY DEF FilesTypeOK, Mark
<1> QED
  BY <1>1 DEF Kept, Discarded

(* What convertDocs has listed so far: entries that lead to stored         *)
(* documents of their IDs, none of a document it has still to look at, and *)
(* no ID twice. *)
Leads(index) ==
    /\ \A e \in index : docdb[e.url] # NoDoc /\ docdb[e.url].id = e.id
    /\ \A e, f \in index : e.id = f.id => e = f

IndexInv ==
    mphase = "docs" =>
        /\ left \subseteq Stored
        /\ Leads(docIndex)
        /\ \A e \in docIndex : e.url \notin left

(* convertDocs keeps it so. *)
LEMMA MergeWorkIndex ==
    ASSUME FilesTypeOK, MergeTypeOK, IndexInv, MergeWork
    PROVE  IndexInv'
<1>1. CASE BeginDocs
  BY <1>1 DEF BeginDocs, Exit, IndexInv, Leads, fileVars, Stored
<1>2. CASE \E u \in URLs : ConvertURL(u)
  <2>1. PICK u \in URLs : ConvertURL(u)
    BY <1>2
  <2>2. /\ mphase = "docs" /\ u \in left /\ left' = left \ {u}
        /\ left \subseteq Stored /\ Leads(docIndex)
        /\ \A e \in docIndex : e.url \notin left
    BY <2>1 DEF ConvertURL, IndexInv
  <2>3. CASE Drops(u)
    <3>1. docdb' = [docdb EXCEPT ![u] = NoDoc] /\ docIndex' = docIndex
      BY <2>1, <2>3 DEF ConvertURL
    <3>2. \A w \in URLs \ {u} : docdb'[w] = docdb[w]
      BY <3>1 DEF FilesTypeOK
    <3>3. \A e \in docIndex : e.url \in URLs \ {u}
      BY <2>2 DEF MergeTypeOK, IndexEntry
    <3>4. left' \subseteq Stored' /\ Leads(docIndex)'
      BY <2>2, <3>1, <3>2, <3>3 DEF Stored, Leads, MergeTypeOK
    <3> QED
      BY <2>2, <3>1, <3>4 DEF IndexInv
  <2>4. CASE ~Drops(u)
    <3>1. /\ docdb' = docdb
          /\ docIndex' = {e \in docIndex : e.id # docdb[u].id} \cup
                         {[id |-> docdb[u].id, url |-> u]}
      BY <2>1, <2>4 DEF ConvertURL
    <3>2. left' \subseteq Stored' /\ docdb[u] # NoDoc
      BY <2>2, <3>1 DEF Stored
    <3>3. Leads(docIndex)'
      BY <2>2, <3>1, <3>2 DEF Leads
    <3>4. \A e \in docIndex' : e.url \notin left'
      BY <2>2, <3>1
    <3> QED
      BY <3>2, <3>3, <3>4 DEF IndexInv
  <2> QED
    BY <2>3, <2>4
<1>3. CASE BeginWords \/ MergeWords \/ LinkList \/ UnlinkNew \/ EndMerge
  BY <1>3 DEF BeginWords, MergeWords, LinkList, UnlinkNew, EndMerge, Exit, IndexInv
<1> QED
  BY <1>1, <1>2, <1>3 DEF MergeWork

(* Every step of a merge leaves files of the right types. *)
LEMMA MergeWorkType ==
    ASSUME FilesTypeOK, MergeTypeOK, IndexInv, MergeWork
    PROVE  FilesTypeOK' /\ MergeTypeOK'
<1>1. CASE BeginWords
  BY <1>1 DEF MergeWork, BeginWords, Exit, fileVars, FilesTypeOK, MergeTypeOK
<1>2. CASE MergeWords
  BY <1>2, KeptType DEF MergeWork, MergeWords, FilesTypeOK, MergeTypeOK
<1>3. CASE LinkList
  BY <1>3 DEF MergeWork, LinkList, FilesTypeOK, MergeTypeOK
<1>4. CASE UnlinkNew
  BY <1>4 DEF MergeWork, UnlinkNew, fileVars, FilesTypeOK, MergeTypeOK
<1>5. CASE BeginDocs
  <2>1. left' \in SUBSET URLs /\ mphase' \in {"down", "docs"}
          /\ discard' \in SUBSET Nat /\ job' \in SUBSET {"words", "docs"}
    BY <1>5 DEF BeginDocs, Exit, Stored, MergeTypeOK
  <2> QED
    BY <1>5, <2>1 DEF MergeWork, BeginDocs, fileVars, FilesTypeOK, MergeTypeOK
<1>6. CASE \E u \in URLs : ConvertURL(u)
  <2>1. PICK u \in URLs : ConvertURL(u)
    BY <1>6
  <2>2. CASE Drops(u)
    BY <2>1, <2>2 DEF MergeWork, ConvertURL, FilesTypeOK, MergeTypeOK
  <2>3. CASE ~Drops(u)
    <3>1. UNCHANGED <<docdb, disk, nextOnDisk, words, marks, listed, urlLog>>
      BY <2>1, <2>3 DEF ConvertURL
    <3>2. docdb[u].id \in Nat
      BY <2>1 DEF ConvertURL, IndexInv, Stored, FilesTypeOK, Doc
    <3> QED
      BY <2>1, <2>3, <3>1, <3>2
         DEF MergeWork, ConvertURL, IndexEntry, FilesTypeOK, MergeTypeOK
  <2> QED
    BY <2>2, <2>3
<1>7. CASE EndMerge
  BY <1>7 DEF MergeWork, EndMerge, Exit, FilesTypeOK, MergeTypeOK
<1> QED
  BY <1>1, <1>2, <1>3, <1>4, <1>5, <1>6, <1>7 DEF MergeWork

-----------------------------------------------------------------------------
(* Words and documents. *)

(* The words filed under the ID of a document are for it, and its own ones *)
(* are those of the version that is stored. *)
Sound(db, lines) ==
    \A u \in URLs, w \in lines : db[u] # NoDoc /\ w.id = db[u].id =>
        w.url = u /\ (w.text.link \/ w.text = PageText(u, db[u].time))

(* Documents that are dropped and lines that are left out do not matter.   *)
LEMMA SoundLess ==
    ASSUME NEW db, NEW lines, NEW fewer, NEW some, Sound(db, lines),
           some \subseteq lines,
           \A u \in URLs : fewer[u] \in {db[u], NoDoc}
    PROVE  Sound(fewer, some)
BY DEF Sound

(* The word database was made from the list by the merge that is running.  *)
MergedWords ==
    \/ mphase \in {"unlinked", "linked", "docs"}
    \/ mphase = "begin" /\ "words" \notin job

WordInv ==
    /\ Sound(docdb, words)
    /\ mphase \in {"unlinked", "linked"} => Sound(docdb, newList)

(* A merge drops documents and words, and changes none. *)
LEMMA MergeWorkDrops ==
    ASSUME FilesTypeOK, MergeWork
    PROVE  /\ \A u \in URLs : docdb'[u] \in {docdb[u], NoDoc}
           /\ words' \subseteq words \/ (mphase = "unlinked" /\ words' = newList)
           /\ newList' \subseteq newList \/ (mphase = "words" /\ newList' \subseteq words)
           /\ UNCHANGED <<nextOnDisk, urlLog>>
<1>1. CASE \E u \in URLs : ConvertURL(u)
  <2>1. PICK u \in URLs : ConvertURL(u)
    BY <1>1
  <2>2. docdb' = docdb \/ docdb' = [docdb EXCEPT ![u] = NoDoc]
    BY <2>1 DEF ConvertURL
  <2>3. \A v \in URLs : docdb'[v] \in {docdb[v], NoDoc}
    BY <2>2 DEF FilesTypeOK
  <2> QED
    BY <2>1, <2>3 DEF ConvertURL
<1>2. CASE MergeWords
  BY <1>2, KeptType DEF MergeWords
<1>3. CASE BeginWords \/ LinkList \/ UnlinkNew \/ BeginDocs \/ EndMerge
  BY <1>3 DEF BeginWords, LinkList, UnlinkNew, BeginDocs, EndMerge, fileVars
<1> QED
  BY <1>1, <1>2, <1>3 DEF MergeWork

(* So what is filed under the ID of a document stays sound. *)
LEMMA MergeWorkWords ==
    ASSUME FilesTypeOK, WordInv, MergeWork
    PROVE  /\ WordInv'
           /\ (MergedWords => Sound(docdb, wordDb)) =>
                 (MergedWords \/ MergedWords' => Sound(docdb, wordDb)')
<1>1. /\ \A u \in URLs : docdb'[u] \in {docdb[u], NoDoc}
      /\ words' \subseteq words \/ (mphase = "unlinked" /\ words' = newList)
      /\ newList' \subseteq newList \/ (mphase = "words" /\ newList' \subseteq words)
  BY MergeWorkDrops
<1>2. Sound(docdb', words')
  <2>1. CASE words' \subseteq words
    BY <1>1, <2>1, SoundLess DEF WordInv
  <2>2. CASE mphase = "unlinked" /\ words' = newList
    BY <1>1, <2>2, SoundLess DEF WordInv
  <2> QED
    BY <1>1, <2>1, <2>2
<1>3. mphase' \in {"unlinked", "linked"} => Sound(docdb', newList')
  <2>1. ASSUME mphase' \in {"unlinked", "linked"}
        PROVE  MergeWords \/ LinkList
    BY <2>1 DEF MergeWork, BeginWords, UnlinkNew, BeginDocs, ConvertURL, EndMerge,
       Exit
  <2>2. CASE MergeWords
    <3>1. newList' \subseteq words
      BY <2>2, KeptType DEF MergeWords
    <3> QED
      BY <1>1, <3>1, SoundLess DEF WordInv
  <2>3. CASE LinkList
    <3>1. newList' \subseteq newList /\ mphase = "unlinked"
      BY <2>3 DEF LinkList
    <3> QED
      BY <1>1, <3>1, SoundLess DEF WordInv
  <2> QED
    BY <2>1, <2>2, <2>3
<1>4. ASSUME MergedWords => Sound(docdb, wordDb), MergedWords \/ MergedWords'
      PROVE  Sound(docdb', wordDb')
  <2>1. CASE MergeWords
    <3>1. wordDb' \subseteq words
      BY <2>1, KeptType DEF MergeWords
    <3> QED
      BY <1>1, <3>1, SoundLess DEF WordInv
  <2>2. CASE ~MergeWords
    <3>1. MergedWords /\ wordDb' = wordDb
      <4>1. CASE BeginWords
        BY <1>4, <4>1 DEF BeginWords, MergedWords, Exit
      <4>2. CASE LinkList \/ UnlinkNew \/ BeginDocs \/ EndMerge
        BY <4>2 DEF LinkList, UnlinkNew, BeginDocs, EndMerge, MergedWords,
           Exit
      <4>3. CASE \E u \in URLs : ConvertURL(u)
        BY <4>3 DEF ConvertURL, MergedWords
      <4> QED
        BY <2>2, <4>1, <4>2, <4>3 DEF MergeWork
    <3>2. Sound(docdb, wordDb) /\ wordDb' \subseteq wordDb
      BY <1>4, <3>1
    <3> QED
      BY <1>1, <3>2, SoundLess
  <2> QED
    BY <2>1, <2>2
<1> QED
  BY <1>2, <1>3, <1>4 DEF WordInv

=============================================================================
