--------------------------- MODULE MergeDBProofs ---------------------------
(***************************************************************************)
(* Theorems about htmerge -m, for all databases that are merged and        *)
(* however often it dies: types, the uniqueness of document IDs, that the  *)
(* index leads from words to the documents they are from, and that the     *)
(* more recent version of a document is the one that is found.             *)
(***************************************************************************)
EXTENDS MergeDB, MergeProofs

-----------------------------------------------------------------------------
(* The invariant. *)

Apart(db) ==
    \A u, v \in URLs : db[u] # NoDoc /\ db[v] # NoDoc /\ db[u].id = db[v].id => u = v

(* The other database is only read. *)
OtherInv ==
    /\ other \in Databases
    /\ Apart(other.db)
    /\ \A u \in URLs : other.db[u] # NoDoc => other.db[u].id < other.next
    /\ \A w \in other.words : w.id < other.next
    /\ Sound(other.db, other.words)
    /\ xphase = "urls" => xleft \subseteq OtherURLs

(* The other one's document of u under the ID it gets from a merge whose   *)
(* offset is n. *)
At(u, n) == [other.db[u] EXCEPT !.id = @ + n]

Taken(doc, u, n) == other.db[u] # NoDoc /\ doc = At(u, n)

(* IDs are below the next one; those that a merge which died gave to       *)
(* documents of the other database are what the next merge gives them. *)
IDsInv ==
    /\ Apart(disk)
    /\ \A u \in URLs : disk[u] # NoDoc =>
          disk[u].id < nextOnDisk \/ Taken(disk[u], u, nextOnDisk)
    /\ dead = 0 => \A u \in URLs : disk[u] # NoDoc => disk[u].id < nextOnDisk
    /\ \A u \in URLs : docdb[u] \in {disk[u], NoDoc}
                          \/ (xphase = "urls" /\ Taken(docdb[u], u, nextOnDisk))

PhaseInv ==
    /\ xphase # "off" => mphase = "down"
    /\ xphase = "urls" => offset = nextOnDisk /\ nextID = nextOnDisk + 1
    /\ mphase # "docs" /\ xphase # "urls" => docdb = disk

(* While the lists are copied the documents and words of the one database  *)
(* can be told from those of the other by their IDs. *)
MovedInv ==
    /\ \A w \in words \cup newList : w.id < nextOnDisk
    /\ xphase = "urls" => Sound(disk, words)
    /\ xphase \in {"own", "other"} =>
          /\ \A u \in Stored : docdb[u].id < offset \/ Taken(docdb[u], u, offset)
          /\ \A w \in words : w.id < offset
    /\ xphase = "other" => \A w \in xwords : w.id < offset
    /\ xphase \in {"own", "other"} => offset + other.next <= nextOnDisk
    /\ xphase \in {"unlink", "link"} => \A w \in xwords : w.id < nextOnDisk
    /\ xphase \in {"other", "unlink", "link"} => Sound(docdb, xwords)

ServedInv ==
    /\ MergedWords => Sound(docdb, wordDb)
    /\ served => /\ mphase = "down" /\ xphase = "off"
                 /\ Leads(docIndex) /\ Sound(docdb, wordDb)

-----------------------------------------------------------------------------
(* Type correctness and the other database. *)

(* What the databases are at first. *)
LEMMA InitSound ==
    ASSUME MergeDBInit
    PROVE  /\ SoundDB(original) /\ SoundDB(other)
           /\ docdb = original.db /\ disk = original.db /\ nextOnDisk = original.next
           /\ words = original.words
BY MergeDBAssumption DEF MergeDBInit

(* They have their types, and what is known of the other one holds. *)
LEMMA InitTypes == MergeDBInit => MergeDBTypeOK /\ OtherInv /\ IndexInv
<1> SUFFICES ASSUME MergeDBInit PROVE MergeDBTypeOK /\ OtherInv /\ IndexInv
  OBVIOUS
<1>1. FilesTypeOK
  BY InitSound DEF MergeDBInit, SoundDB, Databases, FilesTypeOK
<1>2. MergeTypeOK /\ IndexInv
  BY MergeAssumption DEF MergeDBInit, MergeInit, MergeTypeOK, IndexInv
<1>3. OtherInv
  <2>1. SoundDB(other) /\ xphase = "off"
    BY InitSound DEF MergeDBInit
  <2>2. Sound(other.db, other.words) /\ Apart(other.db)
    BY <2>1 DEF SoundDB, Sound, Apart
  <2> QED
    BY <2>1, <2>2 DEF SoundDB, OtherInv
<1>4. /\ xphase \in {"off", "urls", "own", "other", "unlink", "link"}
      /\ xleft = {} /\ offset = 0 /\ nextID = 0 /\ dbDups = {} /\ mergeDups = {}
      /\ xwords = {} /\ xmarks = {} /\ attempts = 0 /\ dead = 0 /\ served = FALSE
  BY DEF MergeDBInit
<1>5. attempts \in 0..MaxTries /\ dead \in 0..MaxKills
  BY <1>4, MergeDBAssumption
<1> QED
  BY <1>1, <1>2, <1>3, <1>4, <1>5 DEF MergeDBTypeOK, OtherInv

(* A document gets another ID and remains a document. *)
LEMMA MovedType ==
    ASSUME OtherInv, NEW u \in OtherURLs, NEW n \in Nat
    PROVE  At(u, n) \in Doc /\ At(u, n).id = other.db[u].id + n
             /\ At(u, n).time = other.db[u].time /\ other.db[u].id \in Nat
<1>1. other.db[u] \in Doc
  BY DEF OtherInv, OtherURLs, Databases
<1> QED
  BY <1>1 DEF At, Doc

(* Only one of mergeDB and the rest of htmerge is running. *)
LEMMA PhaseStep ==
    ASSUME PhaseInv, MergeDBTypeOK, [MergeDBNext]_allVars
    PROVE  PhaseInv'
<1>1. CASE MergeOn
  <2>1. mphase # "down" /\ xphase = "off" /\ xphase' = "off"
    BY <1>1 DEF MergeOn, MergeWork, BeginWords, MergeWords, LinkList, UnlinkNew,
       BeginDocs, ConvertURL, EndMerge, PhaseInv
  <2>2. mphase' # "docs" => docdb' = disk'
    <3>1. CASE BeginWords \/ MergeWords \/ LinkList \/ UnlinkNew \/ BeginDocs
      BY <2>1, <3>1 DEF BeginWords, MergeWords, LinkList, UnlinkNew, BeginDocs,
         fileVars, PhaseInv
    <3>2. CASE \E u \in URLs : ConvertURL(u)
      BY <3>2 DEF ConvertURL
    <3>3. CASE EndMerge
      BY <2>1, <3>3 DEF EndMerge, PhaseInv
    <3> QED
      BY <1>1, <3>1, <3>2, <3>3 DEF MergeOn, MergeWork
  <2> QED
    BY <2>1, <2>2 DEF PhaseInv
<1>2. CASE StartMergeDB
  BY <1>2 DEF StartMergeDB, fileVars, mergeVars, PhaseInv
<1>3. CASE \E u \in URLs : MergeURL(u)
  BY <1>3 DEF MergeURL, mergeVars, PhaseInv
<1>4. CASE CloseBoth
  BY <1>4 DEF CloseBoth, mergeVars, PhaseInv
<1>5. CASE CopyOwn \/ CopyOther \/ GiveUp
  BY <1>5 DEF CopyOwn, CopyOther, GiveUp, mergeVars, fileVars, PhaseInv
<1>6. CASE UnlinkOwn \/ LinkMerged
  BY <1>6 DEF UnlinkOwn, LinkMerged, mergeVars, PhaseInv
<1>7. CASE KillMergeDB
  <2>1. xphase # "off" /\ xphase' = "off" /\ mphase' = mphase
    BY <1>7 DEF KillMergeDB, mergeVars
  <2>2. docdb' = disk'
    BY <1>7, <2>1 DEF KillMergeDB, LoseDb, PhaseInv
  <2> QED
    BY <2>1, <2>2 DEF PhaseInv
<1>8. CASE UNCHANGED allVars
  BY <1>8 DEF allVars, fileVars, mergeVars, crossVars, PhaseInv
<1> QED
  BY <1>1, <1>2, <1>3, <1>4, <1>5, <1>6, <1>7, <1>8 DEF MergeDBNext

(* The steps of mergeDB and of the merge that follows keep the types.      *)
LEMMA MergeDBTypes ==
    ASSUME MergeDBTypeOK, OtherInv, IndexInv, PhaseInv, [MergeDBNext]_allVars
    PROVE  MergeDBTypeOK' /\ OtherInv' /\ IndexInv'
<1>1. ASSUME other' = other, xphase' = "urls" => xleft' \subseteq OtherURLs
      PROVE  OtherInv'
  BY <1>1 DEF OtherInv, Apart, Sound, OtherURLs
<1>2. ASSUME UNCHANGED mergeVars, mphase = "down"
      PROVE  MergeTypeOK' /\ IndexInv'
  BY <1>2 DEF mergeVars, MergeTypeOK, IndexInv, MergeDBTypeOK
<1>3. CASE StartMergeDB
  <2>1. OtherInv' /\ MergeTypeOK' /\ IndexInv'
    BY <1>1, <1>2, <1>3 DEF StartMergeDB
  <2>2. FilesTypeOK' /\ offset' \in Nat /\ nextID' \in Nat
    BY <1>3 DEF StartMergeDB, fileVars, FilesTypeOK, MergeDBTypeOK
  <2>3. attempts' \in 0..MaxTries
    BY <1>3, MergeDBAssumption DEF StartMergeDB, MergeDBTypeOK
  <2> QED
    BY <1>3, <2>1, <2>2, <2>3 DEF StartMergeDB, MergeDBTypeOK, OtherURLs, OtherInv
<1>4. CASE \E u \in URLs : MergeURL(u)
  <2>1. PICK u \in URLs : MergeURL(u)
    BY <1>4
  <2>2. xphase = "urls" /\ mphase = "down" /\ u \in OtherURLs
    BY <2>1 DEF MergeURL, OtherInv, PhaseInv
  <2>3. OtherInv' /\ MergeTypeOK' /\ IndexInv'
    BY <1>1, <1>2, <2>1, <2>2 DEF MergeURL, OtherInv
  <2>4. Moved(other.db[u]) \in Doc /\ other.db[u].id \in Nat
    BY <2>2, MovedType DEF Moved, At, MergeDBTypeOK
  <2>5. FilesTypeOK'
    BY <2>1, <2>4 DEF MergeURL, FilesTypeOK, MergeDBTypeOK
  <2>6. dbDups' \in SUBSET Nat /\ mergeDups' \in SUBSET Nat
    <3>1. docdb[u] # NoDoc => docdb[u].id \in Nat
      BY DEF FilesTypeOK, MergeDBTypeOK, Doc
    <3> QED
      BY <2>1, <2>4, <3>1 DEF MergeURL, MergeDBTypeOK
  <2> QED
    BY <2>1, <2>3, <2>5, <2>6 DEF MergeURL, MergeDBTypeOK, OtherInv
<1>5. CASE CloseBoth
  <2>1. MergeTypeOK' /\ IndexInv'
    BY <1>2, <1>5 DEF CloseBoth, PhaseInv
  <2>2. FilesTypeOK'
    BY <1>5 DEF CloseBoth, FilesTypeOK, MergeDBTypeOK, Databases
  <2>3. /\ other'.db = other.db /\ other'.next = other.next + 1
        /\ other'.words = other.words /\ other'.marks = other.marks
        /\ other' \in Databases /\ other.next \in Nat
    BY <1>5 DEF CloseBoth, MergeDBTypeOK, Databases
  <2>4. OtherInv'
    <3>1. \A u \in URLs : other.db[u] # NoDoc => other.db[u].id \in Nat
      BY DEF MergeDBTypeOK, Databases, Doc
    <3>2. \A w \in other.words : w.id \in Nat
      BY DEF MergeDBTypeOK, Databases, WordLine
    <3> QED
      BY <1>5, <2>3, <3>1, <3>2 DEF CloseBoth, OtherInv, Apart, Sound
  <2> QED
    BY <1>5, <2>1, <2>2, <2>3, <2>4 DEF CloseBoth, MergeDBTypeOK
<1>6. CASE CopyOwn \/ CopyOther \/ UnlinkOwn \/ GiveUp
  <2>1. OtherInv' /\ MergeTypeOK' /\ IndexInv'
    BY <1>1, <1>2, <1>6 DEF CopyOwn, CopyOther, UnlinkOwn, GiveUp, PhaseInv
  <2>2. xwords' \in SUBSET WordLine /\ xmarks' \in SUBSET Mark
    <3>1. \A w \in other.words : [w EXCEPT !.id = w.id + offset] \in WordLine
      BY DEF MergeDBTypeOK, Databases, WordLine
    <3>2. other.marks \in SUBSET Mark
      BY DEF MergeDBTypeOK, Databases
    <3> QED
      BY <1>6, <3>1, <3>2 DEF CopyOwn, CopyOther, UnlinkOwn, GiveUp, fileVars,
         FilesTypeOK, MergeDBTypeOK
  <2>3. FilesTypeOK'
    BY <1>6 DEF CopyOwn, CopyOther, UnlinkOwn, GiveUp, fileVars, FilesTypeOK,
       MergeDBTypeOK
  <2> QED
    BY <1>6, <2>1, <2>2, <2>3 DEF CopyOwn, CopyOther, UnlinkOwn, GiveUp, MergeDBTypeOK
<1>7. CASE LinkMerged
  <2>1. OtherInv' /\ IndexInv'
    BY <1>1, <1>7 DEF LinkMerged, IndexInv
  <2>2. MergeTypeOK' /\ FilesTypeOK'
    BY <1>7 DEF LinkMerged, FilesTypeOK, MergeTypeOK, MergeDBTypeOK
  <2> QED
    BY <1>7, <2>1, <2>2 DEF LinkMerged, MergeDBTypeOK
<1>8. CASE KillMergeDB
  <2>1. OtherInv' /\ MergeTypeOK' /\ IndexInv'
    BY <1>1, <1>2, <1>8 DEF KillMergeDB, PhaseInv
  <2>2. FilesTypeOK'
    <3>1. CASE xphase = "urls"
      <4>1. docdb' \in [URLs -> Doc \cup {NoDoc}] /\ disk' = docdb'
        BY <1>8, <3>1 DEF KillMergeDB, LoseDb, FilesTypeOK, MergeDBTypeOK
      <4> QED
        BY <1>8, <4>1 DEF KillMergeDB, FilesTypeOK, MergeDBTypeOK
    <3>2. CASE xphase # "urls"
      BY <1>8, <3>2 DEF KillMergeDB, FilesTypeOK, MergeDBTypeOK
    <3> QED
      BY <3>1, <3>2
  <2>3. dead' \in 0..MaxKills
    BY <1>8, MergeDBAssumption DEF KillMergeDB, MergeDBTypeOK
  <2> QED
    BY <1>8, <2>1, <2>2, <2>3 DEF KillMergeDB, MergeDBTypeOK
<1>9. CASE MergeOn
  <2>1. FilesTypeOK' /\ MergeTypeOK' /\ IndexInv'
    BY <1>9, MergeWorkType, MergeWorkIndex DEF MergeOn, MergeDBTypeOK
  <2>2. OtherInv'
    BY <1>1, <1>9 DEF MergeOn, OtherInv
  <2> QED
    BY <1>9, <2>1, <2>2 DEF MergeOn, MergeDBTypeOK
<1>10. CASE UNCHANGED allVars
  <2>1. OtherInv' /\ FilesTypeOK' /\ MergeTypeOK' /\ IndexInv'
    BY <1>10 DEF allVars, fileVars, mergeVars, crossVars, OtherInv, OtherURLs,
       FilesTypeOK, MergeTypeOK, IndexInv, Leads, Stored, MergeDBTypeOK, Apart,
       Sound
  <2> QED
    BY <1>10, <2>1 DEF allVars, crossVars, MergeDBTypeOK
<1> QED
  BY <1>3, <1>4, <1>5, <1>6, <1>7, <1>8, <1>9, <1>10 DEF MergeDBNext

(* Types and what a merge leaves of the other database, at all times. *)
LEMMA TypesInductive ==
    MergeDBSpec => [](MergeDBTypeOK /\ OtherInv /\ IndexInv /\ PhaseInv)
<1>1. MergeDBInit => PhaseInv
  BY DEF MergeDBInit, MergeInit, PhaseInv
<1> QED
  BY <1>1, InitTypes, MergeDBTypes, PhaseStep, PTL DEF MergeDBSpec

(* Every variable of htmerge -m keeps its type. *)
THEOREM MergeDBTypeCorrect == MergeDBSpec => []MergeDBTypeOK
BY TypesInductive, PTL

-----------------------------------------------------------------------------
(* Document IDs. *)

(* A database that has of every document the own record, the other one's   *)
(* under its new ID, or none. *)
LEMMA MixedApart ==
    ASSUME MergeDBTypeOK, OtherInv, IDsInv, NEW db,
           \A u \in URLs : db[u] \in {disk[u], NoDoc} \/ Taken(db[u], u, nextOnDisk)
    PROVE  /\ Apart(db)
           /\ \A u \in URLs : db[u] # NoDoc =>
                 /\ db[u].id < nextOnDisk \/ Taken(db[u], u, nextOnDisk)
                 /\ db[u].id < nextOnDisk + other.next
           /\ dead = 0 /\ (\A u \in URLs : db[u] \in {disk[u], NoDoc}) =>
                 \A u \in URLs : db[u] # NoDoc => db[u].id < nextOnDisk
<1>1. nextOnDisk \in Nat /\ other.next \in Nat
  BY DEF MergeDBTypeOK, FilesTypeOK, Databases
<1>2. ASSUME NEW u \in URLs, db[u] # NoDoc
      PROVE  /\ db[u].id \in Nat
             /\ \/ db[u].id < nextOnDisk /\ db[u] = disk[u]
                \/ /\ other.db[u] # NoDoc /\ other.db[u].id \in Nat
                   /\ Taken(db[u], u, nextOnDisk)
                   /\ db[u].id = other.db[u].id + nextOnDisk
                   /\ other.db[u].id < other.next
  <2>1. CASE Taken(db[u], u, nextOnDisk)
    <3>1. u \in OtherURLs /\ db[u] = At(u, nextOnDisk)
      BY <2>1 DEF Taken, OtherURLs
    <3>2. db[u].id = other.db[u].id + nextOnDisk /\ other.db[u].id \in Nat
      BY <1>1, <3>1, MovedType
    <3> QED
      BY <1>1, <2>1, <3>1, <3>2 DEF OtherInv, OtherURLs
  <2>2. CASE ~Taken(db[u], u, nextOnDisk)
    <3>1. db[u] = disk[u] /\ disk[u] # NoDoc
      BY <1>2, <2>2
    <3>2. disk[u].id < nextOnDisk /\ disk[u].id \in Nat
      BY <2>2, <3>1 DEF IDsInv, MergeDBTypeOK, FilesTypeOK, Doc
    <3> QED
      BY <3>1, <3>2
  <2> QED
    BY <2>1, <2>2
<1>3. ASSUME NEW u \in URLs, NEW v \in URLs, db[u] # NoDoc, db[v] # NoDoc,
             db[u].id = db[v].id
      PROVE  u = v
  <2>1. CASE db[u].id < nextOnDisk
    <3>1. db[v].id < nextOnDisk
      BY <1>3, <2>1
    <3>2. db[u] = disk[u] /\ db[v] = disk[v]
      BY <1>1, <1>2, <1>3, <2>1, <3>1
    <3> QED
      BY <1>3, <3>2 DEF IDsInv, Apart
  <2>2. CASE ~(db[u].id < nextOnDisk)
    <3>1. /\ other.db[u] # NoDoc /\ other.db[v] # NoDoc
          /\ other.db[u].id = other.db[v].id
      BY <1>1, <1>2, <1>3, <2>2
    <3> QED
      BY <3>1 DEF OtherInv, Apart
  <2> QED
    BY <2>1, <2>2
<1>4. Apart(db)
  BY <1>3 DEF Apart
<1> QED
  BY <1>1, <1>2, <1>4 DEF IDsInv

(* No step gives an ID twice. *)
LEMMA IDsStep ==
    ASSUME MergeDBTypeOK, OtherInv, PhaseInv, IDsInv, [MergeDBNext]_allVars
    PROVE  IDsInv'
<1>1. ASSUME UNCHANGED <<docdb, disk, nextOnDisk>>, other'.db = other.db,
             xphase = "urls" => xphase' = "urls", dead' = 0 => dead = 0
      PROVE  IDsInv'
  BY <1>1 DEF IDsInv, Apart, Taken, At
<1>2. ASSUME disk' = docdb', UNCHANGED <<nextOnDisk, other>>, dead' = 0 => dead = 0,
             \A u \in URLs : \/ docdb'[u] \in {disk[u], NoDoc}
                             \/ dead' # 0 /\ Taken(docdb'[u], u, nextOnDisk)
      PROVE  IDsInv'
  <2>1. /\ Apart(docdb')
        /\ \A u \in URLs : docdb'[u] # NoDoc =>
              docdb'[u].id < nextOnDisk \/ Taken(docdb'[u], u, nextOnDisk)
        /\ dead = 0 /\ (\A u \in URLs : docdb'[u] \in {disk[u], NoDoc}) =>
              \A u \in URLs : docdb'[u] # NoDoc => docdb'[u].id < nextOnDisk
    BY <1>2, MixedApart
  <2> QED
    BY <1>2, <2>1 DEF IDsInv, Apart, Taken, At
<1>3. CASE \E u \in URLs : MergeURL(u)
  <2>1. PICK u \in URLs : MergeURL(u)
    BY <1>3
  <2>2. /\ xphase = "urls" /\ xphase' = "urls" /\ offset = nextOnDisk
        /\ UNCHANGED <<disk, nextOnDisk, other, dead>> /\ u \in OtherURLs
    BY <2>1 DEF MergeURL, PhaseInv, OtherInv
  <2>3. docdb' = docdb \/ docdb' = [docdb EXCEPT ![u] = At(u, nextOnDisk)]
    <3>1. Moved(other.db[u]) = At(u, nextOnDisk)
      BY <2>2 DEF Moved, At
    <3> QED
      BY <2>1, <3>1 DEF MergeURL
  <2>4. \A v \in URLs : docdb'[v] = docdb[v] \/ Taken(docdb'[v], v, nextOnDisk)
    BY <2>2, <2>3 DEF Taken, OtherURLs, MergeDBTypeOK, FilesTypeOK
  <2> QED
    BY <2>2, <2>4 DEF IDsInv, Apart, Taken, At
<1>4. CASE CloseBoth
  <2>1. /\ disk' = docdb /\ docdb' = docdb
        /\ nextOnDisk' = nextOnDisk + 1 + other.next
    BY <1>4 DEF CloseBoth, PhaseInv
  <2>2. \A u \in URLs : docdb[u] \in {disk[u], NoDoc} \/ Taken(docdb[u], u, nextOnDisk)
    BY DEF IDsInv
  <2>3. Apart(docdb) /\ \A u \in URLs : docdb[u] # NoDoc =>
                            docdb[u].id < nextOnDisk + other.next
    BY <2>2, MixedApart
  <2>4. nextOnDisk \in Nat /\ other.next \in Nat
          /\ \A u \in URLs : docdb[u] # NoDoc => docdb[u].id \in Nat
    BY DEF MergeDBTypeOK, FilesTypeOK, Databases, Doc
  <2>5. \A u \in URLs : disk'[u] # NoDoc => disk'[u].id < nextOnDisk'
    BY <2>1, <2>3, <2>4
  <2> QED
    BY <2>1, <2>3, <2>5 DEF IDsInv, Apart
<1>5. CASE KillMergeDB
  <2>1. dead' # 0 /\ UNCHANGED <<nextOnDisk, other>> /\ xphase' = "off"
    BY <1>5 DEF KillMergeDB, MergeDBTypeOK
  <2>2. CASE xphase = "urls"
    <3>1. LoseDb
      BY <1>5, <2>2 DEF KillMergeDB
    <3>2. PICK kept \in SUBSET URLs :
             docdb' = [u \in URLs |-> IF u \in kept THEN docdb[u] ELSE disk[u]]
      BY <3>1 DEF LoseDb
    <3>3. \A u \in URLs : \/ docdb'[u] \in {disk[u], NoDoc}
                          \/ Taken(docdb'[u], u, nextOnDisk)
      BY <3>2 DEF IDsInv
    <3> QED
      BY <1>2, <2>1, <3>1, <3>3 DEF LoseDb
  <2>3. CASE xphase # "urls"
    BY <1>1, <1>5, <2>1, <2>3 DEF KillMergeDB
  <2> QED
    BY <2>2, <2>3
<1>6. CASE MergeOn
  <2>1. /\ UNCHANGED <<other, dead, xphase, nextOnDisk>> /\ xphase = "off"
        /\ MergeWork
    BY <1>6, MergeWorkDrops DEF MergeOn, MergeWork, BeginWords, MergeWords,
       LinkList, UnlinkNew, BeginDocs, ConvertURL, EndMerge, PhaseInv, MergeDBTypeOK
  <2>2. \A u \in URLs : docdb'[u] \in {disk[u], NoDoc}
    <3>1. \A u \in URLs : docdb'[u] \in {docdb[u], NoDoc}
      BY <2>1, MergeWorkDrops DEF MergeDBTypeOK
    <3> QED
      BY <2>1, <3>1 DEF IDsInv
  <2>3. disk' = disk \/ disk' = docdb'
    BY <2>1 DEF MergeWork, BeginWords, MergeWords, LinkList, UnlinkNew, BeginDocs,
       ConvertURL, EndMerge, fileVars
  <2>4. CASE disk' = docdb'
    BY <1>2, <2>1, <2>2, <2>4
  <2>5. CASE disk' = disk
    BY <2>1, <2>2, <2>5 DEF IDsInv, Apart, Taken, At
  <2> QED
    BY <2>3, <2>4, <2>5
<1>7. CASE StartMergeDB \/ CopyOwn \/ CopyOther \/ UnlinkOwn \/ LinkMerged \/ GiveUp
           \/ UNCHANGED allVars
  BY <1>1, <1>7 DEF StartMergeDB, CopyOwn, CopyOther, UnlinkOwn, LinkMerged, GiveUp,
     allVars, fileVars, crossVars
<1> QED
  BY <1>3, <1>4, <1>5, <1>6, <1>7 DEF MergeDBNext

(* The databases to start from have one ID for every document. *)
LEMMA InitIDs == MergeDBInit => IDsInv
<1> SUFFICES ASSUME MergeDBInit PROVE IDsInv
  OBVIOUS
<1>1. SoundDB(original) /\ docdb = original.db /\ disk = original.db
        /\ nextOnDisk = original.next
  BY InitSound
<1> QED
  BY <1>1 DEF SoundDB, IDsInv, Apart

(* And so have all that are made from them. *)
LEMMA IDsInductive == MergeDBSpec => []IDsInv
BY InitIDs, IDsStep, TypesInductive, PTL DEF MergeDBSpec

(* "This ensures that every document added from merge_db has a unique ID   *)
(* in the new database" (mergeDB): whatever is merged, and however often a *)
(* merge dies and is repeated, no two documents share an ID; and if none   *)
(* died every ID is below the one that the next dig begins with. *)
THEOREM IDsStayApart == MergeDBSpec => []IDsApart
<1>1. MergeDBTypeOK /\ OtherInv /\ IDsInv => IDsApart
  <2> SUFFICES ASSUME MergeDBTypeOK, OtherInv, IDsInv PROVE IDsApart
    OBVIOUS
  <2>1. Apart(docdb)
    BY MixedApart DEF IDsInv
  <2>2. xphase # "urls" /\ dead = 0 => \A u \in Stored : docdb[u].id < nextOnDisk
    BY DEF IDsInv, Stored
  <2> QED
    BY <2>1, <2>2 DEF IDsApart, Apart, Stored
<1> QED
  BY <1>1, IDsInductive, TypesInductive, PTL

-----------------------------------------------------------------------------
(* Words and the documents they are from. *)

Invs == MergeDBTypeOK /\ OtherInv /\ IndexInv /\ PhaseInv /\ IDsInv
WordsFit == MovedInv /\ WordInv /\ ServedInv

(* Of the lists and databases it started from. *)
LEMMA InitFits == MergeDBInit => WordsFit
<1> SUFFICES ASSUME MergeDBInit PROVE WordsFit
  OBVIOUS
<1>1. SoundDB(original) /\ docdb = original.db /\ disk = original.db
        /\ nextOnDisk = original.next /\ words = original.words
  BY InitSound
<1>2. mphase = "down" /\ newList = {} /\ xphase = "off" /\ served = FALSE
  BY DEF MergeDBInit, MergeInit
<1>3. Sound(docdb, words) /\ \A w \in words : w.id < nextOnDisk
  BY <1>1 DEF SoundDB, Sound
<1> QED
  BY <1>2, <1>3 DEF WordsFit, MovedInv, WordInv, ServedInv, MergedWords

(* A document that was taken has an ID that no word of the own list has.   *)
LEMMA TakenFits ==
    ASSUME MergeDBTypeOK, OtherInv, NEW db, NEW lines \in SUBSET WordLine, Sound(disk, lines),
           \A w \in lines : w.id < nextOnDisk,
           \A u \in URLs : db[u] \in {disk[u], NoDoc} \/ Taken(db[u], u, nextOnDisk)
    PROVE  Sound(db, lines)
<1> SUFFICES ASSUME NEW u \in URLs, NEW w \in lines, db[u] # NoDoc, w.id = db[u].id
             PROVE  w.url = u /\ (w.text.link \/ w.text = PageText(u, db[u].time))
  BY DEF Sound
<1>1. CASE Taken(db[u], u, nextOnDisk)
  <2>1. u \in OtherURLs /\ db[u] = At(u, nextOnDisk)
    BY <1>1 DEF Taken, OtherURLs
  <2>2. nextOnDisk \in Nat
    BY DEF MergeDBTypeOK, FilesTypeOK
  <2>3. db[u].id = other.db[u].id + nextOnDisk /\ other.db[u].id \in Nat
    BY <2>1, <2>2, MovedType
  <2>4. w.id \in Nat /\ w.id < nextOnDisk
    BY DEF WordLine
  <2> QED
    BY <2>2, <2>3, <2>4
<1>2. CASE ~Taken(db[u], u, nextOnDisk)
  BY <1>2 DEF Sound
<1> QED
  BY <1>1, <1>2

(* The words of the other database under their new IDs. *)
MovedWords == {[w EXCEPT !.id = w.id + offset] : w \in {v \in other.words : v.id \notin mergeDups}}

(* They lead to the documents that were taken with them, and to none of    *)
(* the own ones. *)
LEMMA MovedFits ==
    ASSUME MergeDBTypeOK, OtherInv, offset + other.next <= nextOnDisk,
           \A u \in Stored : docdb[u].id < offset \/ Taken(docdb[u], u, offset)
    PROVE  Sound(docdb, MovedWords) /\ \A w \in MovedWords : w.id < nextOnDisk
<1>1. offset \in Nat /\ other.next \in Nat /\ nextOnDisk \in Nat
  BY DEF MergeDBTypeOK, FilesTypeOK, Databases
<1>2. ASSUME NEW w \in MovedWords
      PROVE  /\ w.id < nextOnDisk
             /\ \A u \in URLs : docdb[u] # NoDoc /\ w.id = docdb[u].id =>
                   w.url = u /\ (w.text.link \/ w.text = PageText(u, docdb[u].time))
  <2>1. PICK v \in other.words : w = [v EXCEPT !.id = v.id + offset]
    BY <1>2 DEF MovedWords
  <2>2. v \in WordLine /\ v.id \in Nat /\ v.id < other.next
    BY DEF MergeDBTypeOK, Databases, WordLine, OtherInv
  <2>3. w.id = v.id + offset /\ w.url = v.url /\ w.text = v.text
    BY <2>1, <2>2 DEF WordLine
  <2>4. ASSUME NEW u \in URLs, docdb[u] # NoDoc, w.id = docdb[u].id
        PROVE  w.url = u /\ (w.text.link \/ w.text = PageText(u, docdb[u].time))
    <3>1. Taken(docdb[u], u, offset)
      BY <1>1, <2>2, <2>3, <2>4 DEF Stored
    <3>2. u \in OtherURLs /\ docdb[u] = At(u, offset)
      BY <3>1 DEF Taken, OtherURLs
    <3>3. /\ docdb[u].id = other.db[u].id + offset /\ other.db[u].id \in Nat
          /\ docdb[u].time = other.db[u].time
      BY <1>1, <3>2, MovedType
    <3>4. v.id = other.db[u].id /\ other.db[u] # NoDoc
      BY <1>1, <2>2, <2>3, <2>4, <3>2, <3>3 DEF OtherURLs
    <3> QED
      BY <2>3, <3>3, <3>4 DEF OtherInv, Sound
  <2> QED
    BY <1>1, <2>2, <2>3, <2>4
<1> QED
  BY <1>2 DEF Sound

(* The rest of htmerge keeps the words that fit to the documents.          *)
LEMMA FitsMergeOn ==
    ASSUME Invs, WordsFit, MergeOn
    PROVE  WordsFit'
<1>1. /\ mphase # "down" /\ xphase = "off" /\ xphase' = "off" /\ MergeWork
      /\ nextOnDisk' = nextOnDisk
  BY MergeWorkDrops DEF MergeOn, MergeWork, BeginWords, MergeWords, LinkList, UnlinkNew,
     BeginDocs, ConvertURL, EndMerge, PhaseInv, Invs, MergeDBTypeOK
<1>2. /\ WordInv'
      /\ (MergedWords => Sound(docdb, wordDb)) =>
            (MergedWords \/ MergedWords' => Sound(docdb, wordDb)')
  BY <1>1, MergeWorkWords DEF Invs, WordsFit, MergeDBTypeOK
<1>3. MovedInv'
  <2>1. (words' \cup newList') \subseteq (words \cup newList)
    BY <1>1, MergeWorkDrops DEF Invs, MergeDBTypeOK
  <2> QED
    BY <1>1, <2>1 DEF WordsFit, MovedInv
<1>4. ServedInv'
  <2>1. MergedWords' => Sound(docdb, wordDb)'
    BY <1>2 DEF WordsFit, ServedInv
  <2>2. ASSUME served'
        PROVE  mphase' = "down" /\ Leads(docIndex)' /\ Sound(docdb, wordDb)'
    <3>1. mphase = "docs" /\ mphase' = "down"
      BY <2>2 DEF MergeOn
    <3>2. UNCHANGED <<docdb, docIndex>>
      BY <1>1, <3>1 DEF MergeWork, BeginWords, MergeWords, LinkList, UnlinkNew,
         BeginDocs, ConvertURL, EndMerge
    <3>3. Sound(docdb, wordDb)'
      BY <1>2, <3>1 DEF MergedWords, WordsFit, ServedInv
    <3> QED
      BY <3>1, <3>2, <3>3 DEF Invs, IndexInv, Leads
  <2> QED
    BY <1>1, <2>1, <2>2 DEF ServedInv
<1> QED
  BY <1>2, <1>3, <1>4 DEF WordsFit

(* So do the steps of mergeDB. *)
LEMMA FitsStep ==
    ASSUME Invs, WordsFit, [MergeDBNext]_allVars
    PROVE  WordsFit'
<1>1. /\ nextOnDisk \in Nat /\ offset \in Nat /\ other.next \in Nat
      /\ words \in SUBSET WordLine /\ xwords \in SUBSET WordLine
      /\ \A w \in words \cup newList \cup xwords : w.id \in Nat
  BY DEF Invs, MergeDBTypeOK, FilesTypeOK, MergeTypeOK, Databases, WordLine
<1>2. ASSUME mphase = "down", UNCHANGED <<wordDb, docIndex, removeBad>>, ~served',
             mphase' = "down" \/ (mphase' = "begin" /\ "words" \in job')
      PROVE  ServedInv'
  BY <1>2 DEF ServedInv, MergedWords
<1>3. ASSUME mphase = "down", UNCHANGED mergeVars, Sound(docdb', words')
      PROVE  WordInv'
  BY <1>3 DEF WordInv, mergeVars
<1>4. ASSUME xphase # "off"
      PROVE  mphase = "down" /\ ~served
  BY <1>4 DEF Invs, PhaseInv, WordsFit, ServedInv
<1>5. CASE StartMergeDB
  <2>1. /\ mphase = "down" /\ xphase' = "urls" /\ ~served'
        /\ UNCHANGED mergeVars /\ UNCHANGED fileVars /\ docdb = disk
    BY <1>5 DEF StartMergeDB, Invs, PhaseInv
  <2>2. ServedInv'
    BY <1>2, <2>1 DEF mergeVars
  <2>3. WordInv'
    BY <1>3, <2>1 DEF fileVars, WordsFit, WordInv, Sound
  <2>4. MovedInv'
    BY <2>1 DEF fileVars, mergeVars, WordsFit, WordInv, MovedInv
  <2> QED
    BY <2>2, <2>3, <2>4 DEF WordsFit
<1>6. CASE \E u \in URLs : MergeURL(u)
  <2>1. PICK u \in URLs : MergeURL(u)
    BY <1>6
  <2>2. /\ xphase = "urls" /\ xphase' = "urls" /\ mphase = "down" /\ ~served'
        /\ UNCHANGED mergeVars
        /\ UNCHANGED <<disk, nextOnDisk, words, other, offset>> /\ u \in OtherURLs
        /\ offset = nextOnDisk
    BY <1>4, <2>1 DEF MergeURL, Invs, PhaseInv, OtherInv
  <2>3. Sound(disk, words) /\ \A w \in words : w.id < nextOnDisk
    BY <2>2 DEF WordsFit, MovedInv
  <2>4. \A v \in URLs : docdb'[v] \in {disk[v], NoDoc} \/ Taken(docdb'[v], v, nextOnDisk)
    <3>1. IDsInv'
      BY IDsStep, MergeDBTypes DEF Invs
    <3> QED
      BY <2>2, <3>1 DEF IDsInv, Taken, At
  <2>5. Sound(docdb', words')
    BY <1>1, <2>2, <2>3, <2>4, TakenFits DEF Invs
  <2> QED
    BY <1>2, <1>3, <2>2, <2>5 DEF mergeVars, WordsFit, MovedInv, Sound
<1>7. CASE CloseBoth
  <2>1. /\ xphase = "urls" /\ xphase' = "own" /\ mphase = "down" /\ ~served'
        /\ UNCHANGED mergeVars /\ UNCHANGED <<docdb, words, offset>>
        /\ offset = nextOnDisk /\ nextOnDisk' = nextOnDisk + 1 + other.next
        /\ other'.db = other.db /\ other'.next = other.next + 1
    BY <1>4, <1>7 DEF CloseBoth, Invs, PhaseInv, MergeDBTypeOK, Databases
  <2>2. \A u \in Stored : docdb[u].id < offset \/ Taken(docdb[u], u, offset)
    BY <2>1, MixedApart DEF Invs, IDsInv, Stored
  <2>3. MovedInv'
    <3>1. \A w \in words \cup newList : w.id < nextOnDisk'
      BY <1>1, <2>1 DEF WordsFit, MovedInv
    <3>2. \A u \in Stored' : docdb'[u].id < offset' \/ Taken(docdb[u], u, offset)'
      BY <2>1, <2>2 DEF Stored, Taken, At
    <3>3. offset' + other'.next <= nextOnDisk'
      BY <1>1, <2>1
    <3>4. \A w \in words' : w.id < offset'
      BY <2>1 DEF WordsFit, MovedInv
    <3> QED
      BY <2>1, <3>1, <3>2, <3>3, <3>4 DEF mergeVars, MovedInv
  <2> QED
    BY <1>2, <1>3, <2>1, <2>3 DEF mergeVars, WordsFit, WordInv
<1>8. CASE CopyOwn
  <2>1. /\ xphase = "own" /\ xphase' = "other" /\ mphase = "down" /\ ~served'
        /\ UNCHANGED mergeVars /\ UNCHANGED fileVars /\ UNCHANGED <<other, offset>>
        /\ xwords' \subseteq words
    BY <1>4, <1>8 DEF CopyOwn
  <2>2. Sound(docdb, xwords')
    BY <2>1 DEF WordsFit, WordInv, Sound
  <2>3. MovedInv'
    BY <2>1, <2>2 DEF fileVars, mergeVars, WordsFit, MovedInv, Stored, Taken, At, Sound
  <2> QED
    BY <1>2, <1>3, <2>1, <2>3 DEF fileVars, mergeVars, WordsFit, WordInv
<1>9. CASE CopyOther
  <2>1. /\ xphase = "other" /\ xphase' = "unlink" /\ mphase = "down" /\ ~served'
        /\ UNCHANGED mergeVars /\ UNCHANGED fileVars
        /\ xwords' = xwords \cup MovedWords
    BY <1>4, <1>9 DEF CopyOther, MovedWords
  <2>2. Sound(docdb, MovedWords) /\ \A w \in MovedWords : w.id < nextOnDisk
    BY <2>1, MovedFits DEF Invs, WordsFit, MovedInv
  <2>3. Sound(docdb, xwords')
    BY <2>1, <2>2 DEF WordsFit, MovedInv, Sound
  <2>4. \A w \in xwords' : w.id < nextOnDisk
    BY <1>1, <2>1, <2>2 DEF WordsFit, MovedInv
  <2>5. MovedInv'
    BY <2>1, <2>3, <2>4 DEF fileVars, mergeVars, WordsFit, MovedInv, Sound
  <2> QED
    BY <1>2, <1>3, <2>1, <2>5 DEF fileVars, mergeVars, WordsFit, WordInv
<1>10. CASE UnlinkOwn
  <2>1. /\ xphase = "unlink" /\ xphase' = "link" /\ mphase = "down" /\ ~served'
        /\ UNCHANGED mergeVars /\ UNCHANGED <<docdb, nextOnDisk, xwords>> /\ words' = {}
    BY <1>4, <1>10 DEF UnlinkOwn
  <2>2. Sound(docdb', words')
    BY <2>1 DEF Sound
  <2>3. MovedInv'
    BY <2>1 DEF mergeVars, WordsFit, MovedInv, Sound
  <2> QED
    BY <1>2, <1>3, <2>1, <2>2, <2>3 DEF mergeVars, WordsFit
<1>11. CASE LinkMerged
  <2>1. /\ xphase = "link" /\ xphase' = "off" /\ mphase = "down" /\ ~served'
        /\ mphase' = "begin" /\ "words" \in job' /\ words' = xwords
        /\ UNCHANGED <<docdb, nextOnDisk, newList, wordDb, docIndex, removeBad>>
    BY <1>4, <1>11 DEF LinkMerged
  <2>2. WordInv' /\ MovedInv'
    BY <2>1 DEF WordsFit, MovedInv, WordInv, Sound
  <2> QED
    BY <1>2, <2>1, <2>2 DEF WordsFit
<1>12. CASE GiveUp
  <2>1. /\ xphase # "off" /\ xphase' = "off" /\ mphase = "down" /\ ~served'
        /\ UNCHANGED mergeVars /\ UNCHANGED fileVars
    BY <1>4, <1>12 DEF GiveUp
  <2>2. MovedInv' /\ WordInv'
    BY <1>3, <2>1 DEF fileVars, mergeVars, WordsFit, MovedInv, WordInv
  <2> QED
    BY <1>2, <2>1, <2>2 DEF mergeVars, WordsFit
<1>13. CASE KillMergeDB
  <2>1. /\ xphase # "off" /\ xphase' = "off" /\ mphase = "down" /\ ~served'
        /\ UNCHANGED mergeVars /\ UNCHANGED <<nextOnDisk, words>>
    BY <1>4, <1>13 DEF KillMergeDB
  <2>2. Sound(docdb', words)
    <3>1. CASE xphase = "urls"
      <4>1. PICK kept \in SUBSET URLs :
               docdb' = [u \in URLs |-> IF u \in kept THEN docdb[u] ELSE disk[u]]
        BY <1>13, <3>1 DEF KillMergeDB, LoseDb
      <4>2. \A u \in URLs : docdb'[u] \in {disk[u], NoDoc}
                                \/ Taken(docdb'[u], u, nextOnDisk)
        BY <4>1 DEF Invs, IDsInv
      <4>3. Sound(disk, words) /\ \A w \in words : w.id < nextOnDisk
        BY <3>1 DEF WordsFit, MovedInv
      <4> QED
        BY <1>1, <4>2, <4>3, TakenFits DEF Invs
    <3>2. CASE xphase # "urls"
      BY <1>13, <3>2 DEF KillMergeDB, WordsFit, WordInv
    <3> QED
      BY <3>1, <3>2
  <2>3. MovedInv' /\ WordInv'
    BY <1>3, <2>1, <2>2 DEF mergeVars, WordsFit, MovedInv
  <2> QED
    BY <1>2, <2>1, <2>3 DEF mergeVars, WordsFit
<1>14. CASE UNCHANGED allVars
  BY <1>14 DEF allVars, fileVars, mergeVars, crossVars, WordsFit, MovedInv, WordInv,
     ServedInv, MergedWords, Leads, Sound, Stored, Taken, At
<1> QED
  BY <1>5, <1>6, <1>7, <1>8, <1>9, <1>10, <1>11, <1>12, <1>13, <1>14, FitsMergeOn
     DEF MergeDBNext

(* However often a merge died and was repeated: when htmerge -m ended an   *)
(* entry of the index leads to the stored document of that ID, and the     *)
(* words filed under the ID are for it, its own ones from the version that *)
(* is stored (mergeDB moves the IDs of words as it moves those of          *)
(* documents, and by what it moves them no own ID is met). *)
THEOREM MergedLeadsRight == MergeDBSpec => []MergedIndexSound
<1>1. Invs /\ WordsFit => MergedIndexSound
  <2> SUFFICES ASSUME Invs, WordsFit, served, NEW e \in docIndex
               PROVE  /\ docdb[e.url] # NoDoc /\ docdb[e.url].id = e.id
                      /\ \A p \in wordDb : p.id = e.id =>
                            /\ p.url = e.url
                            /\ p.text.link \/ p.text = PageText(e.url, docdb[e.url].time)
    BY DEF MergedIndexSound
  <2>1. e.url \in URLs
    BY DEF Invs, MergeDBTypeOK, MergeTypeOK, IndexEntry
  <2> QED
    BY <2>1 DEF WordsFit, ServedInv, Leads, Sound
<1>2. MergeDBSpec => []Invs
  BY IDsInductive, TypesInductive, PTL DEF Invs
<1>3. Invs /\ WordsFit /\ [MergeDBNext]_allVars => WordsFit'
  BY FitsStep
<1> QED
  BY <1>1, <1>2, <1>3, InitFits, PTL DEF MergeDBSpec

-----------------------------------------------------------------------------
(* Words that lead nowhere. *)

(* A document that convertDocs keeps, but for the discard list. *)
Lasts(doc) == doc # NoDoc /\ doc.head /\ doc.state # "noindex"

HasHome(db, id) == \E u \in URLs : Lasts(db[u]) /\ db[u].id = id

Homed(db, lines, markers) ==
    \A w \in lines : HasHome(db, w.id) \/ [mark |-> "!", id |-> w.id] \in markers

(* Databases with no words but those of documents that last, and in the    *)
(* own list of ones that a marker gives up. *)
NoGhostsBefore ==
    /\ \A s \in OwnStates : Homed(s.db, s.words, s.marks)
    /\ \A s \in OtherStates : Homed(s.db, s.words, {})

(* A word of the other list can still get a document to lead to.           *)
Expected(id) ==
    \/ id \in mergeDups
    \/ \E u \in URLs : /\ Lasts(other.db[u]) /\ other.db[u].id = id
                       /\ (xphase = "urls" /\ u \in xleft) \/ docdb[u] = At(u, offset)

CopyHome ==
    /\ Homed(other.db, other.words, {})
    /\ xphase \in {"link", "off"} => Homed(docdb, words, marks)
    /\ xphase \in {"urls", "own"} =>
          \A w \in words : w.id \in dbDups \/ Homed(docdb, {w}, marks)
    /\ xphase \in {"urls", "own", "other"} => \A w \in other.words : Expected(w.id)
    /\ xphase \in {"other", "unlink", "link"} => Homed(docdb, xwords, xmarks)
    /\ listed \/ xphase = "link" \/ mphase = "unlinked"

(* The words that a merge keeps are of no document that it discards, and   *)
(* what it keeps of the documents is in the index. *)
KeptHome ==
    /\ mphase \in {"unlinked", "linked"} => Homed(docdb, newList, {})
    /\ mphase = "unlinked" => words = {} /\ \A w \in newList : w.id \notin discard
    /\ MergedWords => /\ Homed(docdb, wordDb, {})
                      /\ \A w \in words \cup wordDb : w.id \notin discard
    /\ mphase = "docs" => \A u \in Stored \ left : \E e \in docIndex : e.id = docdb[u].id
    /\ served => /\ Homed(docdb, wordDb, {})
                 /\ \A u \in Stored : \E e \in docIndex : e.id = docdb[u].id

HomeInv == dead = 0 => CopyHome /\ KeptHome

(* Other lines and a database with the same documents. *)
LEMMA HomedLess ==
    ASSUME NEW db, NEW lines, NEW markers, Homed(db, lines, markers),
           NEW some \in SUBSET lines, NEW fewer,
           \A u \in URLs : Lasts(db[u]) => fewer[u] = db[u] \/ db[u].id \notin {w.id : w \in some}
    PROVE  Homed(fewer, some, markers)
BY DEF Homed, HasHome

(* Of the databases it started from. *)
LEMMA InitHome ==
    ASSUME NoGhostsBefore, MergeDBInit
    PROVE  HomeInv
<1>1. /\ mphase = "down" /\ xphase = "off" /\ listed = TRUE /\ served = FALSE
      /\ original \in OwnStates /\ other \in OtherStates
      /\ docdb = original.db /\ words = original.words /\ marks = original.marks
  BY DEF MergeDBInit, MergeInit
<1>2. Homed(docdb, words, marks) /\ Homed(other.db, other.words, {})
  BY <1>1 DEF NoGhostsBefore
<1> QED
  BY <1>1, <1>2 DEF HomeInv, CopyHome, KeptHome, MergedWords

(* The rest of htmerge gives no word up without its document, and no       *)
(* document without its words. *)
LEMMA HomeMergeOn ==
    ASSUME Invs, WordsFit, CopyHome, KeptHome, MergeOn
    PROVE  CopyHome' /\ KeptHome'
<1>1. /\ mphase # "down" /\ xphase = "off" /\ xphase' = "off" /\ MergeWork
      /\ UNCHANGED other
      /\ served' = (mphase = "docs" /\ mphase' = "down")
  BY DEF MergeOn, MergeWork, BeginWords, MergeWords, LinkList, UnlinkNew,
     BeginDocs, ConvertURL, EndMerge, PhaseInv, Invs
<1>2. CASE BeginWords
  <2>1. listed
    BY <1>1, <1>2 DEF BeginWords, CopyHome
  <2> QED
    BY <1>1, <1>2, <2>1 DEF BeginWords, CopyHome, KeptHome, MergedWords, fileVars, Homed
<1>3. CASE MergeWords
  <2>1. Homed(docdb, Kept, {}) /\ \A w \in Kept : w.id \notin Discarded
    <3>1. Homed(docdb, words, marks)
      BY <1>1 DEF CopyHome
    <3>2. \A w \in Kept : w \in words /\ w.id \notin Discarded
      BY DEF Kept
    <3>3. \A w \in Kept : [mark |-> "!", id |-> w.id] \notin marks
      BY <3>2 DEF Discarded
    <3> QED
      BY <3>1, <3>2, <3>3 DEF Homed
  <2> QED
    BY <1>1, <1>3, <2>1 DEF MergeWords, CopyHome, KeptHome, MergedWords, Homed
<1>4. CASE LinkList
  BY <1>1, <1>4 DEF LinkList, CopyHome, KeptHome, MergedWords, Homed
<1>5. CASE UnlinkNew
  BY <1>1, <1>5 DEF UnlinkNew, CopyHome, KeptHome, MergedWords, Homed, fileVars
<1>6. CASE BeginDocs
  <2>1. UNCHANGED <<docdb, words, marks, listed, wordDb, newList>> /\ docIndex' = {}
    BY <1>6 DEF BeginDocs, fileVars
  <2>2. CASE Stored = {}
    BY <1>1, <1>6, <2>1, <2>2 DEF BeginDocs, Exit, CopyHome, KeptHome, MergedWords
  <2>3. CASE Stored # {}
    <3>1. mphase = "begin" /\ "words" \notin job /\ mphase' = "docs" /\ left' = Stored
            /\ discard' = discard
      BY <1>6, <2>3 DEF BeginDocs
    <3> QED
      BY <1>1, <2>1, <3>1 DEF CopyHome, KeptHome, MergedWords, Stored
  <2> QED
    BY <2>2, <2>3
<1>7. CASE \E u \in URLs : ConvertURL(u)
  <2>1. PICK u \in URLs : ConvertURL(u)
    BY <1>7
  <2>2. /\ mphase = "docs" /\ mphase' = "docs" /\ u \in left /\ left' = left \ {u}
        /\ UNCHANGED <<words, marks, listed, wordDb, newList, discard>>
        /\ u \in Stored
    BY <2>1 DEF ConvertURL, Invs, IndexInv
  <2>3. Homed(docdb, wordDb, {}) /\ Homed(docdb, words, marks)
          /\ \A w \in words \cup wordDb : w.id \notin discard
    BY <1>1, <2>2 DEF CopyHome, KeptHome, MergedWords
  <2>4. \A v \in URLs : docdb[v] # NoDoc => docdb[v].id \in Nat
    BY DEF Invs, MergeDBTypeOK, FilesTypeOK, Doc
  <2>5. \A v \in URLs : Lasts(docdb[v]) =>
           docdb'[v] = docdb[v] \/ docdb[v].id \notin {w.id : w \in words \cup wordDb}
    <3>1. CASE Drops(u)
      <4>1. docdb' = [docdb EXCEPT ![u] = NoDoc]
        BY <2>1, <3>1 DEF ConvertURL
      <4>2. \A v \in URLs : v # u => docdb'[v] = docdb[v]
        BY <4>1 DEF Invs, MergeDBTypeOK, FilesTypeOK
      <4>3. Lasts(docdb[u]) => docdb[u].id \in discard
        BY <3>1 DEF Drops, Lasts
      <4> QED
        BY <2>3, <4>2, <4>3
    <3>2. CASE ~Drops(u)
      BY <2>1, <3>2 DEF ConvertURL
    <3> QED
      BY <3>1, <3>2
  <2>6. Homed(docdb', wordDb', {}) /\ Homed(docdb', words', marks')
    <3>1. \A v \in URLs : Lasts(docdb[v]) =>
             /\ docdb'[v] = docdb[v] \/ docdb[v].id \notin {w.id : w \in words}
             /\ docdb'[v] = docdb[v] \/ docdb[v].id \notin {w.id : w \in wordDb}
      BY <2>5
    <3> QED
      BY <2>2, <2>3, <3>1, HomedLess
  <2>7. \A v \in Stored' \ left' : \E e \in docIndex' : e.id = docdb'[v].id
    <3> SUFFICES ASSUME NEW v \in Stored' \ left'
                 PROVE  \E e \in docIndex' : e.id = docdb'[v].id
      OBVIOUS
    <3>1. CASE Drops(u)
      <4>1. docdb' = [docdb EXCEPT ![u] = NoDoc] /\ docIndex' = docIndex
        BY <2>1, <3>1 DEF ConvertURL
      <4>2. v # u /\ docdb'[v] = docdb[v] /\ v \in Stored \ left
        BY <2>2, <4>1 DEF Stored, Invs, MergeDBTypeOK, FilesTypeOK
      <4> QED
        BY <2>2, <4>1, <4>2 DEF KeptHome
    <3>2. CASE ~Drops(u)
      <4>1. /\ docIndex' = {e \in docIndex : e.id # docdb[u].id}
                              \cup {[id |-> docdb[u].id, url |-> u]}
            /\ docdb' = docdb
        BY <2>1, <3>2 DEF ConvertURL
      <4>2. CASE v = u
        <5>1. /\ [id |-> docdb[u].id, url |-> u] \in docIndex'
              /\ [id |-> docdb[u].id, url |-> u].id = docdb[u].id
          BY <4>1
        <5> QED
          BY <4>1, <4>2, <5>1
      <4>3. CASE v # u
        <5>1. v \in Stored \ left
          BY <2>2, <4>1, <4>3 DEF Stored
        <5>2. PICK e \in docIndex : e.id = docdb[v].id
          BY <2>2, <5>1 DEF KeptHome
        <5>3. Apart(docdb)
          BY MixedApart DEF IDsInv, Invs
        <5>4. e.id # docdb[u].id
          BY <2>2, <4>3, <5>1, <5>2, <5>3 DEF Apart, Stored
        <5> QED
          BY <4>1, <5>2, <5>4
      <4> QED
        BY <4>2, <4>3
    <3> QED
      BY <3>1, <3>2
  <2> QED
    BY <1>1, <2>2, <2>3, <2>6, <2>7 DEF CopyHome, KeptHome, MergedWords
<1>8. CASE EndMerge
  <2>1. UNCHANGED <<docdb, words, marks, listed, wordDb, newList, docIndex>> /\ mphase' = "down"
    BY <1>8 DEF EndMerge, Exit
  <2>2. CopyHome'
    BY <1>1, <1>8, <2>1 DEF EndMerge, CopyHome
  <2>3. ASSUME mphase = "docs"
        PROVE  /\ Homed(docdb, wordDb, {})
               /\ \A u \in Stored : \E e \in docIndex : e.id = docdb[u].id
    BY <1>8, <2>3 DEF EndMerge, KeptHome, MergedWords
  <2> QED
    BY <1>1, <2>1, <2>2, <2>3 DEF KeptHome, MergedWords, Stored
<1> QED
  BY <1>1, <1>2, <1>3, <1>4, <1>5, <1>6, <1>7, <1>8 DEF MergeWork

(* Nor do the steps of mergeDB, unless it dies. *)
LEMMA HomeStep ==
    ASSUME Invs, WordsFit, HomeInv, [MergeDBNext]_allVars
    PROVE  HomeInv'
<1> SUFFICES ASSUME dead' = 0
             PROVE  CopyHome' /\ KeptHome'
  BY DEF HomeInv
<1>1. dead = 0 /\ ~KillMergeDB
  BY DEF MergeDBNext, StartMergeDB, MergeURL, CloseBoth, CopyOwn, CopyOther, UnlinkOwn,
     LinkMerged, GiveUp, KillMergeDB, MergeOn, allVars, crossVars, Invs, MergeDBTypeOK
<1>2. CopyHome /\ KeptHome
  BY <1>1 DEF HomeInv
<1>3. ASSUME mphase = "down", ~served', mphase' = "down" \/ (mphase' = "begin" /\ "words" \in job')
      PROVE  KeptHome'
  BY <1>3 DEF KeptHome, MergedWords
<1>4. ASSUME xphase # "off"
      PROVE  mphase = "down" /\ ~served
  BY <1>4 DEF Invs, PhaseInv, WordsFit, ServedInv
<1>5. CASE StartMergeDB
  <2>1. /\ mphase = "down" /\ mphase' = "down" /\ ~served' /\ xphase = "off" /\ xphase' = "urls"
        /\ xleft' = OtherURLs
        /\ UNCHANGED fileVars /\ UNCHANGED other
    BY <1>5 DEF StartMergeDB, mergeVars
  <2>2. \A w \in words : Homed(docdb, {w}, marks)
    BY <1>2, <2>1 DEF CopyHome, Homed
  <2>3. \A w \in other.words : Expected(w.id)'
    BY <1>2, <2>1 DEF CopyHome, Homed, HasHome, Expected, OtherURLs, Lasts
  <2>4. listed
    BY <1>2, <2>1 DEF CopyHome
  <2> QED
    BY <1>2, <1>3, <2>1, <2>2, <2>3, <2>4 DEF fileVars, CopyHome
<1>6. CASE \E u \in URLs : MergeURL(u)
  <2>1. PICK u \in URLs : MergeURL(u)
    BY <1>6
  <2>2. /\ xphase = "urls" /\ xphase' = "urls" /\ mphase = "down" /\ mphase' = "down" /\ ~served'
        /\ UNCHANGED <<words, marks, listed, other, offset>> /\ u \in OtherURLs
        /\ xleft' = xleft \ {u}
    BY <1>4, <2>1 DEF MergeURL, mergeVars, Invs, OtherInv
  <2>3. /\ \A v \in URLs : v # u => docdb'[v] = docdb[v]
        /\ \/ mergeDups' = mergeDups \cup {other.db[u].id} /\ docdb' = docdb
              /\ dbDups' = dbDups
           \/ mergeDups' = mergeDups /\ docdb'[u] = At(u, offset)
              /\ dbDups' = IF docdb[u] = NoDoc THEN dbDups ELSE dbDups \cup {docdb[u].id}
    BY <2>1, <2>2 DEF MergeURL, Moved, At, Invs, MergeDBTypeOK, FilesTypeOK
  <2>4. \A w \in words : w.id \in dbDups' \/ Homed(docdb', {w}, marks)
    <3> SUFFICES ASSUME NEW w \in words, w.id \notin dbDups'
                 PROVE  Homed(docdb', {w}, marks)
      OBVIOUS
    <3>1. Homed(docdb, {w}, marks)
      BY <1>2, <2>2, <2>3 DEF CopyHome
    <3>2. \A v \in URLs : Lasts(docdb[v]) => docdb'[v] = docdb[v] \/ docdb[v].id # w.id
      BY <2>3 DEF Lasts
    <3> QED
      BY <3>1, <3>2 DEF Homed, HasHome
  <2>5. \A w \in other.words : Expected(w.id)'
    <3> SUFFICES ASSUME NEW w \in other.words, w.id \notin mergeDups'
                 PROVE  Expected(w.id)'
      BY DEF Expected
    <3>1. Expected(w.id) /\ w.id \notin mergeDups
      BY <1>2, <2>2, <2>3 DEF CopyHome
    <3>2. PICK v \in URLs : /\ Lasts(other.db[v]) /\ other.db[v].id = w.id
                            /\ v \in xleft \/ docdb[v] = At(v, offset)
      BY <3>1 DEF Expected
    <3>3. v \in xleft' \/ docdb'[v] = At(v, offset)
      BY <2>2, <2>3, <3>2
    <3> QED
      BY <2>2, <3>2, <3>3 DEF Expected, At
  <2> QED
    BY <1>2, <1>3, <2>2, <2>4, <2>5 DEF CopyHome
<1>7. CASE CloseBoth
  <2>1. /\ xphase = "urls" /\ xphase' = "own" /\ mphase = "down" /\ mphase' = "down" /\ ~served'
        /\ xleft = {}
        /\ UNCHANGED <<docdb, words, marks, listed, offset, dbDups, mergeDups>>
        /\ other'.db = other.db /\ other'.words = other.words
    BY <1>4, <1>7 DEF CloseBoth, mergeVars, Invs, MergeDBTypeOK, Databases
  <2>2. \A w \in other.words : Expected(w.id)'
    <3> SUFFICES ASSUME NEW w \in other.words
                 PROVE  Expected(w.id)'
      OBVIOUS
    <3>1. w.id \in mergeDups \/ \E v \in URLs : /\ Lasts(other.db[v]) /\ other.db[v].id = w.id
                                               /\ docdb[v] = At(v, offset)
      BY <1>2, <2>1 DEF CopyHome, Expected
    <3> QED
      BY <2>1, <3>1 DEF Expected, At
  <2> QED
    BY <1>2, <1>3, <2>1, <2>2 DEF CopyHome
<1>8. CASE CopyOwn
  <2>1. /\ xphase = "own" /\ xphase' = "other" /\ mphase = "down" /\ mphase' = "down" /\ ~served'
        /\ UNCHANGED fileVars /\ UNCHANGED <<other, offset, dbDups, mergeDups>>
        /\ xwords' = {w \in words : w.id \notin dbDups} /\ xmarks' = marks
    BY <1>4, <1>8 DEF CopyOwn, mergeVars
  <2>2. Homed(docdb, xwords', marks)
    BY <1>2, <2>1 DEF CopyHome, Homed
  <2>3. \A w \in other.words : Expected(w.id)'
    BY <1>2, <2>1 DEF CopyHome, Expected, fileVars, At
  <2> QED
    BY <1>2, <1>3, <2>1, <2>2, <2>3 DEF CopyHome, fileVars
<1>9. CASE CopyOther
  <2>1. /\ xphase = "other" /\ xphase' = "unlink" /\ mphase = "down" /\ mphase' = "down" /\ ~served'
        /\ UNCHANGED fileVars /\ UNCHANGED <<other, offset>>
        /\ xwords' = xwords \cup MovedWords /\ xmarks' = xmarks \cup other.marks
    BY <1>4, <1>9 DEF CopyOther, MovedWords, mergeVars
  <2>2. ASSUME NEW w \in MovedWords
        PROVE  HasHome(docdb, w.id)
    <3>1. PICK v \in other.words : w = [v EXCEPT !.id = v.id + offset] /\ v.id \notin mergeDups
      BY <2>2 DEF MovedWords
    <3>2. w.id = v.id + offset
      BY <3>1 DEF Invs, MergeDBTypeOK, Databases, WordLine
    <3>3. PICK u \in URLs : /\ Lasts(other.db[u]) /\ other.db[u].id = v.id
                            /\ docdb[u] = At(u, offset)
      BY <1>2, <2>1, <3>1 DEF CopyHome, Expected
    <3>4. /\ u \in OtherURLs /\ other.db[u] \in Doc /\ offset \in Nat
          /\ NoDoc \notin Doc
      BY <3>3, MergeDBAssumption DEF OtherURLs, Lasts, Invs, MergeDBTypeOK, Databases
    <3>5. /\ At(u, offset) \in Doc /\ At(u, offset).id = v.id + offset
          /\ At(u, offset).head = other.db[u].head
          /\ At(u, offset).state = other.db[u].state
      BY <3>3, <3>4 DEF At, Doc
    <3> QED
      BY <3>2, <3>3, <3>4, <3>5 DEF HasHome, Lasts
  <2>3. Homed(docdb, xwords', xmarks')
    BY <1>2, <2>1, <2>2 DEF CopyHome, Homed
  <2> QED
    BY <1>2, <1>3, <2>1, <2>3 DEF CopyHome, fileVars
<1>10. CASE UnlinkOwn
  <2>1. /\ xphase = "unlink" /\ xphase' = "link" /\ mphase = "down" /\ mphase' = "down" /\ ~served'
        /\ UNCHANGED <<docdb, other, xwords, xmarks>> /\ words' = {}
    BY <1>4, <1>10 DEF UnlinkOwn, mergeVars
  <2>2. Homed(docdb, {}, marks')
    BY DEF Homed
  <2> QED
    BY <1>2, <1>3, <2>1, <2>2 DEF CopyHome
<1>11. CASE LinkMerged
  <2>1. /\ xphase = "link" /\ xphase' = "off" /\ mphase = "down" /\ mphase' = "begin" /\ ~served'
        /\ "words" \in job' /\ listed'
        /\ UNCHANGED <<docdb, other>> /\ words' = xwords /\ marks' = xmarks
    BY <1>4, <1>11 DEF LinkMerged
  <2> QED
    BY <1>2, <1>3, <2>1 DEF CopyHome
<1>12. CASE GiveUp
  BY <1>2, <1>4, <1>12 DEF GiveUp, CopyHome
<1>13. CASE MergeOn
  BY <1>2, <1>13, HomeMergeOn
<1>14. CASE UNCHANGED allVars
  BY <1>2, <1>14 DEF allVars, fileVars, mergeVars, crossVars, CopyHome, KeptHome,
     MergedWords, Homed, HasHome, Lasts, Expected, At, Stored
<1> QED
  BY <1>1, <1>5, <1>6, <1>7, <1>8, <1>9, <1>10, <1>11, <1>12, <1>13, <1>14
     DEF MergeDBNext

(* When the databases that are merged have no words but those of documents *)
(* that last, the merged ones have none that lead nowhere, unless a merge  *)
(* died; and in any case what is found leads to its document. *)
THEOREM MergeIsSound ==
    ASSUME NoGhostsBefore
    PROVE  MergeDBSpec => []MergedSound
<1>1. ASSUME Invs, WordsFit, HomeInv
      PROVE  MergedNoGhosts
  <2> SUFFICES ASSUME served, dead = 0, NEW p \in wordDb
               PROVE  \E e \in docIndex : e.id = p.id
    BY DEF MergedNoGhosts
  <2>1. /\ Homed(docdb, wordDb, {})
        /\ \A u \in Stored : \E e \in docIndex : e.id = docdb[u].id
    BY <1>1 DEF HomeInv, KeptHome
  <2>2. PICK u \in URLs : Lasts(docdb[u]) /\ docdb[u].id = p.id
    BY <2>1 DEF Homed, HasHome
  <2> QED
    BY <2>1, <2>2 DEF Lasts, Stored
<1>2. MergeDBSpec => []Invs
  BY IDsInductive, TypesInductive, PTL DEF Invs
<1>3. Invs /\ WordsFit /\ [MergeDBNext]_allVars => WordsFit'
  BY FitsStep
<1>4. Invs /\ WordsFit /\ HomeInv /\ [MergeDBNext]_allVars => HomeInv'
  BY HomeStep
<1>5. MergeDBInit => HomeInv
  BY InitHome
<1>6. Invs /\ WordsFit /\ HomeInv => MergedNoGhosts
  BY <1>1
<1>7. MergeDBSpec => []MergedNoGhosts
  BY <1>2, <1>3, <1>4, <1>5, <1>6, InitFits, PTL DEF MergeDBSpec
<1> QED
  BY <1>7, MergedLeadsRight, PTL DEF MergedSound

-----------------------------------------------------------------------------
(* The more recent version. *)

(* The text of every document is in the list. *)
HasTexts(db, lines) ==
    \A u \in URLs : db[u] # NoDoc =>
        \E w \in lines : w.id = db[u].id /\ w.text = PageText(u, db[u].time)

(* The line is of the stored document, and the only one of it.             *)
OnlyLine(db, lines, v) ==
    /\ db[v.url] # NoDoc /\ db[v.url].id = v.id
    /\ \A w \in lines : w.id = v.id => w = v

(* Every line is the only one of its document, or a marker gives it up.    *)
OneLineEach(db, lines, markers) ==
    \A v \in lines : [mark |-> "!", id |-> v.id] \in markers \/ OnlyLine(db, lines, v)

(* Databases whose documents are all found, and were not given up.  The    *)
(* markers of the other one are not moved with its IDs, so that there are  *)
(* none but those that do nothing. *)
Whole(s) ==
    /\ \A u \in URLs : s.db[u] # NoDoc => Lasts(s.db[u])
    /\ HasTexts(s.db, s.words)
    /\ OneLineEach(s.db, s.words, s.marks)
    /\ \A m \in s.marks : m.mark # "+" =>
          m.id < s.next /\ \A u \in URLs : s.db[u] # NoDoc => s.db[u].id # m.id

WholeBefore ==
    /\ \A s \in OwnStates : Whole(s)
    /\ \A s \in OtherStates : Whole(s) /\ \A m \in s.marks : m.mark = "+"

(* What stays so of the databases it started from. *)
Lost == {m.id : m \in {k \in original.marks : k.mark # "+"}}

WholeInv ==
    /\ original \in Databases
    /\ \A i \in Lost : i < original.next
    /\ \A u \in URLs : original.db[u] # NoDoc =>
          /\ Lasts(original.db[u])
          /\ original.db[u].id < original.next /\ original.db[u].id \notin Lost
    /\ \A u \in URLs : other.db[u] # NoDoc => Lasts(other.db[u])
    /\ HasTexts(other.db, other.words)
    /\ OneLineEach(other.db, other.words, {})
    /\ \A m \in other.marks : m.mark = "+"

(* A document is the own one, or the other one's that is as recent. *)
Replaced(u, doc) ==
    /\ other.db[u] # NoDoc
    /\ original.db[u] # NoDoc => original.db[u].time <= other.db[u].time
    /\ \E n \in Nat : original.next <= n /\ doc = At(u, n)

Origin(u, doc) == doc = original.db[u] \/ Replaced(u, doc)

OriginInv ==
    /\ original.next <= nextOnDisk
    /\ \A u \in URLs : Origin(u, docdb[u]) /\ Origin(u, disk[u])
    /\ \A m \in marks \cup xmarks : m.mark = "+" \/ m \in original.marks
    /\ discard \subseteq Lost
    /\ xphase # "urls" => docdb = disk

IsNewest(u, doc) ==
    /\ original.db[u] # NoDoc => doc # NoDoc /\ original.db[u].time <= doc.time
    /\ other.db[u] # NoDoc => doc # NoDoc /\ other.db[u].time <= doc.time

(* What the documents of the other database are. *)
LEMMA AtIs ==
    ASSUME MergeDBTypeOK, NEW u \in URLs, other.db[u] # NoDoc, NEW n \in Nat
    PROVE  /\ At(u, n) \in Doc /\ At(u, n) # NoDoc
           /\ At(u, n).id = other.db[u].id + n /\ At(u, n).time = other.db[u].time
           /\ At(u, n).head = other.db[u].head /\ At(u, n).state = other.db[u].state
           /\ other.db[u].id \in Nat /\ other.db[u].time \in Nat
<1>1. other.db[u] \in Doc /\ NoDoc \notin Doc
  BY MergeDBAssumption DEF MergeDBTypeOK, Databases
<1>2. other.db[u].id \in Nat /\ other.db[u].time \in Nat /\ other.db[u].id + n \in Nat
  BY <1>1 DEF Doc
<1> QED
  BY <1>1, <1>2 DEF At, Doc

(* No document is one that is discarded. *)
LEMMA NotLost ==
    ASSUME MergeDBTypeOK, WholeInv, NEW u \in URLs, NEW doc, doc # NoDoc, Origin(u, doc)
    PROVE  doc.id \notin Lost /\ Lasts(doc)
<1>1. CASE doc = original.db[u]
  BY <1>1 DEF WholeInv
<1>2. CASE Replaced(u, doc)
  <2>1. PICK n \in Nat : original.next <= n /\ doc = At(u, n) /\ other.db[u] # NoDoc
    BY <1>2 DEF Replaced
  <2>2. doc.id = other.db[u].id + n /\ other.db[u].id \in Nat
    BY <2>1, AtIs
  <2>3. original.next \in Nat
    BY DEF WholeInv, Databases
  <2>4. ASSUME doc.id \in Lost PROVE FALSE
    <3>1. doc.id < original.next
      BY <2>4 DEF WholeInv
    <3> QED
      BY <2>1, <2>2, <2>3, <3>1
  <2>5. Lasts(doc)
    <3>1. Lasts(other.db[u])
      BY <2>1 DEF WholeInv
    <3> QED
      BY <2>1, <3>1, AtIs DEF Lasts
  <2> QED
    BY <2>4, <2>5
<1> QED
  BY <1>1, <1>2 DEF Origin

(* Hence convertDocs drops none. *)
LEMMA NoneDropped ==
    ASSUME Invs, WholeInv, OriginInv, MergeWork
    PROVE  docdb' = docdb /\ (\A u \in URLs : ~ConvertURL(u) \/ ~Drops(u))
<1>1. ASSUME NEW u \in URLs, ConvertURL(u) PROVE ~Drops(u) /\ docdb' = docdb
  <2>1. u \in Stored
    BY <1>1 DEF ConvertURL, Invs, IndexInv
  <2>2. Lasts(docdb[u]) /\ docdb[u].id \notin Lost
    BY <2>1, NotLost DEF Invs, OriginInv, Stored
  <2>3. ~Drops(u)
    BY <2>2 DEF Drops, Lasts, OriginInv
  <2> QED
    BY <1>1, <2>3 DEF ConvertURL
<1>2. CASE \E u \in URLs : ConvertURL(u)
  BY <1>1, <1>2
<1>3. CASE ~\E u \in URLs : ConvertURL(u)
  BY <1>3 DEF MergeWork, BeginWords, MergeWords, LinkList, UnlinkNew, BeginDocs, EndMerge, fileVars
<1> QED
  BY <1>1, <1>2, <1>3

(* At first every document is an own one. *)
LEMMA InitWhole ==
    ASSUME WholeBefore, MergeDBInit
    PROVE  WholeInv /\ OriginInv
<1>1. /\ Whole(original) /\ Whole(other) /\ \A m \in other.marks : m.mark = "+"
      /\ SoundDB(original)
      /\ docdb = original.db /\ disk = original.db /\ nextOnDisk = original.next
      /\ marks = original.marks /\ xmarks = {} /\ discard = {} /\ xphase = "off"
  BY InitSound DEF WholeBefore, MergeDBInit, MergeInit
<1>2. original \in Databases /\ original.next \in Nat
  BY <1>1 DEF SoundDB, Databases
<1>3. \A u \in URLs : original.db[u] # NoDoc =>
          /\ Lasts(original.db[u])
          /\ original.db[u].id < original.next /\ original.db[u].id \notin Lost
  BY <1>1 DEF Whole, SoundDB, Lost
<1>4. \A i \in Lost : i < original.next
  BY <1>1 DEF Whole, Lost
<1>5. OneLineEach(other.db, other.words, {})
  BY <1>1 DEF Whole, OneLineEach
<1>6. WholeInv
  BY <1>1, <1>2, <1>3, <1>4, <1>5 DEF WholeInv, Whole
<1>7. OriginInv
  BY <1>1, <1>2 DEF OriginInv, Origin
<1> QED
  BY <1>6, <1>7

(* The databases it started from stay as they are. *)
LEMMA WholeStep ==
    ASSUME Invs, WholeInv, [MergeDBNext]_allVars
    PROVE  /\ WholeInv' /\ UNCHANGED original
           /\ other'.db = other.db /\ other'.words = other.words /\ other'.marks = other.marks
<1>1. /\ UNCHANGED original
      /\ other'.db = other.db /\ other'.words = other.words /\ other'.marks = other.marks
  <2>1. CASE CloseBoth
    BY <2>1 DEF CloseBoth, Invs, MergeDBTypeOK, Databases
  <2>2. CASE ~CloseBoth
    <3>1. UNCHANGED <<original, other>>
      BY <2>2 DEF MergeDBNext, StartMergeDB, MergeURL, CopyOwn, CopyOther, UnlinkOwn,
         LinkMerged, GiveUp, KillMergeDB, MergeOn, allVars, crossVars
    <3> QED
      BY <3>1
  <2> QED
    BY <2>1, <2>2
<1> QED
  BY <1>1 DEF WholeInv, Lost, HasTexts, OneLineEach, OnlyLine

(* Documents come from the own database or from the other one, also when a *)
(* merge dies. *)
LEMMA OriginStep ==
    ASSUME Invs, WholeInv, OriginInv, [MergeDBNext]_allVars
    PROVE  OriginInv'
<1>0. /\ UNCHANGED original
      /\ other'.db = other.db /\ other'.words = other.words /\ other'.marks = other.marks
  BY WholeStep
<1>1. original.next \in Nat /\ nextOnDisk \in Nat /\ other.next \in Nat
  BY DEF Invs, WholeInv, MergeDBTypeOK, FilesTypeOK, Databases
<1>2. ASSUME UNCHANGED <<docdb, disk, nextOnDisk, marks, xmarks, discard>>,
             (xphase # "urls" /\ xphase' # "urls") \/ docdb = disk \/ xphase' = "urls"
      PROVE  OriginInv'
  BY <1>0, <1>2 DEF OriginInv, Origin, Replaced, At, Lost
<1>3. ASSUME original.next <= nextOnDisk',
             \A u \in URLs : Origin(u, docdb'[u]) /\ Origin(u, disk'[u]),
             \A m \in marks' \cup xmarks' : m.mark = "+" \/ m \in original.marks,
             discard' \subseteq Lost, xphase' # "urls" => docdb' = disk'
      PROVE  OriginInv'
  BY <1>0, <1>3 DEF OriginInv, Origin, Replaced, At, Lost
<1>4. CASE StartMergeDB
  <2>1. UNCHANGED fileVars /\ UNCHANGED mergeVars /\ xmarks' = {} /\ xphase' = "urls"
    BY <1>4 DEF StartMergeDB
  <2> QED
    BY <1>3, <2>1 DEF fileVars, mergeVars, OriginInv
<1>5. CASE \E u \in URLs : MergeURL(u)
  <2>1. PICK u \in URLs : MergeURL(u)
    BY <1>5
  <2>2. /\ xphase = "urls" /\ xphase' = "urls" /\ offset = nextOnDisk /\ u \in OtherURLs
        /\ UNCHANGED <<disk, nextOnDisk, marks, xmarks, discard>>
    BY <2>1 DEF MergeURL, Invs, PhaseInv, OtherInv, mergeVars
  <2>3. CASE KeepsOwn(u)
    <3>1. docdb' = docdb
      BY <2>1, <2>3 DEF MergeURL
    <3> QED
      BY <1>3, <2>2, <3>1 DEF OriginInv
  <2>4. CASE ~KeepsOwn(u)
    <3>1. docdb' = [docdb EXCEPT ![u] = At(u, offset)]
      BY <2>1, <2>4 DEF MergeURL, Moved, At
    <3>2. Replaced(u, At(u, offset))
      <4>1. other.db[u] # NoDoc
        BY <2>2 DEF OtherURLs
      <4>2. original.next <= offset /\ offset \in Nat
        BY <1>1, <2>2 DEF OriginInv
      <4>3. ASSUME original.db[u] # NoDoc PROVE original.db[u].time <= other.db[u].time
        <5>1. CASE docdb[u] = original.db[u]
          <6>1. original.db[u] \in Doc /\ other.db[u] \in Doc
            BY <4>1, <4>3 DEF WholeInv, Invs, MergeDBTypeOK, Databases
          <6>2. ~(original.db[u].time > other.db[u].time)
            BY <2>4, <4>3, <5>1 DEF KeepsOwn
          <6> QED
            BY <6>1, <6>2 DEF Doc
        <5>2. CASE Replaced(u, docdb[u])
          BY <4>3, <5>2 DEF Replaced
        <5> QED
          BY <5>1, <5>2 DEF OriginInv, Origin
      <4> QED
        BY <4>1, <4>2, <4>3 DEF Replaced
    <3>3. \A v \in URLs : Origin(v, docdb'[v])
      BY <3>1, <3>2 DEF OriginInv, Origin, Invs, MergeDBTypeOK, FilesTypeOK
    <3> QED
      BY <1>3, <2>2, <3>3 DEF OriginInv
  <2> QED
    BY <2>3, <2>4
<1>6. CASE CloseBoth
  <2>1. /\ disk' = docdb /\ docdb' = docdb /\ nextOnDisk' = nextOnDisk + 1 + other.next
        /\ UNCHANGED <<marks, xmarks, discard>>
    BY <1>6 DEF CloseBoth, Invs, PhaseInv, mergeVars
  <2>2. original.next <= nextOnDisk'
    BY <1>1, <2>1 DEF OriginInv
  <2> QED
    BY <1>3, <2>1, <2>2 DEF OriginInv
<1>7. CASE CopyOwn
  <2>1. UNCHANGED fileVars /\ UNCHANGED mergeVars /\ xmarks' = marks /\ xphase = "own"
    BY <1>7 DEF CopyOwn
  <2> QED
    BY <1>3, <2>1 DEF fileVars, mergeVars, OriginInv
<1>8. CASE CopyOther
  <2>1. /\ UNCHANGED fileVars /\ UNCHANGED mergeVars
        /\ xmarks' = xmarks \cup other.marks /\ xphase = "other"
    BY <1>8 DEF CopyOther
  <2>2. \A m \in other.marks : m.mark = "+"
    BY DEF WholeInv
  <2> QED
    BY <1>3, <2>1, <2>2 DEF fileVars, mergeVars, OriginInv
<1>9. CASE UnlinkOwn
  <2>1. /\ UNCHANGED <<docdb, disk, nextOnDisk, xmarks>> /\ UNCHANGED mergeVars
        /\ marks' = {} /\ xphase = "unlink"
    BY <1>9 DEF UnlinkOwn
  <2> QED
    BY <1>3, <2>1 DEF mergeVars, OriginInv
<1>10. CASE LinkMerged
  <2>1. UNCHANGED <<docdb, disk, nextOnDisk, xmarks, discard>> /\ marks' = xmarks /\ xphase = "link"
    BY <1>10 DEF LinkMerged
  <2> QED
    BY <1>3, <2>1 DEF OriginInv
<1>11. CASE GiveUp
  <2>1. UNCHANGED fileVars /\ UNCHANGED mergeVars /\ xmarks' = xmarks /\ xphase = "own"
    BY <1>11 DEF GiveUp
  <2> QED
    BY <1>3, <2>1 DEF fileVars, mergeVars, OriginInv
<1>12. CASE KillMergeDB
  <2>1. UNCHANGED <<nextOnDisk, marks, xmarks, discard>>
    BY <1>12 DEF KillMergeDB, mergeVars
  <2>2. CASE xphase = "urls"
    <3>1. LoseDb
      BY <1>12, <2>2 DEF KillMergeDB
    <3>2. PICK kept \in SUBSET URLs :
             docdb' = [u \in URLs |-> IF u \in kept THEN docdb[u] ELSE disk[u]]
      BY <3>1 DEF LoseDb
    <3>3. disk' = docdb' /\ \A u \in URLs : Origin(u, docdb'[u])
      BY <3>1, <3>2 DEF LoseDb, OriginInv
    <3> QED
      BY <1>3, <2>1, <3>3 DEF OriginInv
  <2>3. CASE xphase # "urls"
    <3>1. UNCHANGED <<docdb, disk>>
      BY <1>12, <2>3 DEF KillMergeDB
    <3> QED
      BY <1>3, <2>1, <2>3, <3>1 DEF OriginInv
  <2> QED
    BY <2>2, <2>3
<1>13. CASE MergeOn
  <2>1. MergeWork /\ UNCHANGED <<xphase, xmarks>> /\ xphase = "off"
    BY <1>13 DEF MergeOn, MergeWork, BeginWords, MergeWords, LinkList, UnlinkNew,
       BeginDocs, ConvertURL, EndMerge, PhaseInv, Invs
  <2>2. docdb' = docdb /\ docdb = disk
    BY <2>1, NoneDropped DEF OriginInv
  <2>3. disk' \in {disk, docdb} /\ marks' \subseteq marks /\ nextOnDisk' = nextOnDisk
    BY <2>1 DEF MergeWork, BeginWords, MergeWords, LinkList, UnlinkNew,
       BeginDocs, ConvertURL, EndMerge, fileVars
  <2>4. discard' \subseteq Lost
    <3>1. Discarded \subseteq Lost
      BY DEF Discarded, Lost, OriginInv
    <3>2. discard' \in {discard, {}, Discarded}
      BY <2>1 DEF MergeWork, BeginWords, MergeWords, LinkList, UnlinkNew,
         BeginDocs, ConvertURL, EndMerge, Exit
    <3> QED
      BY <3>1, <3>2 DEF OriginInv
  <2> QED
    BY <1>3, <2>1, <2>2, <2>3, <2>4 DEF OriginInv
<1>14. CASE UNCHANGED allVars
  BY <1>2, <1>14 DEF allVars, fileVars, mergeVars, crossVars, OriginInv
<1> QED
  BY <1>4, <1>5, <1>6, <1>7, <1>8, <1>9, <1>10, <1>11, <1>12, <1>13, <1>14 DEF MergeDBNext

(* The texts of the own documents that were not replaced are in the list.  *)
OwnTexts(db, lines) ==
    \A u \in URLs : original.db[u] # NoDoc /\ db[u] = original.db[u] =>
        \E w \in lines : w.id = db[u].id /\ w.text = PageText(u, db[u].time)

(* Of the URLs that were merged, those not taken from the other database   *)
(* are known by their IDs in mergeDups, and the IDs in dbDups are of own   *)
(* documents that were replaced. *)
TakenInv ==
    /\ xphase \in {"own", "other"} => xleft = {}
    /\ xphase \in {"urls", "own"} =>
          \A u \in Stored : docdb[u] = original.db[u] => docdb[u].id \notin dbDups
    /\ xphase \in {"urls", "own", "other"} =>
          \A u \in OtherURLs :
             /\ other.db[u].id \in mergeDups => u \notin xleft /\ docdb[u] = original.db[u]
             /\ u \in xleft \/ docdb[u] = At(u, offset) \/ other.db[u].id \in mergeDups

NewestInv ==
    /\ xphase = "urls" => \A u \in URLs \ xleft : IsNewest(u, docdb[u])
    /\ xphase \in {"own", "other", "unlink", "link"} \/ mphase # "down" \/ served =>
          \A u \in URLs : IsNewest(u, docdb[u])

TextInv ==
    /\ listed => OwnTexts(docdb, words) /\ OwnTexts(disk, words)
    /\ xphase = "other" => OwnTexts(docdb, xwords)
    /\ xphase \in {"unlink", "link"} => HasTexts(docdb, xwords)
    /\ mphase = "words" \/ (mphase = "begin" /\ "words" \in job) =>
          listed /\ HasTexts(docdb, words)
    /\ mphase \in {"unlinked", "linked"} => HasTexts(docdb, newList)
    /\ MergedWords \/ served => HasTexts(docdb, wordDb)

InIndex(u) == \E e \in docIndex : e.url = u /\ e.id = docdb[u].id

EntriesInv ==
    /\ mphase = "docs" => \A u \in Stored \ left : InIndex(u)
    /\ served => \A u \in Stored : InIndex(u)

FoundInv == TakenInv /\ NewestInv /\ TextInv /\ EntriesInv

(* What was shown so far. *)
KnownInvs == Invs /\ WordsFit /\ WholeInv /\ OriginInv

(* Nothing is found yet. *)
LEMMA InitFound ==
    ASSUME WholeBefore, MergeDBInit
    PROVE  FoundInv
<1>1. /\ mphase = "down" /\ xphase = "off" /\ served = FALSE
      /\ docdb = original.db /\ disk = original.db /\ words = original.words
      /\ HasTexts(original.db, original.words)
  BY DEF WholeBefore, Whole, MergeDBInit, MergeInit
<1>2. OwnTexts(docdb, words)
  BY <1>1 DEF HasTexts, OwnTexts
<1> QED
  BY <1>1, <1>2 DEF FoundInv, TakenInv, NewestInv, TextInv, EntriesInv, MergedWords

(* What is not in the list of documents to be replaced stays an own one.   *)
LEMMA TakenURL ==
    ASSUME KnownInvs, TakenInv, NEW u \in URLs, MergeURL(u)
    PROVE  TakenInv'
<1>1. /\ xphase = "urls" /\ xphase' = "urls" /\ offset = nextOnDisk
      /\ UNCHANGED <<other, original, offset>> /\ u \in OtherURLs /\ u \in xleft
      /\ xleft' = xleft \ {u}
  BY DEF MergeURL, KnownInvs, Invs, PhaseInv, OtherInv
<1>2. /\ \A v \in URLs : v # u => docdb'[v] = docdb[v]
      /\ \/ mergeDups' = mergeDups \cup {other.db[u].id} /\ docdb' = docdb /\ KeepsOwn(u)
            /\ dbDups' = dbDups
         \/ mergeDups' = mergeDups /\ docdb'[u] = At(u, offset)
            /\ dbDups' = IF docdb[u] = NoDoc THEN dbDups ELSE dbDups \cup {docdb[u].id}
  BY <1>1 DEF MergeURL, Moved, At, KnownInvs, Invs, MergeDBTypeOK, FilesTypeOK
<1>3. ASSUME NEW v \in URLs, docdb'[v] # NoDoc, docdb'[v] = original.db[v]
      PROVE  docdb'[v].id \notin dbDups'
  <2>1. CASE docdb' = docdb /\ dbDups' = dbDups
    BY <1>1, <1>3, <2>1 DEF TakenInv, Stored
  <2>2. CASE docdb'[u] = At(u, offset)
            /\ dbDups' = IF docdb[u] = NoDoc THEN dbDups ELSE dbDups \cup {docdb[u].id}
    <3>1. v # u
      <4>1. /\ At(u, offset).id = other.db[u].id + offset /\ other.db[u].id \in Nat
            /\ offset \in Nat /\ original.next \in Nat /\ original.next <= offset
        BY <1>1, AtIs DEF KnownInvs, Invs, MergeDBTypeOK, FilesTypeOK, OtherURLs, WholeInv,
           Databases, OriginInv
      <4>2. original.db[v].id < original.next /\ original.db[v].id \in Nat
        BY <1>3 DEF KnownInvs, WholeInv, Databases, Doc
      <4> QED
        BY <1>3, <2>2, <4>1, <4>2
    <3>2. docdb'[v] = docdb[v] /\ v \in Stored
      BY <1>2, <1>3, <3>1 DEF Stored
    <3>3. docdb[v].id \notin dbDups
      BY <1>1, <1>3, <3>2 DEF TakenInv
    <3>4. docdb[u] # NoDoc => docdb[v].id # docdb[u].id
      <4>1. Apart(docdb)
        BY MixedApart DEF IDsInv, KnownInvs, Invs
      <4> QED
        BY <3>1, <3>2, <4>1 DEF Apart, Stored
    <3> QED
      BY <2>2, <3>2, <3>3, <3>4
  <2> QED
    BY <1>2, <2>1, <2>2
<1>4. ASSUME NEW v \in OtherURLs
      PROVE  /\ other.db[v].id \in mergeDups' => v \notin xleft' /\ docdb'[v] = original.db[v]
             /\ v \in xleft' \/ docdb'[v] = At(v, offset) \/ other.db[v].id \in mergeDups'
  <2>1. /\ other.db[v].id \in mergeDups => v \notin xleft /\ docdb[v] = original.db[v]
        /\ v \in xleft \/ docdb[v] = At(v, offset) \/ other.db[v].id \in mergeDups
    BY <1>1 DEF TakenInv
  <2>2. CASE v # u
    <3>1. other.db[v].id # other.db[u].id
      BY <1>1, <2>2 DEF KnownInvs, Invs, OtherInv, Apart, OtherURLs
    <3>2. v \in URLs
      BY DEF OtherURLs
    <3> QED
      BY <1>1, <1>2, <2>1, <2>2, <3>1, <3>2
  <2>3. CASE v = u
    <3>1. other.db[u].id \notin mergeDups
      BY <1>1, <2>1, <2>3
    <3>2. CASE mergeDups' = mergeDups /\ docdb'[u] = At(u, offset)
      BY <1>1, <2>3, <3>1, <3>2
    <3>3. CASE mergeDups' = mergeDups \cup {other.db[u].id} /\ docdb' = docdb /\ KeepsOwn(u)
      <4>1. docdb[u] = original.db[u] \/ Replaced(u, docdb[u])
        BY DEF KnownInvs, OriginInv, Origin
      <4>2. ASSUME Replaced(u, docdb[u]) PROVE FALSE
        <5>1. PICK n \in Nat : docdb[u] = At(u, n)
          BY <4>2 DEF Replaced
        <5>2. docdb[u].time = other.db[u].time /\ other.db[u].time \in Nat
          BY <1>1, <5>1, AtIs DEF OtherURLs, KnownInvs, Invs
        <5> QED
          BY <3>3, <5>2 DEF KeepsOwn
      <4> QED
        BY <1>1, <2>3, <3>3, <4>1, <4>2
    <3> QED
      BY <1>2, <3>2, <3>3
  <2> QED
    BY <2>2, <2>3
<1>5. \A v \in Stored' : docdb'[v] = original'.db[v] => docdb'[v].id \notin dbDups'
  BY <1>1, <1>3 DEF Stored
<1>6. \A v \in OtherURLs' :
         /\ other'.db[v].id \in mergeDups' => v \notin xleft' /\ docdb'[v] = original'.db[v]
         /\ v \in xleft' \/ docdb'[v] = At(v, offset)' \/ other'.db[v].id \in mergeDups'
  BY <1>1, <1>4 DEF OtherURLs, At
<1> QED
  BY <1>1, <1>5, <1>6 DEF TakenInv

(* The other steps go through the documents as they were merged.           *)
LEMMA TakenStep ==
    ASSUME KnownInvs, TakenInv, [MergeDBNext]_allVars
    PROVE  TakenInv'
<1>0. UNCHANGED original /\ other'.db = other.db
  BY WholeStep DEF KnownInvs
<1>1. CASE StartMergeDB
  BY <1>1 DEF StartMergeDB, TakenInv, fileVars, OtherURLs, At
<1>2. CASE \E u \in URLs : MergeURL(u)
  BY <1>2, TakenURL
<1>3. CASE CloseBoth
  <2>1. /\ xphase = "urls" /\ xphase' = "own" /\ xleft = {} /\ xleft' = {}
        /\ UNCHANGED <<docdb, offset, dbDups, mergeDups>>
    BY <1>3 DEF CloseBoth
  <2> QED
    BY <1>0, <2>1 DEF TakenInv, OtherURLs, At, Stored
<1>4. CASE CopyOwn
  BY <1>0, <1>4 DEF CopyOwn, TakenInv, OtherURLs, At, Stored, fileVars
<1>5. CASE CopyOther \/ UnlinkOwn \/ LinkMerged \/ GiveUp \/ KillMergeDB
  BY <1>5 DEF CopyOther, UnlinkOwn, LinkMerged, GiveUp, KillMergeDB, TakenInv
<1>6. CASE MergeOn
  <2>1. xphase = "off" /\ xphase' = "off"
    BY <1>6 DEF MergeOn, MergeWork, BeginWords, MergeWords, LinkList, UnlinkNew,
       BeginDocs, ConvertURL, EndMerge, PhaseInv, KnownInvs, Invs
  <2> QED
    BY <2>1 DEF TakenInv
<1>7. CASE UNCHANGED allVars
  BY <1>7 DEF allVars, fileVars, crossVars, TakenInv, OtherURLs, At, Stored
<1> QED
  BY <1>1, <1>2, <1>3, <1>4, <1>5, <1>6, <1>7 DEF MergeDBNext

(* The more recent of two records is the one that is kept. *)
LEMMA NewestStep ==
    ASSUME KnownInvs, NewestInv, [MergeDBNext]_allVars
    PROVE  NewestInv'
<1>0. UNCHANGED original /\ other'.db = other.db
  BY WholeStep DEF KnownInvs
<1>1. ASSUME xphase # "off"
      PROVE  mphase = "down" /\ ~served
  BY <1>1 DEF KnownInvs, Invs, PhaseInv, WordsFit, ServedInv
<1>2. ASSUME NEW u \in URLs, u \notin OtherURLs, docdb[u] = original.db[u]
      PROVE  IsNewest(u, docdb[u])
  BY <1>2 DEF IsNewest, OtherURLs, KnownInvs, WholeInv, Databases, Doc
<1>3. CASE StartMergeDB
  <2>1. xphase' = "urls" /\ mphase' = "down" /\ ~served' /\ xleft' = OtherURLs /\ docdb' = docdb
    BY <1>3 DEF StartMergeDB, mergeVars, fileVars
  <2>2. ASSUME NEW u \in URLs \ OtherURLs PROVE IsNewest(u, docdb[u])
    <3>1. docdb[u] = original.db[u]
      BY <2>2 DEF KnownInvs, OriginInv, Origin, Replaced, OtherURLs
    <3> QED
      BY <1>2, <3>1
  <2> QED
    BY <1>0, <2>1, <2>2 DEF NewestInv, IsNewest
<1>4. CASE \E u \in URLs : MergeURL(u)
  <2>1. PICK u \in URLs : MergeURL(u)
    BY <1>4
  <2>2. /\ xphase = "urls" /\ xphase' = "urls" /\ mphase' = "down" /\ ~served'
        /\ xleft' = xleft \ {u} /\ u \in OtherURLs
        /\ \A v \in URLs : v # u => docdb'[v] = docdb[v]
    BY <1>1, <2>1 DEF MergeURL, mergeVars, KnownInvs, Invs, OtherInv, MergeDBTypeOK, FilesTypeOK
  <2>3. /\ Origin(u, docdb[u]) /\ other.db[u] # NoDoc /\ other.db[u].time \in Nat
        /\ other.db[u] \in Doc /\ NoDoc \notin Doc
    BY <2>2, AtIs, MergeDBAssumption
       DEF KnownInvs, OriginInv, OtherURLs, Invs, MergeDBTypeOK, Databases
  <2>4. IsNewest(u, docdb'[u])
    <3>1. CASE KeepsOwn(u)
      <4>1. docdb' = docdb /\ docdb[u] # NoDoc /\ docdb[u].time > other.db[u].time
        BY <2>1, <3>1 DEF MergeURL, KeepsOwn
      <4>2. docdb[u] \in Doc /\ docdb[u].time \in Nat
        BY <4>1 DEF KnownInvs, Invs, MergeDBTypeOK, FilesTypeOK, Doc
      <4>3. docdb[u] = original.db[u]
        <5>1. ASSUME NEW n \in Nat, docdb[u] = At(u, n) PROVE FALSE
          BY <2>2, <2>3, <4>1, <4>2, <5>1, AtIs DEF KnownInvs, Invs
        <5> QED
          BY <2>3, <5>1 DEF Origin, Replaced
      <4> QED
        BY <2>3, <4>1, <4>2, <4>3 DEF IsNewest
    <3>2. CASE ~KeepsOwn(u)
      <4>1. docdb'[u] = At(u, offset) /\ offset \in Nat
        BY <2>1, <3>2 DEF MergeURL, Moved, At, KnownInvs, Invs, MergeDBTypeOK, FilesTypeOK
      <4>2. At(u, offset) # NoDoc /\ At(u, offset).time = other.db[u].time
        BY <2>3, <4>1, AtIs DEF KnownInvs, Invs
      <4>3. Origin(u, docdb'[u])
        BY OriginStep, WholeStep, <2>1 DEF KnownInvs, OriginInv, MergeDBNext, Origin, Replaced, At
      <4>4. ASSUME original.db[u] # NoDoc PROVE original.db[u].time <= other.db[u].time
        <5>1. CASE docdb'[u] = original.db[u]
          BY <2>3, <4>1, <4>2, <5>1
        <5>2. CASE Replaced(u, docdb'[u])
          BY <4>4, <5>2 DEF Replaced
        <5> QED
          BY <4>3, <5>1, <5>2 DEF Origin
      <4> QED
        BY <2>3, <4>1, <4>2, <4>4 DEF IsNewest
    <3> QED
      BY <3>1, <3>2
  <2>5. \A v \in URLs \ xleft' : IsNewest(v, docdb'[v])
    BY <2>2, <2>4 DEF NewestInv
  <2> QED
    BY <1>0, <2>2, <2>5 DEF NewestInv, IsNewest
<1>5. CASE CloseBoth
  <2>1. /\ xphase = "urls" /\ xphase' = "own" /\ xleft = {} /\ docdb' = docdb
        /\ mphase' = "down" /\ ~served'
    BY <1>1, <1>5 DEF CloseBoth, mergeVars
  <2> QED
    BY <1>0, <2>1 DEF NewestInv, IsNewest
<1>6. CASE CopyOwn \/ CopyOther \/ UnlinkOwn \/ LinkMerged
  <2>1. xphase \in {"own", "other", "unlink", "link"} /\ xphase' # "urls" /\ docdb' = docdb
    BY <1>6 DEF CopyOwn, CopyOther, UnlinkOwn, LinkMerged, fileVars
  <2> QED
    BY <1>0, <2>1 DEF NewestInv, IsNewest
<1>7. CASE GiveUp \/ KillMergeDB
  <2>1. xphase' = "off" /\ mphase' = "down" /\ ~served'
    BY <1>1, <1>7 DEF GiveUp, KillMergeDB, mergeVars
  <2> QED
    BY <2>1 DEF NewestInv
<1>8. CASE MergeOn
  <2>1. mphase # "down" /\ xphase = "off" /\ xphase' = "off" /\ MergeWork
    BY <1>8 DEF MergeOn, MergeWork, BeginWords, MergeWords, LinkList, UnlinkNew,
       BeginDocs, ConvertURL, EndMerge, PhaseInv, KnownInvs, Invs
  <2>2. docdb' = docdb
    BY <2>1, NoneDropped DEF KnownInvs
  <2> QED
    BY <1>0, <2>1, <2>2 DEF NewestInv, IsNewest
<1>9. CASE UNCHANGED allVars
  BY <1>9 DEF allVars, fileVars, mergeVars, crossVars, NewestInv, IsNewest
<1> QED
  BY <1>3, <1>4, <1>5, <1>6, <1>7, <1>8, <1>9 DEF MergeDBNext

(* Of every document the text is in the new list: the own ones were copied *)
(* with the list, those that were taken have theirs from the other one. *)
LEMMA CopiedTexts ==
    ASSUME KnownInvs, TakenInv, xphase = "other", OwnTexts(docdb, xwords)
    PROVE  HasTexts(docdb, xwords \cup MovedWords)
<1> SUFFICES ASSUME NEW u \in URLs, docdb[u] # NoDoc
             PROVE  \E w \in xwords \cup MovedWords :
                       w.id = docdb[u].id /\ w.text = PageText(u, docdb[u].time)
  BY DEF HasTexts
<1>1. CASE docdb[u] = original.db[u]
  BY <1>1 DEF OwnTexts
<1>2. CASE docdb[u] # original.db[u]
  <2>1. other.db[u] # NoDoc /\ u \in OtherURLs
    BY <1>2 DEF KnownInvs, OriginInv, Origin, Replaced, OtherURLs
  <2>2. docdb[u] = At(u, offset) /\ other.db[u].id \notin mergeDups
    BY <1>2, <2>1 DEF TakenInv
  <2>3. offset \in Nat /\ other.words \in SUBSET WordLine
    BY DEF KnownInvs, Invs, MergeDBTypeOK, Databases
  <2>4. /\ docdb[u].id = other.db[u].id + offset /\ other.db[u].id \in Nat
        /\ docdb[u].time = other.db[u].time
    BY <2>1, <2>2, <2>3, AtIs DEF KnownInvs, Invs
  <2>5. PICK v \in other.words : v.id = other.db[u].id /\ v.text = PageText(u, other.db[u].time)
    BY <2>1 DEF KnownInvs, WholeInv, HasTexts
  <2>6. v \in WordLine
    BY <2>3
  <2>7. /\ [v EXCEPT !.id = v.id + offset].id = docdb[u].id
        /\ [v EXCEPT !.id = v.id + offset].text = PageText(u, docdb[u].time)
    BY <2>4, <2>5, <2>6 DEF WordLine
  <2>8. [v EXCEPT !.id = v.id + offset] \in MovedWords
    BY <2>2, <2>5 DEF MovedWords
  <2> QED
    BY <2>7, <2>8
<1> QED
  BY <1>1, <1>2

(* What htmerge discards is of no document. *)
LEMMA KeptTexts ==
    ASSUME KnownInvs, HasTexts(docdb, words)
    PROVE  HasTexts(docdb, Kept)
<1> SUFFICES ASSUME NEW u \in URLs, docdb[u] # NoDoc
             PROVE  \E w \in Kept : w.id = docdb[u].id /\ w.text = PageText(u, docdb[u].time)
  BY DEF HasTexts
<1>1. PICK w \in words : w.id = docdb[u].id /\ w.text = PageText(u, docdb[u].time)
  BY DEF HasTexts
<1>2. docdb[u].id \notin Lost
  BY NotLost DEF KnownInvs, Invs, OriginInv
<1>3. Discarded \subseteq Lost
  BY DEF Discarded, Lost, KnownInvs, OriginInv
<1>4. w \in Kept
  BY <1>1, <1>2, <1>3 DEF Kept
<1> QED
  BY <1>1, <1>4

(* The rest of htmerge keeps the texts. *)
LEMMA TextMergeOn ==
    ASSUME KnownInvs, TextInv, MergeOn
    PROVE  TextInv'
<1>1. /\ mphase # "down" /\ xphase = "off" /\ xphase' = "off" /\ MergeWork
      /\ served' = (mphase = "docs" /\ mphase' = "down") /\ UNCHANGED original
  BY DEF MergeOn, MergeWork, BeginWords, MergeWords, LinkList, UnlinkNew,
     BeginDocs, ConvertURL, EndMerge, PhaseInv, KnownInvs, Invs
<1>2. docdb' = docdb /\ disk = docdb /\ disk' = docdb
  <2>1. docdb' = docdb /\ disk = docdb
    BY <1>1, NoneDropped DEF KnownInvs, OriginInv
  <2>2. disk' \in {disk, docdb}
    BY <1>1 DEF MergeWork, BeginWords, MergeWords, LinkList, UnlinkNew,
       BeginDocs, ConvertURL, EndMerge, fileVars
  <2> QED
    BY <2>1, <2>2
<1>3. ASSUME listed' => OwnTexts(docdb, words')
      PROVE  listed' => OwnTexts(docdb, words)' /\ OwnTexts(disk, words)'
  BY <1>1, <1>2, <1>3 DEF OwnTexts
<1>4. ASSUME NEW lines, HasTexts(docdb, lines)
      PROVE  OwnTexts(docdb, lines) /\ HasTexts(docdb', lines)
  BY <1>2, <1>4 DEF OwnTexts, HasTexts
<1>5. CASE BeginWords
  <2>1. mphase = "begin" /\ "words" \in job /\ UNCHANGED <<words, listed>> /\ listed
          /\ HasTexts(docdb, words) /\ mphase' = "words"
    BY <1>5 DEF BeginWords, fileVars, TextInv
  <2> QED
    BY <1>1, <1>3, <1>4, <2>1 DEF TextInv, MergedWords
<1>6. CASE MergeWords
  <2>1. /\ mphase' = "unlinked" /\ ~listed' /\ newList' = Kept /\ wordDb' = Kept
        /\ HasTexts(docdb, Kept)
    BY <1>6, KeptTexts DEF MergeWords, TextInv
  <2> QED
    BY <1>1, <1>4, <2>1 DEF TextInv
<1>7. CASE LinkList
  <2>1. /\ mphase = "unlinked" /\ mphase' = "linked" /\ words' = newList
        /\ UNCHANGED <<newList, wordDb>>
    BY <1>7 DEF LinkList
  <2>2. HasTexts(docdb, newList) /\ HasTexts(docdb, wordDb)
    BY <2>1 DEF TextInv, MergedWords
  <2> QED
    BY <1>1, <1>3, <1>4, <2>1, <2>2 DEF TextInv
<1>8. CASE UnlinkNew
  <2>1. /\ mphase = "linked" /\ mphase' = "begin" /\ "words" \notin job'
        /\ UNCHANGED <<words, listed, wordDb>>
    BY <1>8 DEF UnlinkNew, fileVars
  <2>2. HasTexts(docdb, wordDb) /\ (listed' => OwnTexts(docdb, words'))
    BY <2>1 DEF TextInv, MergedWords
  <2> QED
    BY <1>1, <1>3, <1>4, <2>1, <2>2 DEF TextInv
<1>9. CASE BeginDocs
  <2>1. /\ mphase = "begin" /\ "words" \notin job /\ mphase' \in {"docs", "down"}
        /\ UNCHANGED <<words, listed, wordDb>>
    BY <1>9 DEF BeginDocs, fileVars, Exit
  <2>2. HasTexts(docdb, wordDb) /\ (listed' => OwnTexts(docdb, words'))
    BY <2>1 DEF TextInv, MergedWords
  <2> QED
    BY <1>1, <1>3, <1>4, <2>1, <2>2 DEF TextInv, MergedWords
<1>10. CASE \E u \in URLs : ConvertURL(u)
  <2>1. /\ mphase = "docs" /\ mphase' = "docs" /\ UNCHANGED <<words, listed, wordDb>>
    BY <1>10 DEF ConvertURL
  <2>2. HasTexts(docdb, wordDb) /\ (listed' => OwnTexts(docdb, words'))
    BY <2>1 DEF TextInv, MergedWords
  <2> QED
    BY <1>1, <1>3, <1>4, <2>1, <2>2 DEF TextInv
<1>11. CASE EndMerge
  <2>1. mphase' = "down" /\ UNCHANGED <<words, listed, wordDb>>
    BY <1>11 DEF EndMerge, Exit
  <2>2. listed' => OwnTexts(docdb, words')
    BY <2>1 DEF TextInv
  <2>3. mphase = "docs" => HasTexts(docdb, wordDb)
    BY DEF TextInv, MergedWords
  <2> QED
    BY <1>1, <1>3, <1>4, <2>1, <2>2, <2>3 DEF TextInv, MergedWords
<1> QED
  BY <1>1, <1>5, <1>6, <1>7, <1>8, <1>9, <1>10, <1>11 DEF MergeWork

(* So do the steps of mergeDB, also when it dies. *)
LEMMA TextStep ==
    ASSUME KnownInvs, TakenInv, TextInv, [MergeDBNext]_allVars
    PROVE  TextInv'
<1>0. UNCHANGED original
  BY WholeStep DEF KnownInvs
<1>1. ASSUME xphase # "off"
      PROVE  mphase = "down" /\ ~served
  BY <1>1 DEF KnownInvs, Invs, PhaseInv, WordsFit, ServedInv
<1>2. CASE StartMergeDB
  <2>1. /\ mphase' = "down" /\ xphase' = "urls" /\ ~served' /\ UNCHANGED fileVars
    BY <1>2 DEF StartMergeDB, mergeVars
  <2> QED
    BY <1>0, <2>1 DEF fileVars, TextInv, MergedWords, OwnTexts
<1>3. CASE \E u \in URLs : MergeURL(u)
  <2>1. PICK u \in URLs : MergeURL(u)
    BY <1>3
  <2>2. /\ xphase = "urls" /\ xphase' = "urls" /\ mphase' = "down" /\ ~served'
        /\ UNCHANGED <<disk, words, listed>> /\ u \in OtherURLs
        /\ \A v \in URLs : docdb'[v] = docdb[v] \/ (v = u /\ docdb'[v] = At(u, offset))
    BY <1>1, <2>1 DEF MergeURL, mergeVars, KnownInvs, Invs, OtherInv, MergeDBTypeOK, FilesTypeOK,
       Moved, At
  <2>3. ASSUME At(u, offset) = original.db[u], original.db[u] # NoDoc PROVE FALSE
    <3>1. /\ At(u, offset).id = other.db[u].id + offset /\ other.db[u].id \in Nat
          /\ offset \in Nat /\ original.next \in Nat /\ original.next <= offset
      BY <2>2, AtIs DEF KnownInvs, Invs, PhaseInv, MergeDBTypeOK, FilesTypeOK, OtherURLs, WholeInv,
         Databases, OriginInv
    <3>2. original.db[u].id < original.next /\ original.db[u].id \in Nat
      BY <2>3 DEF KnownInvs, WholeInv, Databases, Doc
    <3> QED
      BY <2>3, <3>1, <3>2
  <2>4. ASSUME OwnTexts(docdb, words), OwnTexts(disk, words)
        PROVE  OwnTexts(docdb', words') /\ OwnTexts(disk', words')
    BY <2>2, <2>3, <2>4 DEF OwnTexts
  <2> QED
    BY <1>0, <2>2, <2>4 DEF TextInv, MergedWords, OwnTexts
<1>4. CASE CloseBoth
  <2>1. /\ xphase' = "own" /\ mphase' = "down" /\ ~served'
        /\ docdb' = docdb /\ disk' = docdb /\ UNCHANGED <<words, listed>>
    BY <1>1, <1>4 DEF CloseBoth, mergeVars
  <2> QED
    BY <1>0, <2>1 DEF TextInv, MergedWords, OwnTexts
<1>5. CASE CopyOwn
  <2>1. /\ xphase = "own" /\ xphase' = "other" /\ mphase' = "down" /\ ~served' /\ listed
        /\ UNCHANGED fileVars /\ xwords' = {w \in words : w.id \notin dbDups}
    BY <1>1, <1>5 DEF CopyOwn, mergeVars
  <2>2. OwnTexts(docdb, xwords')
    <3> SUFFICES ASSUME NEW u \in URLs, original.db[u] # NoDoc, docdb[u] = original.db[u]
                 PROVE  \E w \in xwords' : w.id = docdb[u].id /\ w.text = PageText(u, docdb[u].time)
      BY DEF OwnTexts
    <3>1. PICK w \in words : w.id = docdb[u].id /\ w.text = PageText(u, docdb[u].time)
      BY <2>1 DEF TextInv, OwnTexts
    <3>2. docdb[u].id \notin dbDups
      BY <2>1 DEF TakenInv, Stored
    <3> QED
      BY <2>1, <3>1, <3>2
  <2> QED
    BY <1>0, <2>1, <2>2 DEF TextInv, MergedWords, OwnTexts, fileVars
<1>6. CASE CopyOther
  <2>1. /\ xphase = "other" /\ xphase' = "unlink" /\ mphase' = "down" /\ ~served'
        /\ UNCHANGED fileVars /\ xwords' = xwords \cup MovedWords
    BY <1>1, <1>6 DEF CopyOther, mergeVars, MovedWords
  <2>2. HasTexts(docdb, xwords')
    BY <2>1, CopiedTexts DEF TextInv
  <2> QED
    BY <1>0, <2>1, <2>2 DEF TextInv, MergedWords, OwnTexts, HasTexts, fileVars
<1>7. CASE UnlinkOwn
  <2>1. /\ xphase = "unlink" /\ xphase' = "link" /\ mphase' = "down" /\ ~served' /\ ~listed'
        /\ UNCHANGED <<docdb, xwords>>
    BY <1>1, <1>7 DEF UnlinkOwn, mergeVars
  <2> QED
    BY <2>1 DEF TextInv, MergedWords, HasTexts
<1>8. CASE LinkMerged
  <2>1. /\ xphase = "link" /\ xphase' = "off" /\ mphase' = "begin" /\ "words" \in job'
        /\ ~served' /\ listed' /\ UNCHANGED <<docdb, disk>> /\ words' = xwords
    BY <1>1, <1>8 DEF LinkMerged
  <2>2. HasTexts(docdb, xwords) /\ docdb = disk
    BY <2>1 DEF TextInv, KnownInvs, OriginInv
  <2>3. OwnTexts(docdb, words)' /\ OwnTexts(disk, words)'
    BY <1>0, <2>1, <2>2 DEF HasTexts, OwnTexts
  <2> QED
    BY <2>1, <2>2, <2>3 DEF TextInv, MergedWords, HasTexts
<1>9. CASE GiveUp
  <2>1. xphase' = "off" /\ mphase' = "down" /\ ~served' /\ UNCHANGED fileVars
    BY <1>1, <1>9 DEF GiveUp, mergeVars
  <2> QED
    BY <1>0, <2>1 DEF TextInv, MergedWords, OwnTexts, fileVars
<1>10. CASE KillMergeDB
  <2>1. xphase' = "off" /\ mphase' = "down" /\ ~served' /\ UNCHANGED <<words, listed>>
    BY <1>1, <1>10 DEF KillMergeDB, mergeVars
  <2>2. ASSUME OwnTexts(docdb, words), OwnTexts(disk, words)
        PROVE  OwnTexts(docdb', words) /\ OwnTexts(disk', words)
    <3>1. CASE xphase = "urls"
      <4>1. PICK kept \in SUBSET URLs :
               docdb' = [u \in URLs |-> IF u \in kept THEN docdb[u] ELSE disk[u]]
        BY <1>10, <3>1 DEF KillMergeDB, LoseDb
      <4>2. disk' = docdb' /\ \A u \in URLs : docdb'[u] \in {docdb[u], disk[u]}
        BY <1>10, <3>1, <4>1 DEF KillMergeDB, LoseDb
      <4> QED
        BY <2>2, <4>2 DEF OwnTexts
    <3>2. CASE xphase # "urls"
      BY <1>10, <2>2, <3>2 DEF KillMergeDB
    <3> QED
      BY <3>1, <3>2
  <2> QED
    BY <1>0, <2>1, <2>2 DEF TextInv, MergedWords, OwnTexts
<1>11. CASE MergeOn
  BY <1>11, TextMergeOn
<1>12. CASE UNCHANGED allVars
  BY <1>0, <1>12 DEF allVars, fileVars, mergeVars, crossVars, TextInv, MergedWords,
     OwnTexts, HasTexts
<1> QED
  BY <1>2, <1>3, <1>4, <1>5, <1>6, <1>7, <1>8, <1>9, <1>10, <1>11, <1>12 DEF MergeDBNext

(* Every document gets its entry, and loses it to no other one. *)
LEMMA EntriesStep ==
    ASSUME KnownInvs, EntriesInv, [MergeDBNext]_allVars
    PROVE  EntriesInv'
<1>1. ASSUME xphase # "off"
      PROVE  mphase = "down" /\ ~served
  BY <1>1 DEF KnownInvs, Invs, PhaseInv, WordsFit, ServedInv
<1>2. CASE MergeOn
  <2>1. /\ mphase # "down" /\ MergeWork /\ served' = (mphase = "docs" /\ mphase' = "down")
    BY <1>2 DEF MergeOn, MergeWork, BeginWords, MergeWords, LinkList, UnlinkNew,
       BeginDocs, ConvertURL, EndMerge
  <2>2. docdb' = docdb
    BY <2>1, NoneDropped DEF KnownInvs
  <2>3. CASE BeginWords \/ MergeWords \/ LinkList \/ UnlinkNew
    <3>1. mphase # "docs" /\ mphase' # "docs"
      BY <2>3 DEF BeginWords, MergeWords, LinkList, UnlinkNew, Exit
    <3> QED
      BY <2>1, <3>1 DEF EntriesInv
  <2>4. CASE BeginDocs
    <3>1. mphase # "docs" /\ (mphase' = "docs" => left' = Stored)
      BY <2>4 DEF BeginDocs, Exit
    <3> QED
      BY <2>1, <2>2, <3>1 DEF EntriesInv, Stored
  <2>5. CASE \E u \in URLs : ConvertURL(u)
    <3>1. PICK u \in URLs : ConvertURL(u)
      BY <2>5
    <3>2. /\ mphase = "docs" /\ mphase' = "docs" /\ u \in left /\ u \in Stored
          /\ left' = left \ {u} /\ ~Drops(u)
          /\ docIndex' = {e \in docIndex : e.id # docdb[u].id}
                              \cup {[id |-> docdb[u].id, url |-> u]}
      BY <2>1, <3>1, NoneDropped DEF ConvertURL, KnownInvs, Invs, IndexInv
    <3>3. ASSUME NEW v \in Stored, v \notin left \ {u}
          PROVE  \E e \in docIndex' : e.url = v /\ e.id = docdb[v].id
      <4>1. CASE v = u
        <5>1. [id |-> docdb[u].id, url |-> u] \in docIndex'
          BY <3>2
        <5> QED
          BY <4>1, <5>1
      <4>2. CASE v # u
        <5>1. PICK e \in docIndex : e.url = v /\ e.id = docdb[v].id
          BY <3>2, <3>3, <4>2 DEF EntriesInv, InIndex
        <5>2. Apart(docdb)
          BY MixedApart DEF IDsInv, KnownInvs, Invs
        <5>3. e.id # docdb[u].id
          BY <3>2, <4>2, <5>1, <5>2 DEF Apart, Stored
        <5> QED
          BY <3>2, <5>1, <5>3
      <4> QED
        BY <4>1, <4>2
    <3> QED
      BY <2>1, <2>2, <3>2, <3>3, ZenonT(30) DEF EntriesInv, InIndex, Stored
  <2>6. CASE EndMerge
    <3>1. mphase' = "down" /\ docIndex' = docIndex /\ (mphase = "docs" => left = {})
      BY <2>6 DEF EndMerge, Exit
    <3> QED
      BY <2>1, <2>2, <3>1 DEF EntriesInv, InIndex, Stored
  <2> QED
    BY <2>1, <2>3, <2>4, <2>5, <2>6 DEF MergeWork
<1>3. CASE UNCHANGED allVars
  BY <1>3 DEF allVars, fileVars, mergeVars, crossVars, EntriesInv, InIndex, Stored
<1>4. CASE StartMergeDB
  BY <1>4 DEF StartMergeDB, mergeVars, EntriesInv
<1>5. CASE LinkMerged
  BY <1>1, <1>5 DEF LinkMerged, EntriesInv
<1>6. CASE (\E u \in URLs : MergeURL(u)) \/ CloseBoth \/ CopyOwn \/ CopyOther \/ UnlinkOwn
              \/ GiveUp \/ KillMergeDB
  BY <1>1, <1>6 DEF MergeURL, CloseBoth, CopyOwn, CopyOther, UnlinkOwn, GiveUp, KillMergeDB,
     mergeVars, EntriesInv
<1> QED
  BY <1>2, <1>3, <1>4, <1>5, <1>6 DEF MergeDBNext

(* No document has two lines, unless a merge died: it has then replaced    *)
(* documents and forgotten whose lines are to be left out. *)
SingleInv ==
    /\ xphase = "off" => OneLineEach(docdb, words, marks)
    /\ xphase \in {"urls", "own"} =>
          \A v \in words : \/ v.id \in dbDups \/ [mark |-> "!", id |-> v.id] \in marks
                           \/ OnlyLine(docdb, words, v)
    /\ xphase \in {"other", "unlink", "link"} => OneLineEach(docdb, xwords, xmarks)
    /\ mphase \in {"unlinked", "linked"} => OneLineEach(docdb, newList, {})
    /\ MergedWords \/ served => OneLineEach(docdb, wordDb, {})

ListedInv == ~listed => words = {}

(* At first every line is of a document of its own. *)
LEMMA InitSingle ==
    ASSUME WholeBefore, MergeDBInit
    PROVE  SingleInv /\ ListedInv
<1>1. /\ mphase = "down" /\ xphase = "off" /\ served = FALSE /\ listed = TRUE
      /\ docdb = original.db /\ words = original.words /\ marks = original.marks
      /\ OneLineEach(original.db, original.words, original.marks)
  BY DEF WholeBefore, Whole, MergeDBInit, MergeInit
<1> QED
  BY <1>1 DEF SingleInv, ListedInv, MergedWords

(* Without a file there are no lines. *)
LEMMA ListedStep ==
    ASSUME KnownInvs, ListedInv, [MergeDBNext]_allVars
    PROVE  ListedInv'
<1>1. CASE MergeOn
  <2>1. CASE BeginWords \/ UnlinkNew \/ BeginDocs \/ EndMerge \/ \E u \in URLs : ConvertURL(u)
    BY <2>1 DEF BeginWords, UnlinkNew, BeginDocs, EndMerge, ConvertURL, fileVars, ListedInv
  <2>2. CASE MergeWords \/ LinkList
    BY <2>2 DEF MergeWords, LinkList, ListedInv
  <2> QED
    BY <1>1, <2>1, <2>2 DEF MergeOn, MergeWork
<1>2. CASE UNCHANGED allVars
  BY <1>2 DEF allVars, fileVars, ListedInv
<1>3. CASE UnlinkOwn \/ LinkMerged
  BY <1>3 DEF UnlinkOwn, LinkMerged, ListedInv
<1>4. CASE StartMergeDB \/ (\E u \in URLs : MergeURL(u)) \/ CloseBoth \/ CopyOwn \/ CopyOther
              \/ GiveUp \/ KillMergeDB
  BY <1>4 DEF StartMergeDB, MergeURL, CloseBoth, CopyOwn, CopyOther, GiveUp, KillMergeDB,
     fileVars, ListedInv
<1> QED
  BY <1>1, <1>2, <1>3, <1>4 DEF MergeDBNext

(* The lines of the two lists have no ID in common, and each of the other  *)
(* one is of the document that was taken. *)
LEMMA CopiedSingly ==
    ASSUME KnownInvs, TakenInv, xphase = "other", OneLineEach(docdb, xwords, xmarks), NEW more
    PROVE  OneLineEach(docdb, xwords \cup MovedWords, xmarks \cup more)
<1>1. /\ offset \in Nat /\ other.words \in SUBSET WordLine /\ xwords \in SUBSET WordLine
      /\ \A w \in xwords : w.id < offset
  BY DEF KnownInvs, Invs, MergeDBTypeOK, Databases, WordsFit, MovedInv
<1>2. ASSUME NEW w \in MovedWords
      PROVE  \E k \in other.words : /\ k.id \notin mergeDups /\ w = [k EXCEPT !.id = k.id + offset]
                                    /\ w.id = k.id + offset /\ w.url = k.url
                                    /\ k.id \in Nat /\ k.url \in URLs
  <2>1. PICK k \in other.words : k.id \notin mergeDups /\ w = [k EXCEPT !.id = k.id + offset]
    BY <1>2 DEF MovedWords
  <2>2. k \in WordLine
    BY <1>1
  <2>3. w.id = k.id + offset /\ w.url = k.url /\ k.id \in Nat /\ k.url \in URLs
    BY <2>1, <2>2 DEF WordLine
  <2> QED
    BY <2>1, <2>3
<1>3. ASSUME NEW v \in xwords, NEW w \in MovedWords PROVE v.id # w.id
  <2>1. PICK k \in other.words : w.id = k.id + offset /\ k.id \in Nat
    BY <1>2
  <2>2. v.id \in Nat /\ v.id < offset
    BY <1>1 DEF WordLine
  <2> QED
    BY <1>1, <2>1, <2>2
<1>4. ASSUME NEW v \in xwords, [mark |-> "!", id |-> v.id] \notin xmarks
      PROVE  OnlyLine(docdb, xwords \cup MovedWords, v)
  <2>1. OnlyLine(docdb, xwords, v)
    BY <1>4 DEF OneLineEach
  <2> QED
    BY <1>3, <2>1 DEF OnlyLine
<1>5. ASSUME NEW v \in MovedWords
      PROVE  OnlyLine(docdb, xwords \cup MovedWords, v)
  <2>1. PICK k \in other.words : /\ k.id \notin mergeDups /\ v = [k EXCEPT !.id = k.id + offset]
                                 /\ v.id = k.id + offset /\ v.url = k.url
                                 /\ k.id \in Nat /\ k.url \in URLs
    BY <1>2
  <2>2. OnlyLine(other.db, other.words, k)
    BY DEF KnownInvs, WholeInv, OneLineEach
  <2>3. other.db[k.url] # NoDoc /\ other.db[k.url].id = k.id /\ k.url \in OtherURLs
    BY <2>1, <2>2 DEF OnlyLine, OtherURLs
  <2>4. docdb[k.url] = At(k.url, offset)
    BY <2>1, <2>3 DEF TakenInv
  <2>5. docdb[v.url] # NoDoc /\ docdb[v.url].id = v.id
    BY <1>1, <2>1, <2>3, <2>4, AtIs DEF KnownInvs, Invs
  <2>6. ASSUME NEW w \in MovedWords, w.id = v.id PROVE w = v
    <3>1. PICK j \in other.words : /\ w = [j EXCEPT !.id = j.id + offset]
                                   /\ w.id = j.id + offset /\ j.id \in Nat
      BY <1>2
    <3>2. j.id = k.id
      BY <1>1, <2>1, <2>6, <3>1
    <3>3. j = k
      BY <2>2, <3>2 DEF OnlyLine
    <3> QED
      BY <2>1, <3>1, <3>3
  <2> QED
    BY <1>3, <2>5, <2>6 DEF OnlyLine
<1> QED
  BY <1>4, <1>5 DEF OneLineEach

(* The rest of htmerge leaves lines out, and copies none twice. *)
LEMMA SingleMergeOn ==
    ASSUME KnownInvs, SingleInv, MergeOn
    PROVE  SingleInv'
<1>1. /\ mphase # "down" /\ xphase = "off" /\ xphase' = "off" /\ MergeWork
      /\ served' = (mphase = "docs" /\ mphase' = "down")
  BY DEF MergeOn, MergeWork, BeginWords, MergeWords, LinkList, UnlinkNew,
     BeginDocs, ConvertURL, EndMerge, PhaseInv, KnownInvs, Invs
<1>2. docdb' = docdb
  BY <1>1, NoneDropped DEF KnownInvs
<1>3. OneLineEach(docdb, words, marks)
  BY <1>1 DEF SingleInv
<1>4. ASSUME UNCHANGED <<words, marks>>
      PROVE  OneLineEach(docdb, words, marks)'
  BY <1>2, <1>3, <1>4 DEF OneLineEach, OnlyLine
<1>5. CASE BeginWords
  <2>1. UNCHANGED <<words, marks>> /\ mphase' \in {"words", "down"} /\ mphase = "begin"
    BY <1>5 DEF BeginWords, fileVars, Exit
  <2> QED
    BY <1>1, <1>4, <2>1 DEF SingleInv, MergedWords
<1>6. CASE MergeWords
  <2>1. OneLineEach(docdb, Kept, {})
    <3>1. \A w \in Kept : w \in words /\ w.id \notin Discarded
      BY DEF Kept
    <3>2. \A w \in Kept : [mark |-> "!", id |-> w.id] \notin marks
      BY <3>1 DEF Discarded
    <3> QED
      BY <1>3, <3>1, <3>2 DEF OneLineEach, OnlyLine
  <2>2. newList' = Kept /\ wordDb' = Kept /\ words' = {} /\ mphase' = "unlinked"
    BY <1>6 DEF MergeWords
  <2> QED
    BY <1>1, <1>2, <2>1, <2>2 DEF SingleInv, OneLineEach, OnlyLine
<1>7. CASE LinkList
  <2>1. /\ mphase = "unlinked" /\ mphase' = "linked" /\ words' = newList
        /\ UNCHANGED <<newList, wordDb>>
    BY <1>7 DEF LinkList
  <2>2. OneLineEach(docdb, newList, {}) /\ OneLineEach(docdb, wordDb, {})
    BY <2>1 DEF SingleInv, MergedWords
  <2> QED
    BY <1>1, <1>2, <2>1, <2>2 DEF SingleInv, OneLineEach, OnlyLine
<1>8. CASE UnlinkNew \/ BeginDocs \/ \E u \in URLs : ConvertURL(u)
  <2>1. /\ MergedWords /\ mphase' \in {"begin", "docs", "down"}
        /\ UNCHANGED <<words, marks, wordDb>>
    BY <1>8 DEF UnlinkNew, BeginDocs, ConvertURL, MergedWords, fileVars, Exit
  <2>2. OneLineEach(docdb, wordDb, {})
    BY <2>1 DEF SingleInv
  <2>3. OneLineEach(docdb, wordDb, {})'
    BY <1>2, <2>1, <2>2 DEF OneLineEach, OnlyLine
  <2> QED
    BY <1>1, <1>4, <2>1, <2>3 DEF SingleInv
<1>9. CASE EndMerge
  <2>1. mphase' = "down" /\ UNCHANGED <<words, marks, wordDb>>
    BY <1>9 DEF EndMerge, Exit
  <2>2. mphase = "docs" => OneLineEach(docdb, wordDb, {})
    BY DEF SingleInv, MergedWords
  <2>3. mphase = "docs" => OneLineEach(docdb, wordDb, {})'
    BY <1>2, <2>1, <2>2 DEF OneLineEach, OnlyLine
  <2> QED
    BY <1>1, <1>4, <2>1, <2>3 DEF SingleInv, MergedWords
<1> QED
  BY <1>1, <1>5, <1>6, <1>7, <1>8, <1>9 DEF MergeWork

(* So do the steps of mergeDB when it does not die. *)
LEMMA SingleStep ==
    ASSUME KnownInvs, TakenInv, ListedInv, SingleInv, ~KillMergeDB, [MergeDBNext]_allVars
    PROVE  SingleInv'
<1>1. ASSUME xphase # "off"
      PROVE  mphase = "down" /\ ~served
  BY <1>1 DEF KnownInvs, Invs, PhaseInv, WordsFit, ServedInv
<1>2. CASE StartMergeDB
  <2>1. /\ xphase = "off" /\ xphase' = "urls" /\ mphase' = "down" /\ ~served'
        /\ UNCHANGED <<docdb, words, marks>>
    BY <1>2 DEF StartMergeDB, mergeVars, fileVars
  <2> QED
    BY <2>1 DEF SingleInv, MergedWords, OneLineEach, OnlyLine
<1>3. CASE \E u \in URLs : MergeURL(u)
  <2>1. PICK u \in URLs : MergeURL(u)
    BY <1>3
  <2>2. /\ xphase = "urls" /\ xphase' = "urls" /\ mphase' = "down" /\ ~served'
        /\ UNCHANGED <<words, marks>>
        /\ words \in SUBSET WordLine
    BY <1>1, <2>1 DEF MergeURL, mergeVars, KnownInvs, Invs, MergeDBTypeOK, FilesTypeOK
  <2>3. /\ \A v \in URLs : v # u => docdb'[v] = docdb[v]
        /\ \/ docdb' = docdb /\ dbDups' = dbDups
           \/ dbDups' = IF docdb[u] = NoDoc THEN dbDups ELSE dbDups \cup {docdb[u].id}
    BY <2>1 DEF MergeURL, KnownInvs, Invs, MergeDBTypeOK, FilesTypeOK
  <2>4. ASSUME NEW v \in words
        PROVE  \/ v.id \in dbDups' \/ [mark |-> "!", id |-> v.id] \in marks
               \/ OnlyLine(docdb', words, v)
    <3>1. \/ v.id \in dbDups \/ [mark |-> "!", id |-> v.id] \in marks
          \/ OnlyLine(docdb, words, v)
      BY <2>2 DEF SingleInv
    <3>2. v.url \in URLs
      BY <2>2 DEF WordLine
    <3> QED
      BY <2>3, <3>1, <3>2 DEF OnlyLine
  <2> QED
    BY <2>2, <2>4 DEF SingleInv, MergedWords, OnlyLine
<1>4. CASE CloseBoth
  <2>1. /\ xphase = "urls" /\ xphase' = "own" /\ mphase' = "down" /\ ~served'
        /\ UNCHANGED <<docdb, words, marks, dbDups>>
    BY <1>1, <1>4 DEF CloseBoth, mergeVars
  <2> QED
    BY <2>1 DEF SingleInv, MergedWords, OnlyLine
<1>5. CASE CopyOwn
  <2>1. /\ xphase = "own" /\ xphase' = "other" /\ mphase' = "down" /\ ~served'
        /\ UNCHANGED <<docdb, words, marks>>
        /\ xwords' = {w \in words : w.id \notin dbDups} /\ xmarks' = marks
    BY <1>1, <1>5 DEF CopyOwn, mergeVars, fileVars
  <2> QED
    BY <2>1 DEF SingleInv, MergedWords, OneLineEach, OnlyLine
<1>6. CASE CopyOther
  <2>1. /\ xphase = "other" /\ xphase' = "unlink" /\ mphase' = "down" /\ ~served'
        /\ docdb' = docdb
        /\ xwords' = xwords \cup MovedWords /\ xmarks' = xmarks \cup other.marks
    BY <1>1, <1>6 DEF CopyOther, mergeVars, fileVars, MovedWords
  <2>2. OneLineEach(docdb, xwords', xmarks')
    BY <2>1, CopiedSingly DEF SingleInv
  <2> QED
    BY <2>1, <2>2 DEF SingleInv, MergedWords, OneLineEach, OnlyLine
<1>7. CASE UnlinkOwn
  <2>1. /\ xphase = "unlink" /\ xphase' = "link" /\ mphase' = "down" /\ ~served'
        /\ UNCHANGED <<docdb, xwords, xmarks>>
    BY <1>1, <1>7 DEF UnlinkOwn, mergeVars
  <2> QED
    BY <2>1 DEF SingleInv, MergedWords, OneLineEach, OnlyLine
<1>8. CASE LinkMerged
  <2>1. /\ xphase = "link" /\ xphase' = "off" /\ mphase' = "begin" /\ "words" \in job'
        /\ ~served' /\ docdb' = docdb /\ words' = xwords /\ marks' = xmarks
    BY <1>1, <1>8 DEF LinkMerged
  <2> QED
    BY <2>1 DEF SingleInv, MergedWords, OneLineEach, OnlyLine
<1>9. CASE GiveUp
  <2>1. /\ xphase' = "off" /\ mphase' = "down" /\ ~served' /\ words' = {}
    BY <1>1, <1>9 DEF GiveUp, mergeVars, fileVars, ListedInv
  <2> QED
    BY <2>1 DEF SingleInv, MergedWords, OneLineEach
<1>10. CASE MergeOn
  BY <1>10, SingleMergeOn
<1>11. CASE UNCHANGED allVars
  BY <1>11 DEF allVars, fileVars, mergeVars, crossVars, SingleInv, MergedWords,
     OneLineEach, OnlyLine
<1> QED
  BY <1>2, <1>3, <1>4, <1>5, <1>6, <1>7, <1>8, <1>9, <1>10, <1>11 DEF MergeDBNext

(* The versions of a URL that the two databases had. *)
Versions(u) == {d.time : d \in {original.db[u], other.db[u]} \ {NoDoc}}

(* What htmerge -m leaves has of every URL the more recent version. *)
LEMMA NewestServed ==
    ASSUME KnownInvs, FoundInv, dead = 0 => SingleInv
    PROVE  NewestFound
<1> SUFFICES ASSUME served, NEW u \in URLs, Versions(u) # {}
             PROVE  /\ \E e \in docIndex, p \in wordDb :
                          e.url = u /\ p.id = e.id /\ p.text.ver \in Versions(u)
                             /\ \A t \in Versions(u) : t <= p.text.ver
                    /\ dead = 0 => \A p, q \in wordDb : p.url = u /\ q.url = u => p = q
  BY DEF NewestFound, Versions
<1>1. IsNewest(u, docdb[u]) /\ HasTexts(docdb, wordDb) /\ \A v \in Stored : InIndex(v)
  BY DEF FoundInv, NewestInv, TextInv, EntriesInv
<1>2. docdb[u] # NoDoc /\ u \in Stored
  BY <1>1 DEF IsNewest, Stored, Versions
<1>3. PICK e \in docIndex : e.url = u /\ e.id = docdb[u].id
  BY <1>1, <1>2 DEF InIndex
<1>4. PICK p \in wordDb : p.id = docdb[u].id /\ p.text = PageText(u, docdb[u].time)
  BY <1>1, <1>2 DEF HasTexts
<1>5. p.text.ver = docdb[u].time
  BY <1>4 DEF PageText
<1>6. \A t \in Versions(u) : t <= docdb[u].time
  BY <1>1 DEF IsNewest, Versions
<1>7. docdb[u].time \in Versions(u)
  <2>1. CASE docdb[u] = original.db[u]
    BY <1>2, <2>1 DEF Versions
  <2>2. CASE Replaced(u, docdb[u])
    <3>1. other.db[u] # NoDoc /\ docdb[u].time = other.db[u].time
      BY <2>2, AtIs DEF Replaced, KnownInvs, Invs
    <3> QED
      BY <3>1 DEF Versions
  <2> QED
    BY <2>1, <2>2 DEF KnownInvs, OriginInv, Origin
<1>8. ASSUME dead = 0, NEW v \in wordDb, NEW w \in wordDb, v.url = u, w.url = u
      PROVE  v = w
  <2>1. OnlyLine(docdb, wordDb, v) /\ OnlyLine(docdb, wordDb, w)
    BY <1>8 DEF SingleInv, OneLineEach
  <2> QED
    BY <1>8, <2>1 DEF OnlyLine
<1> QED
  BY <1>3, <1>4, <1>5, <1>6, <1>7, <1>8

(* When the documents of the databases that are merged are all found, and  *)
(* the own list has no lines but theirs and those a marker gives up, the   *)
(* more recent version of every URL is found after htmerge -m, also when   *)
(* merges died before; and, if none did, no other version. *)
THEOREM NewestIsFound ==
    ASSUME WholeBefore
    PROVE  MergeDBSpec => []NewestFound
<1> DEFINE Singly == dead = 0 => SingleInv
<1> DEFINE Inv == WordsFit /\ WholeInv /\ OriginInv /\ FoundInv /\ ListedInv /\ Singly
<1>1. MergeDBInit => Inv
  <2>1. MergeDBInit => WordsFit
    BY InitFits
  <2> QED
    BY <2>1, InitWhole, InitFound, InitSingle
<1>2. Invs /\ Inv /\ [MergeDBNext]_allVars => Inv'
  <2> SUFFICES ASSUME Invs, Inv, [MergeDBNext]_allVars
               PROVE  Inv'
    OBVIOUS
  <2>1. KnownInvs
    BY DEF KnownInvs
  <2>2. WordsFit' /\ WholeInv' /\ OriginInv'
    BY FitsStep, WholeStep, OriginStep
  <2>3. FoundInv'
    BY <2>1, TakenStep, NewestStep, TextStep, EntriesStep DEF FoundInv
  <2>4. ListedInv'
    BY <2>1, ListedStep
  <2>5. Singly'
    <3> SUFFICES ASSUME dead' = 0 PROVE SingleInv'
      OBVIOUS
    <3>1. dead = 0 /\ ~KillMergeDB
      BY DEF MergeDBNext, StartMergeDB, MergeURL, CloseBoth, CopyOwn, CopyOther, UnlinkOwn,
         LinkMerged, GiveUp, KillMergeDB, MergeOn, allVars, crossVars, Invs, MergeDBTypeOK
    <3> QED
      BY <2>1, <3>1, SingleStep DEF FoundInv
  <2> QED
    BY <2>2, <2>3, <2>4, <2>5
<1>3. Invs /\ Inv => NewestFound
  BY NewestServed DEF KnownInvs
<1>4. MergeDBSpec => []Invs
  BY IDsInductive, TypesInductive, PTL DEF Invs
<1> QED
  BY <1>1, <1>2, <1>3, <1>4, PTL DEF MergeDBSpec

=============================================================================
