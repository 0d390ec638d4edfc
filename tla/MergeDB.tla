------------------------------ MODULE MergeDB ------------------------------
(***************************************************************************)
(* htmerge -m: mergeDB adds the documents and the word list of another set *)
(* of databases to the own ones, and the rest of htmerge makes the word    *)
(* database and the document index of the result.  Document IDs of the     *)
(* other set are moved beyond those of the own one.                        *)
(***************************************************************************)
EXTENDS Merge, Integers

CONSTANTS
    OwnStates,    \* the databases to start from: [db, next, words, marks]
    OtherStates,  \* the databases to be merged in
    MaxTries,     \* bound: how often htmerge -m is started
    MaxKills      \* bound: how often it dies

Databases == [db : [URLs -> Doc \cup {NoDoc}], next : Nat,
              words : SUBSET WordLine, marks : SUBSET Mark]

(* Databases as htdig and htmerge leave them when they are not killed: an  *)
(* ID belongs to one document and is below the next one, and the words     *)
(* filed under the ID of a document are for it, and its own ones from the  *)
(* version that is stored. *)
SoundDB(s) ==
    /\ s \in Databases
    /\ \A u, v \in URLs : s.db[u] # NoDoc /\ s.db[v] # NoDoc
                           /\ s.db[u].id = s.db[v].id => u = v
    /\ \A u \in URLs : s.db[u] # NoDoc => s.db[u].id < s.next
    /\ \A w \in s.words :
          /\ w.id < s.next
          /\ \A u \in URLs : s.db[u] # NoDoc /\ w.id = s.db[u].id =>
                w.url = u /\ (w.text.link \/ w.text = PageText(u, s.db[u].time))

ASSUME MergeDBAssumption ==
    /\ NoDoc \notin Doc
    /\ \A s \in OwnStates \cup OtherStates : SoundDB(s)
    /\ MaxTries \in Nat
    /\ MaxKills \in Nat

VARIABLES
    other,     \* the databases of merge_config: [db, next, words, marks]
    xphase,    \* off | urls | own | other | unlink | link
    xleft,     \* the URLs of the other database still to be merged
    offset,    \* docIDOffset
    nextID,    \* nextDocID of the own database while it is open
    dbDups,    \* db_dup_ids
    mergeDups, \* merge_dup_ids
    xwords, xmarks,  \* db.wordlist.new
    attempts, dead,     \* how often it was started, and died
    original,  \* history: the own databases as they were at first
    served     \* history: htmerge ended, and nothing was started since

crossVars == <<other, xphase, xleft, offset, nextID, dbDups, mergeDups, xwords,
               xmarks, attempts, dead, original, served>>
allVars == <<fileVars, mergeVars, crossVars>>

OtherURLs == {u \in URLs : other.db[u] # NoDoc}

MergeDBInit ==
    /\ original \in OwnStates
    /\ docdb = original.db /\ disk = original.db /\ nextOnDisk = original.next
    /\ words = original.words /\ marks = original.marks /\ listed = TRUE
    /\ urlLog = {}
    /\ MergeInit
    /\ other \in OtherStates
    /\ xphase = "off"
    /\ xleft = {} /\ offset = 0 /\ nextID = 0
    /\ dbDups = {} /\ mergeDups = {}
    /\ xwords = {} /\ xmarks = {}
    /\ attempts = 0 /\ dead = 0
    /\ served = FALSE

-----------------------------------------------------------------------------
(* docIDOffset = db.NextDocID(), which also takes that ID. *)
StartMergeDB ==
    /\ mphase = "down" /\ xphase = "off" /\ attempts < MaxTries
    /\ xphase' = "urls"
    /\ xleft' = OtherURLs
    /\ offset' = nextOnDisk
    /\ nextID' = nextOnDisk + 1
    /\ dbDups' = {} /\ mergeDups' = {}
    /\ xwords' = {} /\ xmarks' = {}
    /\ attempts' = attempts + 1
    /\ served' = FALSE
    /\ UNCHANGED <<fileVars, mergeVars, other, dead, original>>

(* Mutant: the older of two documents is taken. *)
KeepsOlder(u) == docdb[u] # NoDoc /\ docdb[u].time < other.db[u].time

(* Of two records of a URL the more recent one wins, the other one's when  *)
(* they are equally old. *)
KeepsOwn(u) == docdb[u] # NoDoc /\ docdb[u].time > other.db[u].time

(* Mutant: the ID is kept. *)
SameID(d) == d

Moved(d) == [d EXCEPT !.id = d.id + offset]

MergeURL(u) ==
    /\ xphase = "urls" /\ u \in xleft
    /\ xleft' = xleft \ {u}
    /\ IF KeepsOwn(u)
       THEN /\ mergeDups' = mergeDups \cup {other.db[u].id}
            /\ UNCHANGED <<docdb, dbDups>>
       ELSE /\ docdb' = [docdb EXCEPT ![u] = Moved(other.db[u])]
            /\ dbDups' = IF docdb[u] = NoDoc THEN dbDups ELSE dbDups \cup {docdb[u].id}
            /\ UNCHANGED mergeDups
    /\ UNCHANGED <<disk, nextOnDisk, words, marks, listed, urlLog, mergeVars, other,
                   xphase, offset, nextID, xwords, xmarks, attempts, dead, original, served>>

(* Mutant: the next ID is only advanced by what was taken. *)
CloseOwn ==
    /\ xphase = "urls" /\ xleft = {}
    /\ disk' = docdb
    /\ nextOnDisk' = nextID
    /\ other' = [other EXCEPT !.next = other.next + 1]
    /\ xphase' = "own"
    /\ UNCHANGED <<docdb, words, marks, listed, urlLog, mergeVars, xleft, offset,
                   nextID, dbDups, mergeDups, xwords, xmarks, attempts, dead, original, served>>

(* IncNextDocID(merge_db.NextDocID()); both databases are closed, and the  *)
(* other one has lost an ID. *)
CloseBoth ==
    /\ xphase = "urls" /\ xleft = {}
    /\ disk' = docdb
    /\ nextOnDisk' = nextID + other.next
    /\ other' = [other EXCEPT !.next = other.next + 1]
    /\ xphase' = "own"
    /\ UNCHANGED <<docdb, words, marks, listed, urlLog, mergeVars, xleft, offset,
                   nextID, dbDups, mergeDups, xwords, xmarks, attempts, dead, original, served>>

(* Mutant: the words of a document that was replaced are copied too. *)
CopyAllOwn ==
    /\ xphase = "own" /\ listed
    /\ xwords' = words
    /\ xmarks' = marks
    /\ xphase' = "other"
    /\ UNCHANGED <<fileVars, mergeVars, other, xleft, offset, nextID, dbDups, mergeDups,
                   attempts, dead, original, served>>

(* The own list without the words of documents that were replaced. *)
CopyOwn ==
    /\ xphase = "own" /\ listed
    /\ xwords' = {w \in words : w.id \notin dbDups}
    /\ xmarks' = marks
    /\ xphase' = "other"
    /\ UNCHANGED <<fileVars, mergeVars, other, xleft, offset, nextID, dbDups, mergeDups,
                   attempts, dead, original, served>>

(* The other list without the words of documents that were not taken; the  *)
(* IDs of words are moved, those of markers are not. *)
CopyOther ==
    /\ xphase = "other"
    /\ xwords' = xwords \cup
          {[w EXCEPT !.id = w.id + offset] : w \in {v \in other.words : v.id \notin mergeDups}}
    /\ xmarks' = xmarks \cup other.marks
    /\ xphase' = "unlink"
    /\ UNCHANGED <<fileVars, mergeVars, other, xleft, offset, nextID, dbDups, mergeDups,
                   attempts, dead, original, served>>

UnlinkOwn ==
    /\ xphase = "unlink"
    /\ words' = {} /\ marks' = {} /\ listed' = FALSE
    /\ xphase' = "link"
    /\ UNCHANGED <<docdb, disk, nextOnDisk, urlLog, mergeVars, other, xleft, offset,
                   nextID, dbDups, mergeDups, xwords, xmarks, attempts, dead, original, served>>

(* The new list takes the name of the old one, and main goes on. *)
LinkMerged ==
    /\ xphase = "link"
    /\ words' = xwords /\ marks' = xmarks /\ listed' = TRUE
    /\ xphase' = "off"
    /\ mphase' = "begin"
    /\ job' = {"words", "docs"}
    /\ UNCHANGED <<docdb, disk, nextOnDisk, urlLog, removeBad, discard, left, newList,
                   wordDb, docIndex, other, xleft, offset, nextID, dbDups, mergeDups,
                   xwords, xmarks, attempts, dead, original, served>>

(* Without an own list htmerge gives up. *)
GiveUp ==
    /\ xphase = "own" /\ ~listed
    /\ xphase' = "off"
    /\ UNCHANGED <<fileVars, mergeVars, other, xleft, offset, nextID, dbDups, mergeDups,
                   xwords, xmarks, attempts, dead, original, served>>

(* The process dies in mergeDB. *)
KillMergeDB ==
    /\ xphase # "off" /\ dead < MaxKills
    /\ xphase' = "off"
    /\ dead' = dead + 1
    /\ IF xphase = "urls" THEN LoseDb ELSE UNCHANGED <<docdb, disk>>
    /\ UNCHANGED <<nextOnDisk, words, marks, listed, urlLog, mergeVars, other, xleft,
                   offset, nextID, dbDups, mergeDups, xwords, xmarks, attempts, original, served>>

MergeOn ==
    /\ MergeWork
    /\ served' = (mphase = "docs" /\ mphase' = "down")
    /\ UNCHANGED <<other, xphase, xleft, offset, nextID, dbDups, mergeDups, xwords,
                   xmarks, attempts, dead, original>>

MergeDBNext ==
    \/ StartMergeDB \/ (\E u \in URLs : MergeURL(u)) \/ CloseBoth
    \/ CopyOwn \/ CopyOther \/ UnlinkOwn \/ LinkMerged \/ GiveUp \/ KillMergeDB
    \/ MergeOn

MergeDBSpec == MergeDBInit /\ [][MergeDBNext]_allVars

-----------------------------------------------------------------------------
MergeDBTypeOK ==
    /\ FilesTypeOK /\ MergeTypeOK
    /\ other \in Databases
    /\ xphase \in {"off", "urls", "own", "other", "unlink", "link"}
    /\ xleft \in SUBSET URLs
    /\ offset \in Nat /\ nextID \in Nat
    /\ dbDups \in SUBSET Nat /\ mergeDups \in SUBSET Nat
    /\ xwords \in SUBSET WordLine /\ xmarks \in SUBSET Mark
    /\ attempts \in 0..MaxTries /\ dead \in 0..MaxKills
    /\ served \in BOOLEAN

(* "This ensures that every document added from merge_db has a unique ID   *)
(* in the new database" (mergeDB): no two documents share an ID, and the   *)
(* next ID is free and stays so. *)
IDsApart ==
    /\ \A u, v \in Stored : docdb[u].id = docdb[v].id => u = v
    /\ xphase # "urls" /\ dead = 0 => \A u \in Stored : docdb[u].id < nextOnDisk

(* An entry of the index leads to the document of that ID, and its own     *)
(* words found under the ID are those of its version, also after a merge   *)
(* died and was repeated. *)
MergedIndexSound ==
    served =>
        \A e \in docIndex :
            /\ docdb[e.url] # NoDoc /\ docdb[e.url].id = e.id
            /\ \A p \in wordDb : p.id = e.id =>
                   /\ p.url = e.url
                   /\ p.text.link \/ p.text = PageText(e.url, docdb[e.url].time)

(* Whatever words are found lead to a document, unless a merge died: it    *)
(* has then dropped documents and forgotten which. *)
MergedNoGhosts ==
    served /\ dead = 0 => \A p \in wordDb : \E e \in docIndex : e.id = p.id

(* The index and the words of the merged databases fit together. *)
MergedSound == MergedIndexSound /\ MergedNoGhosts

(* Of every URL of the two databases the more recent version is found      *)
(* ("we'll only use the most recent date"), and no other. *)
NewestFound ==
    served =>
        \A u \in URLs :
            LET versions == {d.time : d \in {original.db[u], other.db[u]} \ {NoDoc}}
            IN versions # {} =>
                /\ \E e \in docIndex, p \in wordDb :
                      e.url = u /\ p.id = e.id /\ p.text.ver \in versions
                         /\ \A t \in versions : t <= p.text.ver
                /\ dead = 0 => \A p, q \in wordDb : p.url = u /\ q.url = u => p = q

=============================================================================
