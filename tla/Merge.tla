------------------------------- MODULE Merge -------------------------------
(***************************************************************************)
(* htmerge: mergeWords turns the word list into the word database and      *)
(* learns from its markers which documents to discard; convertDocs drops   *)
(* documents from db.docdb and builds the document index of the rest.      *)
(* What is to be discarded is known to the running process only.           *)
(***************************************************************************)
EXTENDS Files

CONSTANTS
    RemoveBadValues,  \* the settings of remove_bad_urls considered
    Jobs              \* the option sets used: "words" without -w, "docs" without -d

ASSUME MergeAssumption ==
    /\ RemoveBadValues \subseteq BOOLEAN
    /\ Jobs \subseteq SUBSET {"words", "docs"}

VARIABLES
    removeBad,   \* remove_bad_urls, the same in all runs
    mphase,     \* down | begin | words | unlinked | linked | docs
    job,        \* what this run has still to do
    discard,    \* discard_list
    left,       \* the URLs convertDocs has still to look at
    newList,    \* the word lines of db.wordlist.new
    wordDb,     \* db.words.db: the postings of every word
    docIndex    \* db.docs.index: document ID -> URL

mergeVars == <<removeBad, mphase, job, discard, left, newList, wordDb, docIndex>>

IndexEntry == [id : Nat, url : URLs]

MergeTypeOK ==
    /\ removeBad \in BOOLEAN
    /\ mphase \in {"down", "begin", "words", "unlinked", "linked", "docs"}
    /\ job \in SUBSET {"words", "docs"}
    /\ discard \in SUBSET Nat
    /\ left \in SUBSET URLs
    /\ newList \in SUBSET WordLine
    /\ wordDb \in SUBSET WordLine
    /\ docIndex \in SUBSET IndexEntry

MergeInit ==
    /\ removeBad \in RemoveBadValues
    /\ mphase = "down"
    /\ job = {}
    /\ discard = {}
    /\ left = {}
    /\ newList = {}
    /\ wordDb = {}
    /\ docIndex = {}

StartMerge(j) ==
    /\ mphase = "down"
    /\ mphase' = "begin"
    /\ job' = j
    /\ discard' = {}
    /\ left' = {}
    /\ UNCHANGED <<fileVars, removeBad, newList, wordDb, docIndex>>

(* What the end of the process leaves: its memory is gone. *)
Exit ==
    /\ mphase' = "down"
    /\ job' = {}
    /\ discard' = {}
    /\ left' = {}

-----------------------------------------------------------------------------
(* mergeWords.  The sort puts every marker before the word lines, so the   *)
(* discard list is complete when the first word is looked at.              *)

(* Mutants: superseded documents are not discarded; all that have a marker *)
(* are. *)
DiscardedGone  == {m.id : m \in {k \in marks : removeBad /\ k.mark = "-"}}
DiscardedAll  == {m.id : m \in marks}

Discarded ==
    {m.id : m \in {k \in marks : k.mark = "!" \/ (removeBad /\ k.mark = "-")}}

Kept == {w \in words : w.id \notin Discarded}

(* Unlink the word database; without a word list htmerge gives up. *)
BeginWords ==
    /\ mphase = "begin" /\ "words" \in job
    /\ wordDb' = {}
    /\ IF listed
       THEN /\ mphase' = "words"
            /\ newList' = {}
            /\ UNCHANGED <<job, discard, left>>
       ELSE Exit /\ UNCHANGED newList
    /\ UNCHANGED <<fileVars, docIndex>>

(* Read the sorted lines, write the surviving words to the new list and to *)
(* the word database, and unlink the old list. *)
MergeWords ==
    /\ mphase = "words"
    /\ discard' = Discarded
    /\ newList' = Kept
    /\ wordDb' = Kept
    /\ words' = {}
    /\ marks' = {}
    /\ listed' = FALSE
    /\ mphase' = "unlinked"
    /\ UNCHANGED <<docdb, disk, nextOnDisk, urlLog, job, left, docIndex>>

(* Link the new list under the old name. *)
LinkList ==
    /\ mphase = "unlinked"
    /\ words' = newList
    /\ listed' = TRUE
    /\ mphase' = "linked"
    /\ UNCHANGED <<docdb, disk, nextOnDisk, marks, urlLog, job, discard, left,
                   newList, wordDb, docIndex>>

(* Unlink the new list's own name; the words are done. *)
UnlinkNew ==
    /\ mphase = "linked"
    /\ newList' = {}
    /\ mphase' = "begin"
    /\ job' = job \ {"words"}
    /\ UNCHANGED <<fileVars, discard, left, wordDb, docIndex>>

-----------------------------------------------------------------------------
(* convertDocs.                                                            *)

(* Mutant: the index is not unlinked. *)
BeginDocsOnly ==
    /\ mphase = "begin" /\ "words" \notin job /\ "docs" \in job
    /\ IF Stored = {} THEN Exit
       ELSE /\ mphase' = "docs"
            /\ left' = Stored
            /\ UNCHANGED <<job, discard>>
    /\ UNCHANGED <<fileVars, newList, wordDb, docIndex>>

(* Unlink the index and list the stored URLs; with none it is an error. *)
BeginDocs ==
    /\ mphase = "begin" /\ "words" \notin job /\ "docs" \in job
    /\ docIndex' = {}
    /\ IF Stored = {} THEN Exit
       ELSE /\ mphase' = "docs"
            /\ left' = Stored
            /\ UNCHANGED <<job, discard>>
    /\ UNCHANGED <<fileVars, newList, wordDb>>

(* Mutant: the discard list is not looked at. *)
DropsBare(u) == ~docdb[u].head \/ docdb[u].state = "noindex"

Drops(u) ==
    \/ ~docdb[u].head
    \/ docdb[u].state = "noindex"
    \/ removeBad /\ docdb[u].id \in discard

ConvertURL(u) ==
    /\ mphase = "docs" /\ u \in left
    /\ left' = left \ {u}
    /\ IF Drops(u)
       THEN /\ docdb' = [docdb EXCEPT ![u] = NoDoc]
            /\ UNCHANGED docIndex
       ELSE /\ docIndex' = {e \in docIndex : e.id # docdb[u].id} \cup
                           {[id |-> docdb[u].id, url |-> u]}
            /\ UNCHANGED docdb
    /\ UNCHANGED <<disk, nextOnDisk, words, marks, listed, urlLog, mphase, job,
                   discard, newList, wordDb>>

EndMerge ==
    /\ \/ mphase = "docs" /\ left = {} /\ disk' = docdb
       \/ mphase = "begin" /\ job = {} /\ UNCHANGED disk
    /\ Exit
    /\ UNCHANGED <<docdb, nextOnDisk, words, marks, listed, urlLog, newList,
                   wordDb, docIndex>>

-----------------------------------------------------------------------------
(* A crash, or an error exit.  What had been written of the databases that *)
(* were not closed is there in part; the names of files are as they were.  *)
(* A new list that was not finished is as good as empty: the next run      *)
(* truncates it. *)
MergeCrash ==
    /\ mphase # "down"
    /\ Exit
    /\ IF mphase = "words" THEN wordDb' \in SUBSET Kept ELSE UNCHANGED wordDb
    /\ UNCHANGED newList
    /\ IF mphase = "docs"
       THEN LoseDb /\ docIndex' \in SUBSET docIndex
       ELSE UNCHANGED <<docdb, disk, docIndex>>
    /\ UNCHANGED <<nextOnDisk, words, marks, listed, urlLog, removeBad>>

MergeWork ==
    /\ \/ BeginWords \/ MergeWords \/ LinkList \/ UnlinkNew
       \/ BeginDocs \/ (\E u \in URLs : ConvertURL(u)) \/ EndMerge
    /\ UNCHANGED removeBad

=============================================================================
