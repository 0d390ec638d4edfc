------------------------------- MODULE Files -------------------------------
(***************************************************************************)
(* The files that htdig leaves for htmerge and for its own next run: the   *)
(* document database db.docdb, the word list db.wordlist and the URL log   *)
(* db.log.  Both programs open them under the names of the configuration;  *)
(* nothing but the order of the runs keeps one from using what the other   *)
(* is still writing.                                                       *)
(***************************************************************************)
EXTENDS Naturals

CONSTANTS
    URLs,    \* the URLs of the modelled web
    NoDoc    \* what a lookup in the document database returns on a miss

VARIABLES
    docdb,       \* db.docdb as its user sees it: URL -> record, or NoDoc
    disk,        \* db.docdb as it was last closed
    nextOnDisk,  \* the "nextDocID" record of db.docdb (0 when there is none)
    words,       \* the word lines of db.wordlist
    marks,       \* its marker lines: +id, -id and !id
    listed,      \* whether the file db.wordlist exists
    urlLog       \* the URLs of db.log; {} when there is no such file

fileVars == <<docdb, disk, nextOnDisk, words, marks, listed, urlLog>>

States == {"normal", "not_found", "noindex"}

(***************************************************************************)
(* Words are told apart by where they stand: in the text of a version of a *)
(* page, or in the text of its links.  All of one such place are a token.  *)
(***************************************************************************)
Token == [from : URLs, ver : Nat, link : BOOLEAN]

PageText(u, v) == [from |-> u, ver |-> v, link |-> FALSE]
LinkText(u, v) == [from |-> u, ver |-> v, link |-> TRUE]

LinkTexts == {t \in Token : t.link}

(***************************************************************************)
(* A document record, reduced to what the programs decide on.  got stands  *)
(* for DocAccessed # 0, time for DocTime (a version number of the page, 0  *)
(* when it was never retrieved), head for a DocHead that is not empty.     *)
(***************************************************************************)
Doc == [id : Nat, hop : Nat, got : BOOLEAN, time : Nat,
        state : States, head : BOOLEAN, descriptions : SUBSET LinkTexts]

(***************************************************************************)
(* A word line carries a document ID and a word: one of the document's own *)
(* or one of a link to it.  url is the document they were filed for.       *)
(***************************************************************************)
WordLine == [id : Nat, url : URLs, text : Token]

OwnWords(lines) == {w \in lines : ~w.text.link}

Mark == [mark : {"+", "-", "!"}, id : Nat]

Stored == {u \in URLs : docdb[u] # NoDoc}

FilesTypeOK ==
    /\ docdb \in [URLs -> Doc \cup {NoDoc}]
    /\ disk \in [URLs -> Doc \cup {NoDoc}]
    /\ nextOnDisk \in Nat
    /\ words \in SUBSET WordLine
    /\ marks \in SUBSET Mark
    /\ listed \in BOOLEAN
    /\ urlLog \in SUBSET URLs

FilesInit ==
    /\ docdb = [u \in URLs |-> NoDoc]
    /\ disk = docdb
    /\ nextOnDisk = 0
    /\ words = {}
    /\ marks = {}
    /\ listed = FALSE
    /\ urlLog = {}

(***************************************************************************)
(* WordList appends its lines to the file and closes it on every call, so  *)
(* they are durable from then on.                                          *)
(***************************************************************************)
AppendMarks(m) ==
    /\ marks' = marks \cup m
    /\ listed' = TRUE
    /\ UNCHANGED words

AppendWords(w) ==
    /\ words' = words \cup w
    /\ listed' = TRUE
    /\ UNCHANGED marks

AppendLines(m, w) ==
    /\ marks' = marks \cup m
    /\ words' = words \cup w
    /\ listed' = TRUE

KeepList == UNCHANGED <<words, marks, listed>>

(***************************************************************************)
(* A process that dies without closing db.docdb: of every record either    *)
(* the version last closed or the one last written is found again.         *)
(***************************************************************************)
LoseDb ==
    /\ \E kept \in SUBSET URLs :
          docdb' = [u \in URLs |-> IF u \in kept THEN docdb[u] ELSE disk[u]]
    /\ disk' = docdb'

=============================================================================
