------------------------------ MODULE LoadDump ------------------------------
(***************************************************************************)
(* htdump and htload: the document database as a text file, and back.  Of  *)
(* a document only its URL and its ID are kept; digs add documents and     *)
(* merges drop them in between.                                            *)
(***************************************************************************)
EXTENDS Naturals, Sequences, FiniteSets, SequencesExt

CONSTANTS
    Locations,
    NoID,   \* the URL is not in the database
    MaxID   \* bound: the largest document ID handed out

ASSUME LoadAssumption == NoID \notin Nat /\ MaxID \in Nat

VARIABLES
    ids,        \* the database: URL -> document ID or NoID
    nextDocID,
    text,       \* doc_list: [id, url] lines
    input,      \* the lines htload has still to read
    loading,
    fresh       \* history: text is a dump of ids as it was when last changed

loadVars == <<ids, nextDocID, text, input, loading, fresh>>

DumpLine == [id : Nat, url : Locations]

Present == {u \in Locations : ids[u] # NoID}

LoadTypeOK ==
    /\ ids \in [Locations -> Nat \cup {NoID}]
    /\ nextDocID \in Nat
    /\ text \in Seq(DumpLine)
    /\ input \in Seq(DumpLine)
    /\ loading \in BOOLEAN
    /\ fresh \in BOOLEAN

LoadInit ==
    /\ ids = [u \in Locations |-> NoID]
    /\ nextDocID = 0
    /\ text = <<>>
    /\ input = <<>>
    /\ loading = FALSE
    /\ fresh = FALSE

(* NextDocID() is nextDocID++; htdig stores the document under it. *)
AddDocument(u) ==
    /\ ~loading /\ nextDocID <= MaxID
    /\ ids' = [ids EXCEPT ![u] = nextDocID]
    /\ nextDocID' = nextDocID + 1
    /\ fresh' = FALSE
    /\ UNCHANGED <<text, input, loading>>

(* htmerge deletes documents it does not keep. *)
DropDocument(u) ==
    /\ ~loading /\ u \in Present
    /\ ids' = [ids EXCEPT ![u] = NoID]
    /\ fresh' = FALSE
    /\ UNCHANGED <<nextDocID, text, input, loading>>

(* DumpDB: "the extract will likely not be sorted by anything". *)
DumpDB ==
    /\ ~loading
    /\ text' \in SetToSeqs({[id |-> ids[u], url |-> u] : u \in Present})
    /\ fresh' = TRUE
    /\ UNCHANGED <<ids, nextDocID, input, loading>>

(* htload into the database as it is, or into a new one (-i). *)
StartLoad(initial) ==
    /\ ~loading /\ text # <<>>
    /\ loading' = TRUE
    /\ input' = text
    /\ IF initial
       THEN /\ ids' = [u \in Locations |-> NoID]
            /\ nextDocID' = 0
       ELSE UNCHANGED <<ids, nextDocID>>
    /\ UNCHANGED <<text, fresh>>

NextAfter(id) == IF id > nextDocID THEN id + 1 ELSE nextDocID

(* One line of LoadDB: an older record of the URL is replaced. *)
LoadLine ==
    /\ loading /\ input # <<>>
    /\ ids' = [ids EXCEPT ![Head(input).url] = Head(input).id]
    /\ nextDocID' = NextAfter(Head(input).id)
    /\ input' = Tail(input)
    /\ UNCHANGED <<text, loading, fresh>>

(* Mutant: the last line is taken for the end of the file. *)
EndLoadEarly ==
    /\ loading /\ Len(input) <= 1
    /\ loading' = FALSE
    /\ input' = <<>>
    /\ UNCHANGED <<ids, nextDocID, text, fresh>>

EndLoad ==
    /\ loading /\ input = <<>>
    /\ loading' = FALSE
    /\ UNCHANGED <<ids, nextDocID, text, input, fresh>>

LoadNext ==
    \/ \E u \in Locations : AddDocument(u) \/ DropDocument(u)
    \/ \E initial \in BOOLEAN : StartLoad(initial)
    \/ DumpDB \/ LoadLine \/ EndLoad

LoadSpec == LoadInit /\ [][LoadNext]_loadVars

-----------------------------------------------------------------------------
(* The text file restores the database: when the last thing that was done  *)
(* to the documents was to dump them, loading the dump, with -i or without *)
(* it and however often, ends with the dumped documents. *)
RoundTrip ==
    fresh /\ ~loading =>
        {[id |-> ids[u], url |-> u] : u \in Present} = {text[i] : i \in 1..Len(text)}

(* "a unique document ID" (Retriever::got_href): none is the next one. *)
NextIsFree == ~loading => \A u \in Present : ids[u] < nextDocID

=============================================================================
