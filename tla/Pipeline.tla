------------------------------ MODULE Pipeline ------------------------------
(***************************************************************************)
(* htdig and htmerge run one after the other over the same files, as       *)
(* rundig and the update scripts run them: any number of digs, interrupted *)
(* or not, before each merge.  The properties are about what htsearch      *)
(* finds in the word database and the document index between the runs.     *)
(***************************************************************************)
EXTENDS Dig, Merge

CONSTANTS
    MaxMerges,        \* bound: how often htmerge is started
    MaxMergeCrashes,  \* bound: how often it is killed, or stops on an error
    DigsPerMerge      \* bound: how many digs are started between two merges

ASSUME PipelineAssumption ==
    MaxMerges \in Nat /\ MaxMergeCrashes \in Nat /\ DigsPerMerge \in Nat

VARIABLES
    merges,        \* number of merges started so far
    mergeCrashes,  \* number of merges killed so far
    digs,          \* number of digs started since the last merge
    whole,         \* the merge that was started last does words and documents
    served,        \* it has ended, and nothing was started since
    parted         \* history: a merge did the words and not the documents

runVars  == <<merges, mergeCrashes, digs, whole, served, parted>>
pipeVars == <<vars, mergeVars, runVars>>

PipelineTypeOK ==
    /\ DigTypeOK
    /\ MergeTypeOK
    /\ merges \in Nat
    /\ mergeCrashes \in Nat
    /\ digs \in Nat
    /\ whole \in BOOLEAN
    /\ served \in BOOLEAN
    /\ parted \in BOOLEAN

PipelineInit ==
    /\ DigInit
    /\ MergeInit
    /\ merges = 0
    /\ mergeCrashes = 0
    /\ digs = 0
    /\ whole = FALSE
    /\ served = FALSE
    /\ parted = FALSE

StartDig ==
    /\ mphase = "down" /\ digs < DigsPerMerge
    /\ \E initial \in InitialFlags : Start(initial)
    /\ digs' = digs + 1
    /\ served' = FALSE
    /\ UNCHANGED <<mergeVars, merges, mergeCrashes, whole, parted>>

DigStep ==
    /\ mphase = "down"
    /\ Work \/ Signal \/ Crash \/ Htdump
    /\ UNCHANGED <<mergeVars, runVars>>

(* What htmerge never touches. *)
DigOnly == <<phase, memVars, worldVars, countVars, histVars>>

BeginMerge ==
    /\ phase = "down" /\ merges < MaxMerges
    /\ \E j \in Jobs :
         /\ StartMerge(j)
         /\ whole' = (j = {"words", "docs"})
         /\ parted' = (parted \/ j = {"words"})
    /\ merges' = merges + 1
    /\ digs' = 0
    /\ served' = FALSE
    /\ UNCHANGED <<DigOnly, mergeCrashes>>

(* A merge that gives up for want of a word list or of documents has not   *)
(* served anything. *)
MergeStep ==
    /\ MergeWork
    /\ served' = (whole /\ mphase = "docs" /\ mphase' = "down")
    /\ UNCHANGED <<DigOnly, merges, mergeCrashes, digs, whole, parted>>

KillMerge ==
    /\ mergeCrashes < MaxMergeCrashes
    /\ MergeCrash
    /\ mergeCrashes' = mergeCrashes + 1
    /\ parted' = TRUE
    /\ UNCHANGED <<DigOnly, merges, digs, whole, served>>

WorldStep == World /\ UNCHANGED <<mergeVars, runVars>>

PipelineNext ==
    StartDig \/ DigStep \/ BeginMerge \/ MergeStep \/ KillMerge \/ WorldStep

PipelineSpec == PipelineInit /\ [][PipelineNext]_pipeVars

-----------------------------------------------------------------------------
(* Properties.                                                             *)

(* An entry of the document index leads to the one stored document of that *)
(* ID, all words filed under the ID are filed for it, and its own are      *)
(* those of the version that was stored (htsearch goes from a word by its  *)
(* ID through the index to the URL, and by the URL to the excerpt).        *)
IndexSound ==
    served =>
        \A e \in docIndex :
            /\ docdb[e.url] # NoDoc /\ docdb[e.url].id = e.id
            /\ \A f \in docIndex : f.id = e.id => f = e
            /\ \A p \in wordDb : p.id = e.id => p.url = e.url
            /\ \A p \in OwnWords(wordDb) : p.id = e.id =>
                   p.text = PageText(e.url, docdb[e.url].time)

(* No words of a superseded version of a page are found any more           *)
(* (MarkModified in parse_url, the discard list in mergeWords). *)
NoStaleWords ==
    served => \A p, q \in OwnWords(wordDb) : p.url = q.url => p = q

(* Words of a page that are found belong to a document that can be         *)
(* displayed, and a document that was kept can be found by its own words   *)
(* (convertDocs drops a document if and only if mergeWords drops them).    *)
(* Not so the words of links to a document that was never retrieved. *)
IndexesAgree ==
    served => {p.id : p \in OwnWords(wordDb)} = {e.id : e \in docIndex}

(* With remove_bad_urls, a page whose retrieved version asks not to be     *)
(* indexed is not in the index ("This document has been marked with a      *)
(* noindex tag.  Remove it", convertDocs), even when it was asked for again *)
(* before the merge and had not changed: parse_url then takes the mark off *)
(* the record, and it is the "!" in the word list that is left.  So no     *)
(* merge may have used up the markers without the documents, and no signal *)
(* may have cut the page's head.  Without remove_bad_urls convertDocs does *)
(* not look at the markers, and such a page is listed. *)
NoindexUnlisted ==
    served /\ removeBad /\ ~parted => \A e \in docIndex :
        web[e.url].noindex /\ e.url \notin cut => docdb[e.url].time # web[e.url].ver

(* The pages that may be indexed whichever version of them is retrieved.   *)
Indexable ==
    {u \in URLs :
        \A p \in {Web0[u]} \cup {e.page : e \in {f \in Edits : f.url = u}} :
            p.status = "ok" => p.head /\ ~p.noindex}

(* A page whose last answer in a dig was its contents, or that they had    *)
(* not changed, is in the index after the merge: "the document hasn't      *)
(* changed and we are to reuse the old words" (mergeWords). *)
AnswerKept ==
    served => \A u \in Indexable \cap fetched :
        last[u] \in {"ok", "not_changed"} => \E e \in docIndex : e.url = u

=============================================================================
