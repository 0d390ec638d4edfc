------------------------------- MODULE Words -------------------------------
(***************************************************************************)
(* mergeWords, line by line: the sorted lines of db.wordlist become the    *)
(* records of the word database and the lines of the new list.  A line is  *)
(* held back until the next one is known not to be about the same word and *)
(* document; the records of a word are collected in `out' until the word   *)
(* changes.  sort may have used any collating sequence.                    *)
(***************************************************************************)
EXTENDS Integers, Sequences, FiniteSets, SequencesExt

CONSTANTS
    Vocabulary,  \* the words, numbered in the order of strcmp
    Inputs,      \* the sorted lists considered
    Junk         \* what an uninitialised WordRecord may hold

(* The empty string is less than every word.  *)
None == 0

(* WordRecord. *)
Record == [id : Nat, count : Nat, weight : Nat, location : Nat, anchor : Nat]

(* A line is a marker with the ID of a document, or a word with a record.  *)
MarkerLine == [mark : {"+", "-", "!"}, id : Nat]
EntryLine == [word : Vocabulary, rec : Record]

ASSUME WordsAssumption ==
    /\ Vocabulary \subseteq Nat \ {None}
    /\ Inputs \subseteq Seq(MarkerLine \cup EntryLine)

VARIABLES
    lines,        \* the sorted lines
    at,           \* how many of them were read
    removeBadUrls,
    discards,     \* discard_list
    lastWord, lastRec,  \* last_word and last_wr, the line held back
    currentWord, out,   \* the word that is being collected, and its records
    highWord,
    postings,     \* the word database: word -> records, <<>> when there are none
    relisted,     \* the lines of db.wordlist.new
    wphase        \* read | last | done

wordsVars == <<lines, at, removeBadUrls, discards, lastWord, lastRec, currentWord,
               out, highWord, postings, relisted, wphase>>

IsMarker(l) == "mark" \in DOMAIN l

WordsInit ==
    /\ lines \in Inputs
    /\ at = 0
    /\ removeBadUrls \in BOOLEAN
    /\ discards = {}
    /\ lastWord = None /\ lastRec \in Junk
    /\ currentWord = None /\ out = <<>>
    /\ highWord = None
    /\ postings = [w \in Vocabulary \cup {None} |-> <<>>]
    /\ relisted = <<>>
    /\ wphase = "read"

-----------------------------------------------------------------------------
Next1 == lines[at + 1]

Reading == wphase = "read" /\ at < Len(lines)

(* A marker: + does nothing. *)
ReadMarker ==
    /\ Reading /\ IsMarker(Next1)
    /\ discards' =
          IF Next1.mark = "!" \/ (Next1.mark = "-" /\ removeBadUrls)
          THEN discards \cup {Next1.id} ELSE discards
    /\ at' = at + 1
    /\ UNCHANGED <<lines, removeBadUrls, lastWord, lastRec, currentWord, out,
                   highWord, postings, relisted, wphase>>

(* A second line about the same word and document is added to the first.   *)
Merged(a, b) ==
    [a EXCEPT !.count = a.count + b.count,
              !.weight = a.weight + b.weight,
              !.location = IF b.location < a.location THEN b.location ELSE a.location,
              !.anchor = IF (b.anchor > 0 /\ b.anchor < a.anchor) \/ a.anchor = 0
                         THEN b.anchor ELSE a.anchor]

Discards(l) == l.rec.id \in discards

HoldBack(l) ==
    /\ lastWord' = l.word
    /\ lastRec' = l.rec

ReadDiscarded ==
    /\ Reading /\ ~IsMarker(Next1) /\ Discards(Next1)
    /\ at' = at + 1
    /\ UNCHANGED <<lines, removeBadUrls, discards, lastWord, lastRec, currentWord,
                   out, highWord, postings, relisted, wphase>>

ReadFirst ==
    /\ Reading /\ ~IsMarker(Next1) /\ ~Discards(Next1)
    /\ lastWord = None
    /\ HoldBack(Next1)
    /\ at' = at + 1
    /\ UNCHANGED <<lines, removeBadUrls, discards, currentWord, out, highWord,
                   postings, relisted, wphase>>

ReadSame ==
    /\ Reading /\ ~IsMarker(Next1) /\ ~Discards(Next1)
    /\ lastWord # None
    /\ lastRec.id = Next1.rec.id /\ lastWord = Next1.word
    /\ lastRec' = Merged(lastRec, Next1.rec)
    /\ at' = at + 1
    /\ UNCHANGED <<lines, removeBadUrls, discards, lastWord, currentWord, out,
                   highWord, postings, relisted, wphase>>

(* Mutant: the earlier record is not looked up. *)
StoreNew ==
    /\ relisted' = Append(relisted, [word |-> lastWord, rec |-> lastRec])
    /\ currentWord' = lastWord
    /\ highWord' = IF lastWord > highWord THEN lastWord ELSE highWord
    /\ IF currentWord = None \/ lastWord = currentWord
       THEN out' = Append(out, lastRec) /\ UNCHANGED postings
       ELSE /\ postings' = [postings EXCEPT ![currentWord] = out]
            /\ out' = <<lastRec>>

(* The line held back is written.  When its word is not the current one,   *)
(* the records of that are stored; a word that is not beyond the highest   *)
(* so far may have records already. *)
Store ==
    /\ relisted' = Append(relisted, [word |-> lastWord, rec |-> lastRec])
    /\ currentWord' = lastWord
    /\ highWord' = IF lastWord > highWord THEN lastWord ELSE highWord
    /\ IF currentWord = None
       THEN out' = <<lastRec>> /\ UNCHANGED postings
       ELSE IF lastWord = currentWord
       THEN out' = Append(out, lastRec) /\ UNCHANGED postings
       ELSE /\ postings' = [postings EXCEPT ![currentWord] = out]
            /\ out' = IF lastWord > highWord THEN <<lastRec>>
                      ELSE Append(postings'[lastWord], lastRec)

ReadOther ==
    /\ Reading /\ ~IsMarker(Next1) /\ ~Discards(Next1)
    /\ lastWord # None
    /\ ~(lastRec.id = Next1.rec.id /\ lastWord = Next1.word)
    /\ Store
    /\ HoldBack(Next1)
    /\ at' = at + 1
    /\ UNCHANGED <<lines, removeBadUrls, discards, wphase>>

(* After the last line: the one held back, even if there is none. *)
StoreLast ==
    /\ wphase = "read" /\ at = Len(lines)
    /\ Store
    /\ wphase' = "last"
    /\ UNCHANGED <<lines, at, removeBadUrls, discards, lastWord, lastRec>>

PutLast ==
    /\ wphase = "last"
    /\ postings' = [postings EXCEPT ![currentWord] = out]
    /\ wphase' = "done"
    /\ UNCHANGED <<lines, at, removeBadUrls, discards, lastWord, lastRec,
                   currentWord, out, highWord, relisted>>

WordsNext ==
    \/ ReadMarker \/ ReadDiscarded \/ ReadFirst \/ ReadSame \/ ReadOther
    \/ StoreLast \/ PutLast

WordsSpec == WordsInit /\ [][WordsNext]_wordsVars

-----------------------------------------------------------------------------
(* The how many-th line about w the i-th line of the new list is.         *)
Which(w, i) == Cardinality({j \in 1..i : relisted[j].word = w})

(* The records are those of the lines about w in the new list. *)
Relists(w, records) ==
    /\ Len(records) = Which(w, Len(relisted))
    /\ \A i \in 1..Len(relisted) :
          relisted[i].word = w => records[Which(w, i)] = relisted[i].rec

(* The word database and the new list, from which the next htmerge will    *)
(* start, say the same of every word, in the same order. *)
ListIsDatabase == \A w \in Vocabulary : Relists(w, postings[w])

(* The markers come first, as in the C locale, and lines about one word    *)
(* and document are together, as in any order of whole lines. *)
InOrder(s) ==
    \A i, j, k \in 1..Len(s) : i < j =>
        /\ IsMarker(s[j]) => IsMarker(s[i])
        /\ ~IsMarker(s[i]) /\ j < k /\ s[i].word = s[k].word
              /\ s[i].rec.id = s[k].rec.id
           => s[j].word = s[i].word /\ s[j].rec.id = s[i].rec.id

Gone ==
    {lines[i].id : i \in {j \in 1..Len(lines) :
        IsMarker(lines[j]) /\ (lines[j].mark = "!" \/ (removeBadUrls /\ lines[j].mark = "-"))}}

IsAbout(l, w, id) == ~IsMarker(l) /\ l.word = w /\ l.rec.id = id

(* Where the first n lines are about a word and a document. *)
About(w, id, n) == {i \in 1..n : IsAbout(lines[i], w, id)}

(* The sums of the first n of the numbers f[i] of the lines about them.    *)
Totals(f, w, id) ==
    LET total[n \in 0..Len(lines)] ==
            IF n = 0 THEN 0
            ELSE total[n - 1] + (IF IsAbout(lines[n], w, id) THEN f[n] ELSE 0)
    IN total

Counts == [i \in 1..Len(lines) |-> IF IsMarker(lines[i]) THEN 0 ELSE lines[i].rec.count]
Weights == [i \in 1..Len(lines) |-> IF IsMarker(lines[i]) THEN 0 ELSE lines[i].rec.weight]

Least(s) == CHOOSE n \in s : \A k \in s : n <= k

(* What the database should hold of a word in a document after n lines of  *)
(* the list that htmerge reads. *)
Sum(w, id, n) ==
    LET its == About(w, id, n)
        anchors == {lines[i].rec.anchor : i \in its} \ {0}
    IN [id |-> id,
        count |-> Totals(Counts, w, id)[n],
        weight |-> Totals(Weights, w, id)[n],
        location |-> Least({lines[i].rec.location : i \in its}),
        anchor |-> IF anchors = {} THEN 0 ELSE Least(anchors)]

(* The records of every word are, one per document that is not discarded,  *)
(* the sums of its lines ("Do we duplicate the last entry?  If we do,      *)
(* update last_word and keep going"). *)
OneRecordEach ==
    \A w \in Vocabulary :
        /\ {postings[w][i].id : i \in 1..Len(postings[w])} =
               {lines[i].rec.id : i \in {j \in 1..Len(lines) :
                    ~IsMarker(lines[j]) /\ lines[j].word = w}} \ Gone
        /\ \A i, j \in 1..Len(postings[w]) :
               postings[w][i].id = postings[w][j].id => i = j
        /\ \A i \in 1..Len(postings[w]) :
               postings[w][i] = Sum(w, postings[w][i].id, Len(lines))

(* Whatever the collating sequence, no record is lost or doubled between   *)
(* the database and the new list; and in the order of the C locale they    *)
(* hold what the lines add up to (mergeWords). *)
WordsMerged ==
    wphase = "done" => ListIsDatabase /\ (InOrder(lines) => OneRecordEach)

=============================================================================
