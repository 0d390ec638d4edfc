------------------------------ MODULE Patterns ------------------------------
(***************************************************************************)
(* StringMatch: patterns separated by | are compiled into one table of     *)
(* states, and a text is compared with them or searched for them.  The     *)
(* table has no way back: a search that fails starts again behind the      *)
(* place where it started.                                                 *)
(***************************************************************************)
EXTENDS Integers, Sequences, FiniteSets, SequencesExt

CONSTANTS
    Letters,        \* the characters of words, which patterns are made of
    Others,         \* other characters of texts; no `|' in them
    PatternLists,   \* sequences of letters and "|"
    Texts

ASSUME PatternsAssumption ==
    /\ Letters \cap (Others \cup {"|"}) = {} /\ "|" \notin Others
    /\ \A s \in PatternLists : s \in Seq(Letters \cup {"|"}) /\ s # <<>>
    /\ \A s \in Texts : s \in Seq(Letters \cup Others)

VARIABLES
    pattern, text,
    mode,           \* the function called
    ignorePunct,    \* IgnorePunct was called: Others are translated to 0
    table,
    pos, state, startPos, which, length,
    answer          \* what it returned, or Pending

matchVars == <<pattern, text, mode, ignorePunct, table, pos, state, startPos,
               which, length, answer>>

Pending == -2

(* An entry of the table: the next state, 0 for none, and the patterns     *)
(* that end here; their indexes share some bits, so that one pattern given *)
(* twice has an index of its own. *)
NoEntry == [to |-> 0, ends |-> {}]
IsEntry(e) == e # NoEntry

-----------------------------------------------------------------------------
(* Pattern *)

Empty(n) == [c \in Letters \cup {"|"} |-> [s \in 0..n |-> NoEntry]]

Start(n) ==
    [table |-> Empty(n), state |-> 0, total |-> 0, index |-> 1,
     previous |-> "|", previousState |-> 0, previousValue |-> NoEntry]

(* The entry of the last character gets the index, and loses the state     *)
(* that was made for it alone. *)
EndPattern(c) ==
    [c EXCEPT !.table[c.previous][c.previousState] =
                  [c.previousValue EXCEPT !.ends = @ \cup {c.index}],
              !.index = @ + 1, !.state = 0]

(* Mutant: an entry that ends a pattern is not extended. *)
TakeState(c, chr) ==
    LET old == c.table[chr][c.state]
        new == IF IsEntry(old) THEN old ELSE [to |-> c.total + 1, ends |-> {}]
    IN [c EXCEPT !.table[chr][c.state] = new,
                 !.state = new.to, !.total = IF IsEntry(old) THEN @ ELSE @ + 1,
                 !.previous = chr, !.previousState = c.state, !.previousValue = old]

(* A character goes on to the state of its entry, or to a new one.  *)
AddChar(c, chr) ==
    LET old == c.table[chr][c.state]
        new == IF old.to # 0 THEN old ELSE [old EXCEPT !.to = c.total + 1]
    IN [c EXCEPT !.table[chr][c.state] = new,
                 !.state = new.to, !.total = IF old.to # 0 THEN @ ELSE @ + 1,
                 !.previous = chr, !.previousState = c.state, !.previousValue = old]

Compiled(p) ==
    LET chars == FoldLeft(LAMBDA c, chr : IF chr = "|"
                                          THEN [EndPattern(c) EXCEPT !.previous = "|"]
                                          ELSE AddChar(c, chr),
                          Start(Len(p)), p)
    IN EndPattern(chars).table

-----------------------------------------------------------------------------
MatchInit ==
    /\ pattern \in PatternLists /\ text \in Texts
    /\ mode \in {"Compare", "CompareWord", "FindFirst", "FindFirstWord"}
    /\ ignorePunct \in BOOLEAN /\ (ignorePunct => mode = "FindFirstWord")
    /\ table = Compiled(pattern)
    /\ pos = 1 /\ state = 0 /\ startPos = 1
    /\ which = {} /\ length = -1
    /\ answer = Pending

Same == <<pattern, text, mode, ignorePunct, table>>

Searching == answer = Pending /\ pos <= Len(text)
IsFind == mode \in {"FindFirst", "FindFirstWord"}
IsWord == mode \in {"CompareWord", "FindFirstWord"}

Char == text[pos]

(* What is ignored stays in its state.  *)
NewEntry ==
    IF Char \in Letters THEN table[Char][state]
    ELSE IF ignorePunct THEN [to |-> state, ends |-> {}] ELSE NoEntry

(* Answers count from 0, and comparisons answer 1 or 0.  *)
Found == IF IsFind THEN startPos' - 1 ELSE 1
Failed == IF IsFind THEN -1 ELSE 0

Answer(a) == answer' = a /\ UNCHANGED <<pos, state>>
GoOn(p, s) == pos' = p /\ state' = s /\ UNCHANGED answer

(* No pattern goes on like this, but a shorter one may have matched.  *)
Mismatch ==
    /\ Searching /\ ~IsEntry(NewEntry)
    /\ UNCHANGED startPos
    /\ IF ~IsFind \/ which # {}
       THEN Answer(IF which # {} THEN Found ELSE Failed)
       ELSE GoOn(IF state # 0 THEN startPos + 1 ELSE pos + 1, 0)
    /\ UNCHANGED <<Same, which, length>>

SetStart == startPos' = IF state = 0 THEN pos ELSE startPos

Advance ==
    /\ Searching /\ IsEntry(NewEntry) /\ NewEntry.ends = {}
    /\ SetStart
    /\ GoOn(pos + 1, NewEntry.to)
    /\ UNCHANGED <<Same, which, length>>

Ends == Searching /\ NewEntry.ends # {} /\ SetStart

SetMatch == which' = NewEntry.ends /\ length' = pos - startPos' + 1

(* One of the patterns ends here; the search goes on for a longer one.  *)
MatchString ==
    /\ Ends /\ ~IsWord
    /\ SetMatch
    /\ IF NewEntry.to = 0 THEN Answer(Found) ELSE GoOn(pos + 1, NewEntry.to)
    /\ UNCHANGED Same

LetterAt(i) == i \in 1..Len(text) /\ text[i] \in Letters

WholeWord == ~LetterAt(pos + 1) /\ (mode = "FindFirstWord" => ~LetterAt(startPos' - 1))

MatchWord ==
    /\ Ends /\ IsWord /\ WholeWord
    /\ SetMatch
    /\ Answer(Found)
    /\ UNCHANGED Same

(* A part of a word: the search starts again behind the character after    *)
(* the one where it started. *)
PartOfWord ==
    /\ Ends /\ IsWord /\ ~WholeWord
    /\ IF NewEntry.to # 0 THEN GoOn(pos + 1, NewEntry.to)
       ELSE IF mode = "CompareWord" THEN Answer(Failed)
       ELSE GoOn(startPos' + 2, 0)
    /\ UNCHANGED <<Same, which, length>>

EndOfText ==
    /\ answer = Pending /\ pos > Len(text)
    /\ UNCHANGED startPos
    /\ Answer(IF which # {} THEN Found ELSE Failed)
    /\ UNCHANGED <<Same, which, length>>

MatchNext == Mismatch \/ Advance \/ MatchString \/ MatchWord \/ PartOfWord \/ EndOfText

MatchSpec == MatchInit /\ [][MatchNext]_matchVars

-----------------------------------------------------------------------------
Bars == {i \in 1..Len(pattern) : pattern[i] = "|"}
Count == Cardinality(Bars) + 1

(* The i-th pattern of the list. *)
Nth(i) ==
    LET cuts == SetToSortSeq(Bars \cup {0, Len(pattern) + 1}, <)
    IN SubSeq(pattern, cuts[i] + 1, cuts[i + 1] - 1)

(* The patterns, without the empty ones.  *)
Listed == {i \in 1..Count : Nth(i) # <<>>}

(* Pattern i is text[b..e], between other characters than letters if words *)
(* are looked for; ignored characters may stand in it, not at its ends. *)
Occurs(i, b, e) ==
    /\ IF ignorePunct
       THEN /\ text[b] \in Letters /\ text[e] \in Letters
            /\ Nth(i) = SelectSeq(SubSeq(text, b, e), LAMBDA c : c \in Letters)
       ELSE Nth(i) = SubSeq(text, b, e)
    /\ IsWord => ~LetterAt(e + 1) /\ (IsFind => ~LetterAt(b - 1))

Places == {<<i, b, e>> \in Listed \X (1..Len(text)) \X (1..Len(text)) : b <= e /\ Occurs(i, b, e)}

(* A comparison is about the beginning of the text. *)
Eligible == IF IsFind THEN Places ELSE {p \in Places : p[2] = 1}

RightAnswer ==
    IF Eligible = {} THEN answer = Failed
    ELSE LET first == Min({p[2] : p \in Eligible})
             there == {p \in Eligible : p[2] = first}
         IN /\ answer = IF IsFind THEN first - 1 ELSE 1
            /\ length \in {p[3] - p[2] + 1 : p \in there}
            /\ ~IsWord => \A p \in there : p[3] - p[2] + 1 <= length
            /\ which = {p[1] : p \in {q \in there : q[3] - q[2] + 1 = length}}

Shown(s) == IF ignorePunct THEN SelectSeq(s, LAMBDA c : c \in Letters) ELSE s

(* The text ends within one of the patterns, before the pattern does.  *)
BreaksOff ==
    \E s \in 1..Len(text) : LET tail == Shown(SubSeq(text, s, Len(text)))
                            IN tail # <<>> /\ \E i \in Listed : IsStrictPrefix(tail, Nth(i))

(* The table finds what is there: the answer is the first place where a    *)
(* pattern stands, and there the longest pattern unless words are looked   *)
(* for; nothing is found when there is nothing, however the patterns       *)
(* overlap and repeat each other.  A search in a text that ends within a   *)
(* pattern may give up too early. *)
FindsWhatIsThere ==
    answer # Pending => RightAnswer \/ (IsFind /\ BreaksOff /\ answer = -1)

(* "Attempt to find the first occurance of the previous compiled           *)
(* patterns." *)
FindsInAnyText == answer # Pending /\ mode = "FindFirst" => RightAnswer

=============================================================================
