------------------------------- MODULE Query -------------------------------
(***************************************************************************)
(* What htsearch does with a query: setupWords turns it into an            *)
(* expression, checks it if the user wrote the operators, puts the words   *)
(* that the fuzzy algorithms know in the place of each word, and adds the  *)
(* required words; the recursive descent parser then evaluates it on a     *)
(* stack of result lists.  The calls of the parser that have not returned  *)
(* yet are a sequence of labels, the innermost first.                      *)
(***************************************************************************)
EXTENDS Integers, Sequences, FiniteSets, SequencesExt

CONSTANTS
    Words,          \* the words of queries
    Docs,           \* the documents of the index
    Postings,       \* the word database: which documents have a word
    Queries,        \* what users type, after the words were recognised
    Substitutes,    \* what all fuzzy algorithms together make of the words
    Keywords        \* the required words

(* A token is an operator, a parenthesis, a word, or a word too short or   *)
(* too common to be looked up. *)
Operators == {"&", "|", "!"}
Tokens == Operators \cup {"(", ")", "ignored"} \cup Words

ASSUME QueryAssumption ==
    /\ Words \cap (Operators \cup {"(", ")", "ignored", "done", "word"}) = {}
    /\ Postings \in [Words -> SUBSET Docs]
    /\ \A q \in Queries : q \in Seq(Tokens)
    /\ \A s \in Substitutes : s \in [Words -> Seq(Words)]
    /\ \A k \in Keywords : k \in Seq(Words)

VARIABLES
    query, method,  \* method: all | any | boolean
    subs, required, anyKeywords,
    stage,          \* setup | check | fuzzy | required | parse | done
    list, at,       \* tokens, and the index of `current'
    calls, valid,
    stack,          \* result lists, the top last
    matches

queryVars == <<query, method, subs, required, anyKeywords, stage, list, at,
               calls, valid, stack, matches>>

inputs == <<query, method, subs, required, anyKeywords>>

(* A list of a word that is ignored has no documents. *)
ResultList == [isIgnore : BOOLEAN, docs : SUBSET Docs]
List(ds) == [isIgnore |-> FALSE, docs |-> ds]
IgnoredList == [isIgnore |-> TRUE, docs |-> {}]

Plain(q) == \A i \in 1..Len(q) : q[i] \in Words \cup {"ignored"}

QueryInit ==
    /\ query \in Queries
    /\ method \in {"all", "any", "boolean"}
    /\ method # "boolean" => Plain(query)
    /\ subs \in Substitutes
    /\ required \in Keywords
    /\ anyKeywords \in BOOLEAN
    /\ Len(required) < 2 => ~anyKeywords
    /\ stage = "setup"
    /\ list = <<>> /\ at = 1 /\ calls = <<>>
    /\ valid = TRUE /\ stack = <<>>
    /\ matches = {}

-----------------------------------------------------------------------------
(* setupWords, addRequiredWords *)

StartParse == at' = 1 /\ calls' = <<"expr", "end">>

Joined(ws, op) == FlattenSeq([i \in 1..Len(ws) |-> IF i = 1 THEN <<ws[i]>> ELSE <<op, ws[i]>>])

SetupBoolean ==
    /\ stage = "setup" /\ method = "boolean"
    /\ list' = query
    /\ StartParse
    /\ stage' = "check"
    /\ UNCHANGED <<inputs, valid, stack, matches>>

(* convertToBoolean *)
ConvertToBoolean ==
    /\ stage = "setup" /\ method # "boolean"
    /\ list' = Joined(query, IF method = "all" THEN "&" ELSE "|")
    /\ stage' = "fuzzy"
    /\ UNCHANGED <<inputs, at, calls, valid, stack, matches>>

(* Mutant: no parentheses. *)
BareGroup(ws) == Joined(ws, "|")

Group(ws) ==
    IF Len(ws) > 1 THEN <<"(">> \o Joined(ws, "|") \o <<")">> ELSE ws

(* doFuzzy for every word that is looked up: its substitutes in            *)
(* parentheses, or nothing when no algorithm knows the word. *)
DoFuzzy ==
    /\ stage = "fuzzy"
    /\ list' = FlattenSeq([i \in 1..Len(list) |->
                   IF list[i] \in Words THEN Group(subs[list[i]]) ELSE <<list[i]>>])
    /\ stage' = "required"
    /\ UNCHANGED <<inputs, at, calls, valid, stack, matches>>

WithRequired(l, ks) ==
    IF ks = <<>> THEN l
    ELSE (IF l = <<>> THEN <<>> ELSE <<"(">> \o l \o <<")", "&">>)
         \o (IF Len(ks) = 1 THEN ks
             ELSE <<"(">> \o Joined(ks, IF anyKeywords THEN "|" ELSE "&") \o <<")">>)

(* An empty list is not parsed at all. *)
AddRequiredWords ==
    /\ stage = "required"
    /\ list' = WithRequired(list, required)
    /\ IF list' = <<>>
       THEN stage' = "done" /\ UNCHANGED <<at, calls>>
       ELSE stage' = "parse" /\ StartParse
    /\ UNCHANGED <<inputs, valid, stack, matches>>

-----------------------------------------------------------------------------
(* The parser, without output in checkSyntax and with it in parse.         *)

Lookahead ==
    IF at > Len(list) THEN "done"
    ELSE IF list[at] \in Words \cup {"ignored"} THEN "word" ELSE list[at]

(* The innermost call is f, and does this next.  *)
In(f) == calls # <<>> /\ Head(calls) = f

Call(fs) == calls' = fs \o Tail(calls)
Return == calls' = Tail(calls)
Match == at' = at + 1

Output == stage = "parse"

Unparsed == <<inputs, stage, list, matches>>

Expr ==
    /\ In("expr")
    /\ Call(<<"term", "alternatives">>)
    /\ UNCHANGED <<Unparsed, at, valid, stack>>

Alternatives ==
    /\ In("alternatives")
    /\ IF Lookahead = "|"
       THEN Match /\ Call(<<"term", "or", "alternatives">>) /\ UNCHANGED valid
       ELSE Return /\ valid' = (valid /\ Lookahead # "word") /\ UNCHANGED at
    /\ UNCHANGED <<Unparsed, stack>>

Term ==
    /\ In("term")
    /\ Call(<<"factor", "conjuncts">>)
    /\ UNCHANGED <<Unparsed, at, valid, stack>>

Conjuncts ==
    /\ In("conjuncts")
    /\ IF Lookahead \in {"&", "!"}
       THEN Match /\ Call(<<"factor", IF Lookahead = "&" THEN "and" ELSE "not", "conjuncts">>)
       ELSE Return /\ UNCHANGED at
    /\ UNCHANGED <<Unparsed, valid, stack>>

(* perform_push *)
Push == stack' = Append(stack, IF list[at] = "ignored" THEN IgnoredList
                               ELSE List(Postings[list[at]]))

Factor ==
    /\ In("factor")
    /\ CASE Lookahead = "(" -> Match /\ Call(<<"expr", "close">>) /\ UNCHANGED <<valid, stack>>
         [] Lookahead = "word" -> /\ Match /\ Return
                                  /\ IF Output THEN Push ELSE UNCHANGED stack
                                  /\ UNCHANGED valid
         [] OTHER -> Return /\ valid' = FALSE /\ UNCHANGED <<at, stack>>
    /\ UNCHANGED Unparsed

Close ==
    /\ In("close") /\ Return
    /\ IF Lookahead = ")" THEN Match /\ UNCHANGED valid
       ELSE valid' = FALSE /\ UNCHANGED at
    /\ UNCHANGED <<Unparsed, stack>>

-----------------------------------------------------------------------------
(* perform_and and perform_or: an operand that is missing or ignored       *)
(* leaves the other as it is; l2 is the left operand. *)

And(l2, l1, isand) ==
    CASE l1.isIgnore -> l2
      [] ~l1.isIgnore /\ l2.isIgnore -> IF isand THEN l1 ELSE List({})
      [] OTHER -> List(IF isand THEN l2.docs \cap l1.docs ELSE l2.docs \ l1.docs)

Or(result, l1) ==
    CASE l1.isIgnore -> result
      [] ~l1.isIgnore /\ result.isIgnore -> l1
      [] OTHER -> List(result.docs \cup l1.docs)

(* One list takes the place of the top two; an empty one if there is none. *)
Combined(s, Op(_, _)) ==
    CASE Len(s) = 0 -> <<List({})>>
      [] Len(s) = 1 -> s
      [] OTHER -> Append(SubSeq(s, 1, Len(s) - 2), Op(s[Len(s) - 1], s[Len(s)]))

PerformAnd ==
    /\ In("and") \/ In("not")
    /\ Return
    /\ stack' = IF Output THEN Combined(stack, LAMBDA l2, l1 : And(l2, l1, In("and"))) ELSE stack
    /\ UNCHANGED <<Unparsed, at, valid>>

PerformOr ==
    /\ In("or")
    /\ Return
    /\ stack' = IF Output THEN Combined(stack, Or) ELSE stack
    /\ UNCHANGED <<Unparsed, at, valid>>

(* The end of fullexpr, back in checkSyntax and setupWords: words of an    *)
(* expression that is wrong are not expanded. *)
Checked ==
    /\ In("end") /\ stage = "check"
    /\ valid' = (valid /\ Lookahead = "done")
    /\ Return
    /\ stage' = IF valid' THEN "fuzzy" ELSE "required"
    /\ UNCHANGED <<inputs, list, at, stack, matches>>

(* The end of fullexpr, and the rest of parse. *)
Parsed ==
    /\ In("end") /\ stage = "parse"
    /\ valid' = (valid /\ Lookahead = "done" /\ stack # <<>>)
    /\ Return
    /\ stage' = "done"
    /\ IF stack = <<>> THEN UNCHANGED <<stack, matches>>
       ELSE matches' = Last(stack).docs /\ stack' = Front(stack)
    /\ UNCHANGED <<inputs, list, at>>

Parsing ==
    \/ Expr \/ Alternatives \/ Term \/ Conjuncts \/ Factor \/ Close
    \/ PerformAnd \/ PerformOr \/ Checked \/ Parsed

QueryNext == SetupBoolean \/ ConvertToBoolean \/ DoFuzzy \/ AddRequiredWords \/ Parsing

QuerySpec == QueryInit /\ [][QueryNext]_queryVars

-----------------------------------------------------------------------------
(* What a query means, by the grammar rather than by the parser: the last  *)
(* `or' outside parentheses splits an expression, or else the last `and'   *)
(* or `not' ("cat not dog").  A meaning is {ds}, or {} when there is       *)
(* nothing but ignored words; an ignored word changes nothing, except that *)
(* without something to start from `not' leaves nothing. *)

Pieces(q, wf, i, j, ops) ==
    {k \in i + 1 .. j - 1 : q[k] \in ops /\ wf[i, k - 1] /\ wf[k + 1, j]}

Grammatical(q) ==
    LET wf[i \in 1..Len(q) + 1, j \in 0..Len(q)] ==
            /\ i <= j
            /\ \/ i = j /\ q[i] \in Words \cup {"ignored"}
               \/ q[i] = "(" /\ q[j] = ")" /\ i < j /\ wf[i + 1, j - 1]
               \/ Pieces(q, wf, i, j, Operators) # {}
    IN wf

WellFormed(q) == Grammatical(q)[1, Len(q)]

Both(A, B, Op(_, _)) ==
    CASE A = {} -> B [] A # {} /\ B = {} -> A
      [] OTHER -> {Op(a, b) : a \in A, b \in B}

WordMeaning(w) ==
    IF w = "ignored" THEN {} ELSE {UNION {Postings[s] : s \in Range(subs[w])}}

Meaning(q) ==
    LET wf == Grammatical(q)
        m[i \in 1..Len(q), j \in 1..Len(q)] ==
            LET ors == Pieces(q, wf, i, j, {"|"})
                ands == Pieces(q, wf, i, j, {"&", "!"})
                k == Max(IF ors # {} THEN ors ELSE ands)
                A == m[i, k - 1]
                B == m[k + 1, j]
            IN IF i = j THEN WordMeaning(q[i])
               ELSE IF ors # {} THEN Both(A, B, \cup)
               ELSE IF ands = {} THEN m[i + 1, j - 1]
               ELSE IF q[k] = "&" THEN Both(A, B, \cap)
               ELSE IF A = {} /\ B # {} THEN {{}}
               ELSE Both(A, B, \)
    IN m[1, Len(q)]

(* A query without operators asks for all of its words, or for any.  *)
MeaningOfWords(q) ==
    LET found == UNION {WordMeaning(w) : w \in Range(q)}
    IN IF found = {} THEN {}
       ELSE {IF method = "all" THEN {d \in Docs : \A f \in found : d \in f} ELSE UNION found}

RequiredMeaning ==
    LET found == {Postings[k] : k \in Range(required)}
    IN IF found = {} THEN {}
       ELSE {IF anyKeywords THEN UNION found ELSE {d \in Docs : \A f \in found : d \in f}}

Expandable == \A i \in 1..Len(query) : query[i] \in Words => subs[query[i]] # <<>>

IsExpression == method = "boolean" => WellFormed(query)

(* htsearch answers with the documents a query means, among those with the *)
(* required words, or with a syntax error if the user's operators make no  *)
(* expression, provided that the algorithms find something for each word;  *)
(* whatever they find keeps its place in the expression.                   *)
MeansWhatItSays ==
    stage = "done" /\ Expandable =>
        /\ valid <=> IsExpression
        /\ valid => matches = UNION Both(
              IF query = <<>> THEN {}
              ELSE IF method = "boolean" THEN Meaning(query) ELSE MeaningOfWords(query),
              RequiredMeaning, \cap)

(* "all the specified algorithms are used on each of the words and the     *)
(* result is a new boolean expression": an expression that passed the      *)
(* check, or that htsearch built itself, is not rejected later.            *)
StaysAnExpression == stage = "done" /\ IsExpression => valid

=============================================================================
