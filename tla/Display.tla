------------------------------ MODULE Display ------------------------------
(***************************************************************************)
(* The pages of matches that htsearch shows.  Every page is the answer of  *)
(* another process, which builds and sorts the whole list of matches and   *)
(* shows a window of it; the user follows the links to other pages.  The   *)
(* databases stand still.                                                  *)
(***************************************************************************)
EXTENDS Integers, Sequences, FiniteSets

CONSTANTS
    Results,        \* the IDs that the parser found, numbered in the order of the sort
    PerPage,        \* matches_per_page
    MaxPages,       \* maximum_pages
    MaxButtons      \* maximum_page_buttons

ASSUME DisplayAssumption ==
    /\ Results \subseteq Nat /\ IsFiniteSet(Results)
    /\ PerPage \in Nat \ {0} /\ MaxPages \in Nat /\ MaxButtons \in Nat

VARIABLES
    unindexed,      \* IDs that docIndex does not have
    excluded,       \* those whose URL restrict or exclude rules out
    outdated,       \* those whose DocTime is not in the range
    absent,         \* those whose record docDB does not have
    page,           \* the page that is displayed
    place,          \* how many matches Get_Next has returned
    currentMatch, numberDisplayed,
    out,            \* what is on the page: matches and the numbers they show
    pages           \* the pages that the user has seen

world == <<unindexed, excluded, outdated, absent>>
displayVars == <<world, page, place, currentMatch, numberDisplayed, out, pages>>

(* buildMatchList.  A record that is not there has no date to look at. *)
Matches == {d \in Results : d \notin unindexed \cup excluded /\ (d \notin outdated \/ d \in absent)}

(* They are sorted: the i-th one is the i-th smallest. *)
MatchList ==
    [i \in 1..Cardinality(Matches) |->
        CHOOSE d \in Matches : Cardinality({e \in Matches : e <= d}) = i]

(* Mutant: an incomplete last page is forgotten. *)
FullPages ==
    LET n == Len(MatchList) \div PerPage
        capped == IF n > MaxPages THEN MaxPages ELSE n
    IN IF capped < 1 THEN 1 ELSE capped

(* setVariables *)
NumPages ==
    LET n == (Len(MatchList) + PerPage - 1) \div PerPage
        capped == IF n > MaxPages THEN MaxPages ELSE n
    IN IF capped < 1 THEN 1 ELSE capped

FirstDisplayed(p) == (p - 1) * PerPage + 1
LastDisplayed(p) == IF p * PerPage > Len(MatchList) THEN Len(MatchList) ELSE p * PerPage

(* Mutant: only the buttons. *)
ButtonsOnly(p) ==
    IF NumPages = 1 THEN {} ELSE 1..(IF NumPages > MaxButtons THEN MaxButtons ELSE NumPages)

(* The previous page, the next one, and the list of pages. *)
Links(p) ==
    IF NumPages = 1 THEN {}
    ELSE ({p - 1, p + 1} \cap 1..NumPages)
         \cup 1..(IF NumPages > MaxButtons THEN MaxButtons ELSE NumPages)

Show(p) ==
    /\ page' = p
    /\ place' = 0 /\ currentMatch' = 0 /\ numberDisplayed' = 0 /\ out' = <<>>

(* What has no URL, or not one that is asked for, is not looked at further. *)
DisplayInit ==
    /\ unindexed \in SUBSET Results /\ excluded \in SUBSET (Results \ unindexed)
    /\ outdated \in SUBSET (Results \ (unindexed \cup excluded))
    /\ absent \in SUBSET (Results \ (unindexed \cup excluded))
    /\ page = 1 /\ place = 0 /\ currentMatch = 0 /\ numberDisplayed = 0
    /\ out = <<>> /\ pages = <<>>

-----------------------------------------------------------------------------
(* The loop of display.  *)

Displaying == page # 0 /\ place < Len(MatchList) /\ numberDisplayed < PerPage
NextMatch == MatchList[place + 1]
StartAt == (page - 1) * PerPage

SkipEarlier ==
    /\ Displaying /\ currentMatch < StartAt
    /\ place' = place + 1
    /\ currentMatch' = currentMatch + 1
    /\ UNCHANGED <<world, page, numberDisplayed, out, pages>>

(* "The document isn't present for some reason": it is not counted.  *)
SkipAbsent ==
    /\ Displaying /\ currentMatch >= StartAt /\ NextMatch \in absent
    /\ place' = place + 1
    /\ UNCHANGED <<world, page, currentMatch, numberDisplayed, out, pages>>

DisplayMatch ==
    /\ Displaying /\ currentMatch >= StartAt /\ NextMatch \notin absent
    /\ place' = place + 1
    /\ currentMatch' = currentMatch + 1
    /\ numberDisplayed' = numberDisplayed + 1
    /\ out' = Append(out, [match |-> NextMatch, number |-> currentMatch + 1])
    /\ UNCHANGED <<world, page, pages>>

(* The process is done; page is 0 until the next one starts. *)
EndPage ==
    /\ page # 0 /\ ~Displaying
    /\ pages' = [p \in DOMAIN pages \cup {page} |-> IF p = page THEN out ELSE pages[p]]
    /\ page' = 0
    /\ UNCHANGED <<world, place, currentMatch, numberDisplayed, out>>

FollowLink ==
    /\ page = 0
    /\ \E p \in DOMAIN pages : \E n \in Links(p) \ DOMAIN pages : Show(n)
    /\ UNCHANGED <<world, pages>>

DisplayNext == SkipEarlier \/ SkipAbsent \/ DisplayMatch \/ EndPage \/ FollowLink

DisplaySpec == DisplayInit /\ [][DisplayNext]_displayVars

-----------------------------------------------------------------------------
(* All that the links lead to has been seen.  *)
SeenAll == page = 0 /\ \A p \in DOMAIN pages : Links(p) \subseteq DOMAIN pages

Wanted == {d \in Results : d \notin unindexed \cup excluded \cup outdated \cup absent}

(* How many matches maximum_pages leaves room for. *)
Room == PerPage * (IF MaxPages < 1 THEN 1 ELSE MaxPages)

(* No match is lost between two pages, whatever documents are missing: the *)
(* list has all that are wanted, and those for whose place in it there is  *)
(* room have been seen when all links were followed.  They may be seen     *)
(* twice. *)
NothingSkipped ==
    SeenAll =>
        \A d \in Wanted :
            \E n \in 1..Len(MatchList) :
                /\ MatchList[n] = d
                /\ n <= Room => \E p \in DOMAIN pages : \E i \in 1..Len(pages[p]) : pages[p][i].match = d

(* When no document is missing the pages are the list, cut at              *)
(* maximum_pages: nothing is shown twice, the numbers go on from page to   *)
(* page, and the page says the numbers of its first and last match. *)
PagesAreTheList ==
    SeenAll /\ absent = {} =>
        /\ \A n \in 1..Len(MatchList) : MatchList[n] \in Wanted
        /\ DOMAIN pages = 1..NumPages
        /\ \A p \in 1..NumPages :
              pages[p] = [i \in 1..LastDisplayed(p) - FirstDisplayed(p) + 1 |->
                             LET n == FirstDisplayed(p) + i - 1
                             IN [match |-> MatchList[n], number |-> n]]
        /\ Len(MatchList) <= Room => LastDisplayed(NumPages) = Cardinality(Wanted)

(* Who follows all links sees every match there is room for, and, when no  *)
(* document is missing, sees it once and under its number. *)
EveryMatchShown == NothingSkipped /\ PagesAreTheList

(* LASTDISPLAYED: "The index of the last match on this page."  *)
LastIsLast ==
    \A p \in DOMAIN pages :
        pages[p] # <<>> => pages[p][Len(pages[p])].number = LastDisplayed(p)

=============================================================================
