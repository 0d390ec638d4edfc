-------------------------------- MODULE Notify --------------------------------
(***************************************************************************)
(* htnotify: one pass over the documents, which collects for every address *)
(* the pages whose date has come, and then one mail to each address.  The  *)
(* author of a page writes the date as three numbers in an order that the  *)
(* program has to guess.  Documents that ask for nothing are left out.     *)
(***************************************************************************)
EXTENDS Integers, Sequences, FiniteSets

CONSTANTS
    Noted,      \* the documents that ask for a notification
    Emails,     \* the addresses in them
    Requests,   \* what they may ask for: a date, which is three numbers (-1 for
                \* those that are missing), and an address
    Now         \* the day of the run: [year, month, day]

ASSUME NotifyAssumption ==
    /\ \A r \in Requests : r \in [Noted -> [date : Int \X Int \X Int, email : Emails]]
    /\ Now \in [year : Int, month : Int, day : Int]

VARIABLES
    asked,             \* the date and the address of every document
    iso8601,           \* iso_8601
    unread,            \* the documents that have still to be looked at
    allNotifications,  \* the list of every address
    mailed             \* the lists that were sent

notifyVars == <<asked, iso8601, unread, allNotifications, mailed>>

Order(y, m, d) == [year |-> y, month |-> m, day |-> d]

(* "probably got yyyy-mm-dd instead of mm/dd/yy" *)
Scanned(n) ==
    IF iso8601 \/ (n[1] > 31 /\ n[2] <= 12 /\ n[3] <= 31) THEN Order(n[1], n[2], n[3])
    ELSE Order(n[3], n[1], n[2])

(* Year and day, year and month, month and day may be the wrong way round. *)
YearFirst(t) == IF t.day > 31 /\ t.year <= 31 THEN Order(t.day, t.month, t.year) ELSE t
YearForMonth(t) == IF t.month > 31 /\ t.year <= 31 THEN Order(t.month, t.year, t.day) ELSE t
DayForMonth(t) == IF t.month > 12 /\ t.day <= 12 THEN Order(t.year, t.day, t.month) ELSE t

(* Mutant: the month is put right before the year. *)
GuessedMonthFirst(n) == YearForMonth(YearFirst(DayForMonth(Scanned(n))))

Guessed(n) == DayForMonth(YearForMonth(YearFirst(Scanned(n))))

Valid(t) == t.year >= 0 /\ t.month \in 1..12 /\ t.day \in 1..31

FullYear(y) == IF y < 70 THEN y + 2000 ELSE IF y < 1900 THEN y + 1900 ELSE y

parse_date(n) == LET t == Guessed(n) IN [t EXCEPT !.year = FullYear(@)]

Before(s, t) ==
    \/ s.year < t.year
    \/ s.year = t.year /\ s.month < t.month
    \/ s.year = t.year /\ s.month = t.month /\ s.day < t.day

add_notification(p, subject) ==
    allNotifications' = [allNotifications EXCEPT ![asked[p].email] =
                            Append(@, [page |-> p, subject |-> subject])]

htnotify(p) ==
    /\ p \in unread
    /\ unread' = unread \ {p}
    /\ IF ~Valid(Guessed(asked[p].date)) THEN add_notification(p, "Malformed Date")
       ELSE IF Before(parse_date(asked[p].date), Now) THEN add_notification(p, "as the page says")
       ELSE UNCHANGED allNotifications
    /\ UNCHANGED <<asked, iso8601, mailed>>

(* Only addresses that were added have a list. *)
send_notification(e) ==
    /\ unread = {} /\ mailed[e] = <<>> /\ allNotifications[e] # <<>>
    /\ mailed' = [mailed EXCEPT ![e] = allNotifications[e]]
    /\ UNCHANGED <<asked, iso8601, unread, allNotifications>>

NotifyInit ==
    /\ asked \in Requests
    /\ iso8601 \in BOOLEAN
    /\ unread = Noted
    /\ allNotifications = [e \in Emails |-> <<>>]
    /\ mailed = [e \in Emails |-> <<>>]

NotifyNext ==
    \/ \E p \in Noted : htnotify(p)
    \/ \E e \in Emails : send_notification(e)

NotifySpec == NotifyInit /\ [][NotifyNext]_notifyVars

-----------------------------------------------------------------------------
(* Properties.                                                             *)

(* What the numbers may mean: in the order of ISO 8601, of America or of   *)
(* Europe, if that is a date. *)
InOrderAsked(n) == IF iso8601 THEN Order(n[1], n[2], n[3]) ELSE Order(n[3], n[1], n[2])

Readings(n) ==
    {t \in {Order(n[1], n[2], n[3]), Order(n[3], n[1], n[2]), Order(n[3], n[2], n[1])} : Valid(t)}

(* "This won't work for ambiguous dates, which must be given in the        *)
(* expected format": one that is, or that has one reading and a year that  *)
(* cannot be a day, tells what its author meant. *)
Meant(n) ==
    IF Valid(InOrderAsked(n)) THEN {InOrderAsked(n)}
    ELSE IF \E t \in Readings(n) : Readings(n) = {t} /\ t.year > 31 THEN Readings(n) ELSE {}

Listed(e) == {mailed[e][i].page : i \in 1..Len(mailed[e])}

Day(t) == [t EXCEPT !.year = FullYear(@)]

AllMailed == unread = {} /\ \A e \in Emails : mailed[e] = allNotifications[e]

(* Whoever left an address in a page is told of it after the day the page  *)
(* names and not before, in one mail that lists the page once, and nobody  *)
(* is told of a page that is not his (parse_date, add_notification,        *)
(* send_notification).  Of the day itself this says nothing: *)
ToldOfExpired ==
    AllMailed =>
        /\ \A p \in Noted, e \in Emails : \A t \in Meant(asked[p].date) :
              /\ e = asked[p].email /\ Before(Day(t), Now) => p \in Listed(e)
              /\ p \in Listed(e) => e = asked[p].email /\ ~Before(Now, Day(t))
        /\ \A e \in Emails : Cardinality(Listed(e)) = Len(mailed[e])

(* the page's date is "the date on or after which the notification should  *)
(* be sent" (notification.html:137; also 158-159, and "either today or     *)
(* before today", htnotify.cc:291).  It does not hold: the comparison is < *)
(* in all three of its parts. *)
ToldOnTheDay ==
    AllMailed =>
        \A p \in Noted : \A t \in Meant(asked[p].date) :
            ~Before(Now, Day(t)) => p \in Listed(asked[p].email)

=============================================================================
