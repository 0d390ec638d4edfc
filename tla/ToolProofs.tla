----------------------------- MODULE ToolProofs -----------------------------
(***************************************************************************)
(* Theorems about the tools around the document database: for htdump and   *)
(* htload, for every database and every order of the dump, that a dump     *)
(* that is loaded restores the documents; for htnotify, for every request, *)
(* that whoever asked is told of the pages that have expired.  And about   *)
(* the hash table in which htdig keeps its servers and the URLs visited,   *)
(* for every set of keys, hash function and capacity: it finds what was    *)
(* added, and an iteration meets every key once.  And about mergeWords,    *)
(* for every list of lines and every order of it: the new list and the     *)
(* word database agree, and in a list in order no line is lost or counted  *)
(* twice.  And about the list in which htdig, htmerge and htsearch keep    *)
(* their objects, for every sequence of calls: it is the sequence that     *)
(* List.h promises.                                                        *)
(***************************************************************************)
EXTENDS LoadDump, Notify, Dictionary, Words, List, SequenceTheorems, FiniteSetTheorems,
        WellFoundedInduction, TLAPS

-----------------------------------------------------------------------------
(* htdump and htload.                                                      *)

(* The database as the lines of a dump. *)
Recorded == {[id |-> ids[u], url |-> u] : u \in Present}

LinesOf(s) == {s[i] : i \in 1..Len(s)}

(* A dump is fresh as long as it has a line for each document, and one of  *)
(* each URL.  While it is loaded the database lies between what it was     *)
(* (nothing, with -i) and the dump, and the lines that are still to come   *)
(* make up what it lacks. *)
DumpInv ==
    /\ LoadTypeOK
    /\ IsFiniteSet(Recorded)
    /\ fresh =>
          /\ \A s, t \in LinesOf(text) : s.url = t.url => s = t
          /\ Recorded \subseteq LinesOf(text)
          /\ ~loading => LinesOf(text) \subseteq Recorded
          /\ loading => /\ LinesOf(input) \subseteq LinesOf(text)
                        /\ LinesOf(text) \subseteq Recorded \cup LinesOf(input)

-----------------------------------------------------------------------------
(* A sequence of a finite set's elements, each once, has all of them. *)
LEMMA SetToSeqsLists ==
    ASSUME NEW S, IsFiniteSet(S), NEW f \in SetToSeqs(S)
    PROVE  f \in Seq(S) /\ LinesOf(f) = S
<1> DEFINE n == Cardinality(S)
<1>1. n \in Nat
  BY FS_CardinalityType
<1>2. /\ f \in [1..n -> S]
      /\ \A i, j \in 1..n : i # j => f[i] # f[j]
  BY DEF SetToSeqs
<1>3. f \in Seq(S) /\ Len(f) = n
  <2>1. \A i \in 1..n : f[i] \in S
    BY <1>2
  <2>2. f = [i \in 1..n |-> f[i]]
    BY <1>2
  <2>3. f \in Seq(S)
    BY <1>1, <1>2, SeqDef
  <2>4. DOMAIN f = 1..Len(f) /\ Len(f) \in Nat
    BY <2>3, LenProperties
  <2> QED
    BY <1>1, <1>2, <2>3, <2>4
<1>4. f \in Injection(1..n, S)
  BY <1>2 DEF Injection, IsInjective
<1>5. Cardinality(1..n) = n
  BY <1>1, FS_Interval
<1>6. f \in Surjection(1..n, S)
  BY <1>4, <1>5, FS_Injection
<1>7. \A x \in S : \E i \in 1..n : f[i] = x
  BY <1>6 DEF Surjection
<1> QED
  BY <1>2, <1>3, <1>7 DEF LinesOf

(* The first line and the others. *)
LEMMA HeadAndTail ==
    ASSUME NEW S, NEW s \in Seq(S), s # <<>>
    PROVE  /\ Head(s) \in S /\ Tail(s) \in Seq(S)
           /\ LinesOf(s) = {Head(s)} \cup LinesOf(Tail(s))
<1>1. /\ Head(s) \in S /\ Tail(s) \in Seq(S) /\ Len(Tail(s)) = Len(s) - 1
      /\ \A i \in 1..Len(Tail(s)) : Tail(s)[i] = s[i + 1]
  BY HeadTailProperties
<1>2. Len(s) \in Nat \ {0} /\ Head(s) = s[1]
  BY EmptySeq
<1>3. LinesOf(s) \subseteq {Head(s)} \cup LinesOf(Tail(s))
  <2> SUFFICES ASSUME NEW i \in 1..Len(s), i # 1
               PROVE  s[i] \in LinesOf(Tail(s))
    BY <1>2 DEF LinesOf
  <2> DEFINE j == i - 1
  <2>1. j \in 1..Len(Tail(s)) /\ j + 1 = i
    BY <1>1, <1>2
  <2>2. Tail(s)[j] = s[i]
    BY <1>1, <2>1
  <2> HIDE DEF j
  <2> QED
    BY <2>1, <2>2 DEF LinesOf
<1>4. {Head(s)} \cup LinesOf(Tail(s)) \subseteq LinesOf(s)
  <2>1. \A i \in 1..Len(Tail(s)) : i + 1 \in 1..Len(s)
    BY <1>1, <1>2
  <2>2. 1 \in 1..Len(s)
    BY <1>2
  <2> QED
    BY <1>1, <1>2, <2>1, <2>2 DEF LinesOf
<1> QED
  BY <1>1, <1>3, <1>4

(* Storing a line replaces what was recorded of its URL. *)
LEMMA LineStored ==
    ASSUME LoadTypeOK, NEW u \in Locations, NEW d \in Nat, IsFiniteSet(Recorded),
           ids' = [ids EXCEPT ![u] = d]
    PROVE  /\ ids' \in [Locations -> Nat \cup {NoID}]
           /\ Recorded' = {r \in Recorded : r.url # u} \cup {[id |-> d, url |-> u]}
           /\ IsFiniteSet(Recorded')
<1>1. d # NoID
  BY LoadAssumption
<1>2. ids \in [Locations -> Nat \cup {NoID}]
  BY DEF LoadTypeOK
<1>3. ids' \in [Locations -> Nat \cup {NoID}]
  BY <1>2
<1>4. Recorded' = {r \in Recorded : r.url # u} \cup {[id |-> d, url |-> u]}
  BY <1>1, <1>2 DEF Recorded, Present
<1>5. IsFiniteSet({r \in Recorded : r.url # u})
  BY FS_Subset
<1> QED
  BY <1>3, <1>4, <1>5, FS_AddElement

(* What each step of a dump, a load or a dig in between does to the two.   *)
LEMMA DumpStep ==
    ASSUME DumpInv, [LoadNext]_loadVars
    PROVE  DumpInv'
<1>1. /\ ids \in [Locations -> Nat \cup {NoID}] /\ nextDocID \in Nat
      /\ text \in Seq(DumpLine) /\ input \in Seq(DumpLine)
      /\ loading \in BOOLEAN /\ fresh \in BOOLEAN
      /\ IsFiniteSet(Recorded)
  BY DEF DumpInv, LoadTypeOK
<1>2. ASSUME NEW u \in Locations, AddDocument(u)
      PROVE  DumpInv'
  <2>1. /\ ids' = [ids EXCEPT ![u] = nextDocID] /\ nextDocID' = nextDocID + 1
        /\ fresh' = FALSE /\ UNCHANGED <<text, input, loading>>
    BY <1>2 DEF AddDocument
  <2>2. ids' \in [Locations -> Nat \cup {NoID}] /\ IsFiniteSet(Recorded')
    BY <1>1, <2>1, LineStored DEF DumpInv
  <2>3. nextDocID' \in Nat
    BY <1>1, <2>1
  <2>4. fresh' \in BOOLEAN
    BY <2>1
  <2>5. LoadTypeOK'
    BY <1>1, <2>1, <2>2, <2>3, <2>4 DEF LoadTypeOK
  <2> QED
    BY <2>1, <2>2, <2>5 DEF DumpInv
<1>3. ASSUME NEW u \in Locations, DropDocument(u)
      PROVE  DumpInv'
  <2>1. /\ ids' = [ids EXCEPT ![u] = NoID] /\ nextDocID' = nextDocID
        /\ fresh' = FALSE /\ UNCHANGED <<text, input, loading>>
    BY <1>3 DEF DropDocument
  <2>2. ids' \in [Locations -> Nat \cup {NoID}] /\ Recorded' \in SUBSET Recorded
    BY <1>1, <2>1 DEF Recorded, Present
  <2>3. IsFiniteSet(Recorded')
    BY <1>1, <2>2, FS_Subset
  <2> QED
    BY <1>1, <2>1, <2>2, <2>3 DEF DumpInv, LoadTypeOK
<1>4. CASE DumpDB
  <2>1. /\ text' \in SetToSeqs(Recorded) /\ fresh' = TRUE /\ ~loading
        /\ UNCHANGED <<ids, nextDocID, input, loading>>
    BY <1>4 DEF DumpDB, Recorded
  <2>2. text' \in Seq(Recorded) /\ LinesOf(text') = Recorded
    BY <1>1, <2>1, SetToSeqsLists
  <2>3. Recorded \subseteq DumpLine /\ Recorded' = Recorded
    BY <1>1, <2>1 DEF Recorded, Present, DumpLine
  <2>4. text' \in Seq(DumpLine)
    BY <2>2, <2>3, SeqMonotonic
  <2>5. \A s, t \in Recorded : s.url = t.url => s = t
    BY DEF Recorded
  <2>6. LoadTypeOK'
    BY <1>1, <2>1, <2>4 DEF LoadTypeOK
  <2>7. LinesOf(text)' = Recorded /\ Recorded' = Recorded
    BY <2>2, <2>3 DEF LinesOf
  <2> QED
    BY <1>1, <2>1, <2>5, <2>6, <2>7 DEF DumpInv
<1>5. ASSUME NEW initial \in BOOLEAN, StartLoad(initial)
      PROVE  DumpInv'
  <2>1. /\ ~loading /\ loading' = TRUE /\ input' = text /\ text' = text /\ fresh' = fresh
    BY <1>5 DEF StartLoad
  <2>2. \/ ids' = [u \in Locations |-> NoID] /\ nextDocID' = 0
        \/ ids' = ids /\ nextDocID' = nextDocID
    BY <1>5 DEF StartLoad
  <2>3. LoadTypeOK'
    BY <1>1, <2>1, <2>2 DEF LoadTypeOK
  <2>4. Recorded' = {} \/ Recorded' = Recorded
    BY <2>2 DEF Recorded, Present
  <2>5. IsFiniteSet(Recorded') /\ Recorded' \subseteq Recorded
    BY <1>1, <2>4, FS_EmptySet
  <2>6. LinesOf(text') = LinesOf(text) /\ LinesOf(input') = LinesOf(text)
    BY <2>1
  <2> QED
    BY <2>1, <2>3, <2>5, <2>6 DEF DumpInv, LinesOf
<1>6. CASE LoadLine
  <2>1. /\ loading /\ input # <<>> /\ input' = Tail(input)
        /\ ids' = [ids EXCEPT ![Head(input).url] = Head(input).id]
        /\ nextDocID' \in {Head(input).id + 1, nextDocID}
        /\ UNCHANGED <<text, loading, fresh>>
    BY <1>6 DEF LoadLine, NextAfter
  <2>2. /\ Head(input) \in DumpLine /\ Tail(input) \in Seq(DumpLine)
        /\ LinesOf(input) = {Head(input)} \cup LinesOf(Tail(input))
    BY <1>1, <2>1, HeadAndTail
  <2>3. PICK h \in DumpLine : h = Head(input)
    BY <2>2
  <2>4. h.url \in Locations /\ h.id \in Nat /\ h = [id |-> h.id, url |-> h.url]
    BY DEF DumpLine
  <2>5. /\ ids' \in [Locations -> Nat \cup {NoID}] /\ IsFiniteSet(Recorded')
        /\ Recorded' = {r \in Recorded : r.url # h.url} \cup {h}
    BY <1>1, <2>1, <2>3, <2>4, LineStored DEF DumpInv
  <2>6. LoadTypeOK'
    BY <1>1, <2>1, <2>2, <2>3, <2>4, <2>5 DEF LoadTypeOK
  <2>7. LinesOf(text)' = LinesOf(text) /\ LinesOf(input)' = LinesOf(Tail(input))
    BY <2>1 DEF LinesOf
  <2>8. ASSUME fresh
        PROVE  /\ LinesOf(Tail(input)) \subseteq LinesOf(text)
               /\ Recorded' \subseteq LinesOf(text)
               /\ LinesOf(text) \subseteq Recorded' \cup LinesOf(Tail(input))
    <3>1. /\ \A s, t \in LinesOf(text) : s.url = t.url => s = t
          /\ Recorded \subseteq LinesOf(text) /\ LinesOf(input) \subseteq LinesOf(text)
          /\ LinesOf(text) \subseteq Recorded \cup LinesOf(input)
      BY <2>1, <2>8 DEF DumpInv
    <3>2. h \in LinesOf(text) /\ LinesOf(input) = {h} \cup LinesOf(Tail(input))
      BY <2>2, <2>3, <3>1
    <3>3. \A r \in Recorded : r.url = h.url => r = h
      BY <3>1, <3>2
    <3> QED
      BY <2>5, <3>1, <3>2, <3>3
  <2> QED
    BY <2>1, <2>5, <2>6, <2>7, <2>8 DEF DumpInv
<1>7. CASE EndLoad
  <2>1. /\ loading /\ input = <<>> /\ loading' = FALSE
        /\ UNCHANGED <<ids, nextDocID, text, input, fresh>>
    BY <1>7 DEF EndLoad
  <2>2. LinesOf(input) = {}
    BY <2>1, EmptySeq DEF LinesOf
  <2>3. Recorded' = Recorded /\ LinesOf(text)' = LinesOf(text)
    BY <2>1 DEF Recorded, Present, LinesOf
  <2>4. LoadTypeOK'
    BY <1>1, <2>1 DEF LoadTypeOK
  <2> QED
    BY <2>1, <2>2, <2>3, <2>4 DEF DumpInv
<1>8. CASE UNCHANGED loadVars
  <2>1. Recorded' = Recorded /\ LinesOf(text)' = LinesOf(text) /\ LinesOf(input)' = LinesOf(input)
    BY <1>8 DEF loadVars, Recorded, Present, LinesOf
  <2>2. LoadTypeOK' /\ fresh' = fresh /\ loading' = loading
    BY <1>1, <1>8 DEF loadVars, LoadTypeOK
  <2> QED
    BY <2>1, <2>2 DEF DumpInv
<1> QED
  BY <1>2, <1>3, <1>4, <1>5, <1>6, <1>7, <1>8 DEF LoadNext

(* The invariant that both theorems follow from holds in every state. *)
LEMMA DumpInvariant == LoadSpec => []DumpInv
<1>1. LoadInit => DumpInv
  <2> SUFFICES ASSUME LoadInit PROVE DumpInv
    OBVIOUS
  <2>1. Recorded = {} /\ <<>> \in Seq(DumpLine)
    BY EmptySeq DEF LoadInit, Recorded, Present
  <2> QED
    BY <2>1, FS_EmptySet DEF LoadInit, DumpInv, LoadTypeOK
<1>2. DumpInv /\ [LoadNext]_loadVars => DumpInv'
  BY DumpStep
<1> QED
  BY <1>1, <1>2, PTL DEF LoadSpec

-----------------------------------------------------------------------------
(* The database maps URLs to document IDs whatever dump is loaded, and the *)
(* text file holds lines that LoadDB can read. *)
THEOREM LoadTypes == LoadSpec => []LoadTypeOK
<1>1. DumpInv => LoadTypeOK
  BY DEF DumpInv
<1> QED
  BY <1>1, DumpInvariant, PTL

(* The text file restores the database: in whatever order DumpDB wrote the *)
(* documents, and whether LoadDB reads them into the database as it is or  *)
(* into a new one, it ends with the dumped documents. *)
THEOREM DumpRestores == LoadSpec => []RoundTrip
<1>1. DumpInv => RoundTrip
  BY DEF DumpInv, RoundTrip, Recorded, LinesOf
<1> QED
  BY <1>1, DumpInvariant, PTL

-----------------------------------------------------------------------------
(* htnotify.                                                               *)

Note == [page : Noted, subject : {"Malformed Date", "as the page says"}]

Due(p) ==
    ~Valid(Guessed(asked[p].date)) \/ Before(parse_date(asked[p].date), Now)

(* The list of an address has each page once: those that were looked at    *)
(* and whose date has come or cannot be read. *)
NotesInv ==
    /\ asked \in [Noted -> [date : Int \X Int \X Int, email : Emails]]
    /\ iso8601 \in BOOLEAN
    /\ unread \subseteq Noted
    /\ allNotifications \in [Emails -> Seq(Note)]
    /\ \A e \in Emails : \A i, j \in 1..Len(allNotifications[e]) :
          allNotifications[e][i].page = allNotifications[e][j].page => i = j
    /\ \A e \in Emails : \A p \in Noted :
          (\E i \in 1..Len(allNotifications[e]) : allNotifications[e][i].page = p)
              <=> e = asked[p].email /\ p \notin unread /\ Due(p)

(* What is put right in a date, number by number. *)
IsPutRight(y, m, d) ==
    /\ Valid(Order(y, m, d)) <=> 0 <= y /\ 1 <= m /\ m <= 12 /\ 1 <= d /\ d <= 31
    /\ Order(y, m, d).year = y
    /\ DayForMonth(YearForMonth(YearFirst(Order(y, m, d)))) =
         IF d > 31 /\ y <= 31
         THEN IF m > 12 /\ y <= 12 THEN Order(d, y, m) ELSE Order(d, m, y)
         ELSE IF m > 31 /\ y <= 31
         THEN IF y > 12 /\ d <= 12 THEN Order(m, d, y) ELSE Order(m, y, d)
         ELSE IF m > 12 /\ d <= 12 THEN Order(y, d, m) ELSE Order(y, m, d)

(* This is what the code puts right. *)
LEMMA PutRight ==
    ASSUME NEW y \in Int, NEW m \in Int, NEW d \in Int
    PROVE  IsPutRight(y, m, d)
<1>1. ASSUME NEW p, NEW q, NEW r
      PROVE  /\ Order(p, q, r).year = p /\ Order(p, q, r).month = q /\ Order(p, q, r).day = r
             /\ YearFirst(Order(p, q, r)) = IF r > 31 /\ p <= 31 THEN Order(r, q, p) ELSE Order(p, q, r)
             /\ YearForMonth(Order(p, q, r)) = IF q > 31 /\ p <= 31 THEN Order(q, p, r) ELSE Order(p, q, r)
             /\ DayForMonth(Order(p, q, r)) = IF q > 12 /\ r <= 12 THEN Order(p, r, q) ELSE Order(p, q, r)
  BY DEF Order, YearFirst, YearForMonth, DayForMonth
<1>2. Valid(Order(y, m, d)) <=> 0 <= y /\ 1 <= m /\ m <= 12 /\ 1 <= d /\ d <= 31
  BY <1>1 DEF Valid
<1>3. CASE d > 31 /\ y <= 31
  <2>1. YearFirst(Order(y, m, d)) = Order(d, m, y) /\ YearForMonth(Order(d, m, y)) = Order(d, m, y)
    BY <1>1, <1>3
  <2> QED
    BY <1>1, <1>2, <1>3, <2>1 DEF IsPutRight
<1>4. CASE ~(d > 31 /\ y <= 31)
  <2>1. YearFirst(Order(y, m, d)) = Order(y, m, d)
    BY <1>1, <1>4
  <2> QED
    BY <1>1, <1>2, <1>4, <2>1 DEF IsPutRight
<1> QED
  BY <1>3, <1>4

(* A date that is not ambiguous is read as it is meant: the numbers that   *)
(* are in the wrong place are put right. *)
LEMMA GuessedAsMeant ==
    ASSUME iso8601 \in BOOLEAN, NEW n \in Int \X Int \X Int, NEW t \in Meant(n)
    PROVE  Guessed(n) = t /\ Valid(t)
<1> PICK a \in Int, b \in Int, c \in Int : a = n[1] /\ b = n[2] /\ c = n[3]
  OBVIOUS
<1>1. Scanned(n) = IF iso8601 \/ (a > 31 /\ b <= 12 /\ c <= 31) THEN Order(a, b, c)
                   ELSE Order(c, a, b)
  BY DEF Scanned
<1>2. InOrderAsked(n) = IF iso8601 THEN Order(a, b, c) ELSE Order(c, a, b)
  BY DEF InOrderAsked
<1>3. Guessed(n) = DayForMonth(YearForMonth(YearFirst(Scanned(n))))
  BY DEF Guessed
<1>4. IsPutRight(a, b, c) /\ IsPutRight(c, a, b) /\ IsPutRight(c, b, a)
  BY PutRight
<1>5. CASE Valid(InOrderAsked(n))
  <2>1. t = InOrderAsked(n)
    BY <1>5 DEF Meant
  <2>2. CASE iso8601
    BY <1>1, <1>2, <1>3, <1>4, <1>5, <2>1, <2>2 DEF IsPutRight
  <2>3. CASE ~iso8601
    BY <1>1, <1>2, <1>3, <1>4, <1>5, <2>1, <2>3 DEF IsPutRight
  <2> QED
    BY <2>2, <2>3
<1>6. CASE ~Valid(InOrderAsked(n))
  <2>1. Readings(n) = {t} /\ t.year > 31
    BY <1>6 DEF Meant
  <2>2. Valid(t) /\ t \in {Order(a, b, c), Order(c, a, b), Order(c, b, a)}
    BY <2>1 DEF Readings
  <2>3. /\ Valid(Order(a, b, c)) => t = Order(a, b, c)
        /\ Valid(Order(c, a, b)) => t = Order(c, a, b)
        /\ Valid(Order(c, b, a)) => t = Order(c, b, a)
    BY <2>1 DEF Readings
  <2>4. CASE t = Order(a, b, c)
    BY <1>1, <1>2, <1>3, <1>4, <1>6, <2>1, <2>2, <2>4 DEF IsPutRight
  <2>5. CASE t = Order(c, a, b)
    BY <1>1, <1>2, <1>3, <1>4, <1>6, <2>1, <2>2, <2>3, <2>5 DEF IsPutRight
  <2>6. CASE t = Order(c, b, a)
    BY <1>1, <1>2, <1>3, <1>4, <1>6, <2>1, <2>2, <2>3, <2>6 DEF IsPutRight
  <2> QED
    BY <2>2, <2>4, <2>5, <2>6
<1> QED
  BY <1>5, <1>6

(* A list of different pages, and one to which note r was added. *)
Different(s) == \A i, j \in 1..Len(s) : s[i].page = s[j].page => i = j

Grown(s, r, new) ==
    /\ new = Append(s, r) /\ Different(new)
    /\ \A q : (\E i \in 1..Len(new) : new[i].page = q)
                 <=> q = r.page \/ \E i \in 1..Len(s) : s[i].page = q

(* A note about another page can be added. *)
LEMMA ListGrows ==
    ASSUME NEW s \in Seq(Note), NEW r \in Note,
           Different(s), \A i \in 1..Len(s) : s[i].page # r.page
    PROVE  \E new \in Seq(Note) : Grown(s, r, new)
<1> DEFINE new == Append(s, r)
<1>1. Len(s) \in Nat
  BY LenProperties
<1>2. /\ new \in Seq(Note) /\ Len(new) = Len(s) + 1
      /\ \A i \in 1..Len(s) : new[i] = s[i]
      /\ new[Len(s) + 1] = r
  BY AppendProperties
<1> HIDE DEF new
<1>3. 1..Len(new) = (1..Len(s)) \cup {Len(s) + 1} /\ Len(s) + 1 \notin 1..Len(s)
  BY <1>1, <1>2
<1>4. Different(new)
  BY <1>2, <1>3 DEF Different
<1>5. \A q : (\E i \in 1..Len(new) : new[i].page = q)
                <=> q = r.page \/ \E i \in 1..Len(s) : s[i].page = q
  BY <1>2, <1>3
<1> QED
  BY <1>2, <1>4, <1>5 DEF new, Grown

(* A page that is looked at joins the list of its address if it is due.    *)
LEMMA NotesStep ==
    ASSUME NotesInv, [NotifyNext]_notifyVars
    PROVE  NotesInv'
<1>1. /\ asked \in [Noted -> [date : Int \X Int \X Int, email : Emails]]
      /\ iso8601 \in BOOLEAN /\ unread \subseteq Noted
      /\ allNotifications \in [Emails -> Seq(Note)]
  BY DEF NotesInv
<1>2. ASSUME NEW p \in Noted, htnotify(p)
      PROVE  NotesInv'
  <2>1. /\ p \in unread /\ unread' = unread \ {p} /\ UNCHANGED <<asked, iso8601>>
    BY <1>2 DEF htnotify
  <2>2. \A q \in Noted : Due(q)' = Due(q)
    BY <2>1 DEF Due, Guessed, Scanned, parse_date
  <2>3. CASE ~Due(p)
    <3>1. allNotifications' = allNotifications
      BY <1>2, <2>3 DEF htnotify, Due
    <3>2. \A q \in Noted : q \notin unread /\ Due(q) <=> q \notin unread' /\ Due(q)
      BY <2>1, <2>3
    <3> QED
      BY <1>1, <2>1, <2>2, <3>1, <3>2 DEF NotesInv
  <2>4. CASE Due(p)
    <3>1. PICK m \in {"Malformed Date", "as the page says"} : add_notification(p, m)
      BY <1>2, <2>4 DEF htnotify, Due
    <3>2. PICK r \in Note : r = [page |-> p, subject |-> m]
      BY DEF Note
    <3>3. PICK x \in Emails : x = asked[p].email
      BY <1>1
    <3>4. allNotifications' = [allNotifications EXCEPT ![x] = Append(allNotifications[x], r)]
      BY <3>1, <3>2, <3>3 DEF add_notification
    <3>5. PICK old \in Seq(Note) : old = allNotifications[x]
      BY <1>1
    <3>6. old \in Seq(Note) /\ r \in Note /\ r.page = p
      BY <3>2, <3>5
    <3>7. \A i, j \in 1..Len(old) : old[i].page = old[j].page => i = j
      BY <3>5 DEF NotesInv
    <3>8. \A i \in 1..Len(old) : old[i].page # p
      BY <2>1, <3>5 DEF NotesInv
    <3>9. PICK new \in Seq(Note) :
             /\ new = Append(old, r)
             /\ \A i, j \in 1..Len(new) : new[i].page = new[j].page => i = j
             /\ \A q : (\E i \in 1..Len(new) : new[i].page = q)
                          <=> q = p \/ \E i \in 1..Len(old) : old[i].page = q
      <4>1. Different(old) /\ \A i \in 1..Len(old) : old[i].page # r.page
        BY <3>6, <3>7, <3>8 DEF Different
      <4>2. PICK new \in Seq(Note) : Grown(old, r, new)
        BY <3>6, <4>1, ListGrows
      <4>3. \A q : (\E i \in 1..Len(new) : new[i].page = q)
                       <=> q = r.page \/ \E i \in 1..Len(old) : old[i].page = q
        BY <4>2 DEF Grown
      <4>4. /\ new = Append(old, r)
            /\ \A i, j \in 1..Len(new) : new[i].page = new[j].page => i = j
        BY <4>2 DEF Grown, Different
      <4>5. \A q : (\E i \in 1..Len(new) : new[i].page = q)
                       <=> q = p \/ \E i \in 1..Len(old) : old[i].page = q
        BY <3>6, <4>3
      <4> QED
        BY <4>2, <4>4, <4>5
    <3>10. allNotifications' \in [Emails -> Seq(Note)] /\ allNotifications'[x] = new
      BY <1>1, <3>4, <3>5, <3>9
    <3>11. \A e \in Emails : e # x => allNotifications'[e] = allNotifications[e]
      BY <1>1, <3>4
    <3>12. ASSUME NEW e \in Emails, NEW q \in Noted
           PROVE  (\E i \in 1..Len(allNotifications'[e]) : allNotifications'[e][i].page = q)
                      <=> e = asked[q].email /\ q \notin unread' /\ Due(q)
      <4>1. (\E i \in 1..Len(allNotifications[e]) : allNotifications[e][i].page = q)
                <=> e = asked[q].email /\ q \notin unread /\ Due(q)
        BY DEF NotesInv
      <4>2. CASE e = x
        <5>1. (\E i \in 1..Len(old) : old[i].page = q)
                  <=> x = asked[q].email /\ q \notin unread /\ Due(q)
          BY <3>5, <4>1, <4>2
        <5>2. (\E i \in 1..Len(new) : new[i].page = q)
                  <=> x = asked[q].email /\ q \notin unread' /\ Due(q)
          BY <2>1, <2>4, <3>3, <3>9, <5>1
        <5> QED
          BY <3>10, <4>2, <5>2
      <4>3. CASE e # x
        <5>1. e = asked[q].email => q # p
          BY <3>3, <4>3
        <5> QED
          BY <2>1, <3>11, <4>1, <4>3, <5>1
      <4> QED
        BY <4>2, <4>3
    <3>13. \A e \in Emails : \A i, j \in 1..Len(allNotifications'[e]) :
              allNotifications'[e][i].page = allNotifications'[e][j].page => i = j
      <4> SUFFICES ASSUME NEW e \in Emails
                   PROVE  \A i, j \in 1..Len(allNotifications'[e]) :
                             allNotifications'[e][i].page = allNotifications'[e][j].page => i = j
        OBVIOUS
      <4>1. CASE e = x
        <5>1. \A i, j \in 1..Len(new) : new[i].page = new[j].page => i = j
          BY <3>9
        <5>2. allNotifications'[e] = new
          BY <3>10, <4>1
        <5> QED
          BY <5>1, <5>2, Zenon
      <4>2. CASE e # x
        <5>1. \A i, j \in 1..Len(allNotifications[e]) :
                 allNotifications[e][i].page = allNotifications[e][j].page => i = j
          BY DEF NotesInv
        <5>2. allNotifications'[e] = allNotifications[e]
          BY <3>11, <4>2
        <5> QED
          BY <5>1, <5>2, Zenon
      <4> QED
        BY <4>1, <4>2
    <3>14. /\ asked' \in [Noted -> [date : Int \X Int \X Int, email : Emails]]
           /\ iso8601' \in BOOLEAN /\ unread' \subseteq Noted /\ asked' = asked
      BY <1>1, <2>1
    <3>15. \A e \in Emails : \A q \in Noted :
              (\E i \in 1..Len(allNotifications'[e]) : allNotifications'[e][i].page = q)
                 <=> e = asked'[q].email /\ q \notin unread' /\ Due(q)'
      <4> SUFFICES ASSUME NEW e \in Emails, NEW q \in Noted
                   PROVE  (\E i \in 1..Len(allNotifications'[e]) :
                               allNotifications'[e][i].page = q)
                              <=> e = asked'[q].email /\ q \notin unread' /\ Due(q)'
        OBVIOUS
      <4>1. Due(q)' <=> Due(q)
        BY <2>2
      <4>2. asked'[q].email = asked[q].email
        BY <3>14
      <4>3. (\E i \in 1..Len(allNotifications'[e]) : allNotifications'[e][i].page = q)
                <=> e = asked[q].email /\ q \notin unread' /\ Due(q)
        BY <3>12
      <4> QED
        BY <4>1, <4>2, <4>3
    <3> QED
      BY <3>10, <3>13, <3>14, <3>15 DEF NotesInv
  <2> QED
    BY <2>3, <2>4
<1>3. ASSUME NEW e \in Emails, send_notification(e)
      PROVE  NotesInv'
  <2>1. UNCHANGED <<asked, iso8601, unread, allNotifications>>
    BY <1>3 DEF send_notification
  <2>2. \A q \in Noted : Due(q)' = Due(q)
    BY <2>1 DEF Due, Guessed, Scanned, parse_date
  <2>3. iso8601' \in BOOLEAN
    BY <1>1, <2>1
  <2> QED
    BY <1>1, <2>1, <2>2, <2>3 DEF NotesInv
<1>4. CASE UNCHANGED notifyVars
  <2>1. UNCHANGED <<asked, iso8601, unread, allNotifications>>
    BY <1>4 DEF notifyVars
  <2>2. \A q \in Noted : Due(q)' = Due(q)
    BY <2>1 DEF Due, Guessed, Scanned, parse_date
  <2> QED
    BY <2>1, <2>2 DEF NotesInv
<1> QED
  BY <1>2, <1>3, <1>4 DEF NotifyNext

(* A list that names each page once is as long as the set of its pages.    *)
LEMMA PagesCounted ==
    ASSUME NEW s \in Seq(Note), \A i, j \in 1..Len(s) : s[i].page = s[j].page => i = j
    PROVE  Cardinality({s[i].page : i \in 1..Len(s)}) = Len(s)
<1> DEFINE S == {s[i].page : i \in 1..Len(s)}
           f == [i \in 1..Len(s) |-> s[i].page]
<1>1. Len(s) \in Nat
  BY LenProperties
<1>2. f \in Bijection(1..Len(s), S)
  BY DEF Bijection, Injection, Surjection, IsInjective
<1>3. ExistsBijection(1..Len(s), S)
  BY <1>2 DEF ExistsBijection
<1> QED
  BY <1>1, <1>3, FS_CountingElements

(* Whoever left an address in a page is told of it after the day that the  *)
(* page means, in whichever order its author wrote the three numbers, and  *)
(* not before that day; in one mail that lists the page once, and of no    *)
(* page of others (htnotify, parse_date, add_notification,                 *)
(* send_notification). *)
THEOREM ToldOnce == NotifySpec => []ToldOfExpired
<1>1. NotifyInit => NotesInv
  <2> SUFFICES ASSUME NotifyInit PROVE NotesInv
    OBVIOUS
  <2>1. <<>> \in Seq(Note) /\ Len(<<>>) = 0
    BY EmptySeq
  <2>2. \A e \in Emails : allNotifications[e] = <<>>
    BY DEF NotifyInit
  <2>3. asked \in [Noted -> [date : Int \X Int \X Int, email : Emails]]
    BY NotifyAssumption DEF NotifyInit
  <2>4. allNotifications \in [Emails -> Seq(Note)]
    BY <2>1 DEF NotifyInit
  <2>5. unread = Noted /\ iso8601 \in BOOLEAN
    BY DEF NotifyInit
  <2> QED
    BY <2>1, <2>2, <2>3, <2>4, <2>5 DEF NotesInv
<1>2. NotesInv /\ [NotifyNext]_notifyVars => NotesInv'
  BY NotesStep
<1>3. NotesInv => ToldOfExpired
  <2> SUFFICES ASSUME NotesInv, unread = {}, \A e \in Emails : mailed[e] = allNotifications[e]
               PROVE  ToldOfExpired
    BY DEF ToldOfExpired, AllMailed
  <2>1. ASSUME NEW e \in Emails
        PROVE  /\ mailed[e] \in Seq(Note)
               /\ \A i, j \in 1..Len(mailed[e]) : mailed[e][i].page = mailed[e][j].page => i = j
               /\ \A p \in Noted : p \in Listed(e) <=> e = asked[p].email /\ Due(p)
    <3>1. mailed[e] = allNotifications[e] /\ allNotifications[e] \in Seq(Note)
      BY DEF NotesInv
    <3>2. \A i, j \in 1..Len(mailed[e]) : mailed[e][i].page = mailed[e][j].page => i = j
      BY <3>1 DEF NotesInv
    <3>3. ASSUME NEW p \in Noted
          PROVE  p \in Listed(e) <=> e = asked[p].email /\ Due(p)
      <4>1. (\E i \in 1..Len(allNotifications[e]) : allNotifications[e][i].page = p)
                <=> e = asked[p].email /\ p \notin unread /\ Due(p)
        BY DEF NotesInv
      <4>2. p \in Listed(e) <=> \E i \in 1..Len(mailed[e]) : mailed[e][i].page = p
        BY DEF Listed
      <4> QED
        BY <3>1, <4>1, <4>2
    <3> QED
      BY <3>1, <3>2, <3>3
  <2>2. \A e \in Emails : Cardinality(Listed(e)) = Len(mailed[e])
    BY <2>1, PagesCounted DEF Listed
  <2>3. ASSUME NEW p \in Noted, NEW t \in Meant(asked[p].date)
        PROVE  Due(p) <=> Before(Day(t), Now)
    <3>1. asked[p].date \in Int \X Int \X Int /\ iso8601 \in BOOLEAN
      BY DEF NotesInv
    <3>2. Guessed(asked[p].date) = t /\ Valid(t)
      BY <3>1, GuessedAsMeant
    <3> QED
      BY <3>2 DEF Due, parse_date, Day
  <2>4. ASSUME NEW p \in Noted, NEW t \in Meant(asked[p].date), Before(Day(t), Now)
        PROVE  ~Before(Now, Day(t))
    <3>1. asked[p].date \in Int \X Int \X Int
      BY DEF NotesInv
    <3>2. t \in [year : Int, month : Int, day : Int]
      <4> PICK a \in Int, b \in Int, c \in Int :
              a = asked[p].date[1] /\ b = asked[p].date[2] /\ c = asked[p].date[3]
        BY <3>1
      <4>1. t \in {Order(a, b, c), Order(c, a, b), Order(c, b, a)}
        BY DEF Meant, Readings, InOrderAsked
      <4> QED
        BY <4>1 DEF Order
    <3>3. /\ Day(t).year = FullYear(t.year) /\ Day(t).month = t.month /\ Day(t).day = t.day
          /\ FullYear(t.year) \in Int
      BY <3>2 DEF Day, FullYear
    <3> QED
      BY <2>4, <3>2, <3>3, NotifyAssumption DEF Before
  <2> QED
    BY <2>1, <2>2, <2>3, <2>4 DEF ToldOfExpired, AllMailed
<1> QED
  BY <1>1, <1>2, <1>3, PTL DEF NotifySpec

-----------------------------------------------------------------------------
(* Dictionary. *)

(* Pairs of numbers, the first of which is smaller. *)
Below == {p \in Nat \X Nat : p[1] < p[2]}

(* Induction over the numbers, for sets of them. *)
LEMMA FromZero ==
    ASSUME NEW S, 0 \in S, \A n \in S \cap Nat : n + 1 \in S
    PROVE  Nat \subseteq S
<1> SUFFICES ASSUME Nat \ S # {} PROVE FALSE
  OBVIOUS
<1>1. OpToRel(<, Nat) = Below
  BY DEF OpToRel, Below
<1>2. IsWellFoundedOn(Below, Nat)
  BY <1>1, NatLessThanWellFounded
<1>3. PICK x \in Nat \ S : \A y \in Nat \ S : ~(<<y, x>> \in Below)
  BY <1>2, WFMin
<1>4. x # 0 /\ x \in Nat /\ x - 1 \in Nat /\ x - 1 < x
  OBVIOUS
<1>5. <<x - 1, x>> \in Below
  BY <1>4 DEF Below
<1>6. x - 1 \in S
  BY <1>3, <1>4, <1>5
<1> QED
  BY <1>4, <1>6

-----------------------------------------------------------------------------
(* Chains. *)
Unique(s) == \A i, j \in 1..Len(s) : s[i] = s[j] => i = j

(* An entry put to the front of a chain: the others move up by one place,  *)
(* and where it is new every key is still there once. *)
LEMMA Prepended ==
    ASSUME NEW S, NEW s \in Seq(S), NEW x \in S
    PROVE  LET u == <<x>> \o s
           IN /\ u \in Seq(S) /\ Len(s) \in Nat /\ Len(u) = Len(s) + 1
              /\ u[1] = x /\ \A i \in 1..Len(s) : u[i + 1] = s[i]
              /\ ToSet(u) = ToSet(s) \cup {x}
              /\ Unique(s) /\ x \notin ToSet(s) => Unique(u)
<1> DEFINE u == <<x>> \o s
<1>1. <<x>> \in Seq(S) /\ Len(<<x>>) = 1 /\ <<x>>[1] = x
  OBVIOUS
<1>2. /\ u \in Seq(S) /\ Len(s) \in Nat /\ Len(u) = Len(s) + 1
      /\ DOMAIN u = 1..Len(u) /\ DOMAIN s = 1..Len(s)
      /\ u[1] = x
  BY <1>1, ConcatProperties, LenProperties
<1>3. ASSUME NEW i \in 1..Len(s) PROVE u[i + 1] = s[i]
  <2>1. i + 1 \in 1..Len(u) /\ i + 1 > Len(<<x>>) /\ (i + 1) - Len(<<x>>) = i
    BY <1>1, <1>2
  <2> QED
    BY <1>1, <2>1, ConcatProperties
<1> HIDE DEF u
<1>4. \A j \in 1..Len(u) : j = 1 \/ (j - 1 \in 1..Len(s) /\ u[j] = s[j - 1])
  BY <1>2, <1>3
<1>5. ToSet(u) = ToSet(s) \cup {x}
  <2>1. ToSet(s) \subseteq ToSet(u)
    BY <1>2, <1>3 DEF ToSet
  <2>2. x \in ToSet(u)
    BY <1>2 DEF ToSet
  <2>3. ToSet(u) \subseteq ToSet(s) \cup {x}
    BY <1>2, <1>4 DEF ToSet
  <2> QED
    BY <2>1, <2>2, <2>3
<1>6. ASSUME Unique(s), x \notin ToSet(s) PROVE Unique(u)
  <2> SUFFICES ASSUME NEW i \in 1..Len(u), NEW j \in 1..Len(u), u[i] = u[j] PROVE i = j
    BY DEF Unique
  <2>1. \A k \in 1..Len(s) : s[k] # x
    BY <1>2, <1>6 DEF ToSet
  <2>2. CASE i = 1 \/ j = 1
    BY <1>2, <1>4, <2>1, <2>2
  <2>3. CASE i # 1 /\ j # 1
    <3>1. i - 1 \in 1..Len(s) /\ j - 1 \in 1..Len(s) /\ s[i - 1] = s[j - 1]
      BY <1>4, <2>3
    <3>2. i - 1 = j - 1
      BY <1>6, <3>1 DEF Unique
    <3> QED
      BY <1>2, <3>2
  <2> QED
    BY <2>2, <2>3
<1> QED
  BY <1>2, <1>3, <1>5, <1>6 DEF u

(* An entry taken out of a chain: the others keep their order, and every   *)
(* key is there once. *)
LEMMA Dropped ==
    ASSUME NEW S, NEW s \in Seq(S), Unique(s), NEW p \in 1..Len(s)
    PROVE  LET u == SubSeq(s, 1, p - 1) \o SubSeq(s, p + 1, Len(s))
           IN /\ u \in Seq(S) /\ Len(s) \in Nat /\ Len(u) = Len(s) - 1
              /\ \A i \in 1..Len(u) : u[i] = IF i < p THEN s[i] ELSE s[i + 1]
              /\ ToSet(u) = ToSet(s) \ {s[p]}
              /\ Unique(u)
<1> DEFINE a == SubSeq(s, 1, p - 1)
           c == SubSeq(s, p + 1, Len(s))
           u == a \o c
<1>1. Len(s) \in Nat /\ DOMAIN s = 1..Len(s) /\ \A i \in 1..Len(s) : s[i] \in S
  BY LenProperties, ElementOfSeq
<1>2. a \in Seq(S) /\ Len(a) = p - 1 /\ \A i \in 1..p - 1 : a[i] = s[i]
  <2>1. CASE p = 1
    BY <1>1, <2>1, SubSeqProperties, EmptySeq
  <2>2. CASE p # 1
    BY <1>1, <2>2, SubSeqProperties
  <2> QED
    BY <2>1, <2>2
<1>3. c \in Seq(S) /\ Len(c) = Len(s) - p /\ \A i \in 1..Len(s) - p : c[i] = s[p + i]
  <2>1. CASE p = Len(s)
    BY <1>1, <2>1, SubSeqProperties, EmptySeq
  <2>2. CASE p # Len(s)
    <3>1. p + 1 \in Int /\ Len(s) \in Int /\ p + 1 <= Len(s) /\ Len(s) - (p + 1) + 1 = Len(s) - p
      <4>1. p # Len(s)
        BY <2>2
      <4>2. Len(s) \in Nat
        BY <1>1
      <4>3. p <= Len(s) /\ p \in Nat
        BY <4>2
      <4> HIDE DEF a, c, u
      <4> QED
        BY <4>1, <4>2, <4>3
    <3>2. c \in Seq(S) /\ Len(c) = Len(s) - p
      BY <1>1, <3>1, SubSeqProperties
    <3>3. ASSUME NEW i \in 1..Len(s) - p PROVE c[i] = s[p + i]
      <4>1. (p + 1) + i - 1 = p + i /\ i \in 1..Len(s) - (p + 1) + 1
        BY <1>1
      <4>2. c[i] = s[(p + 1) + i - 1]
        BY <1>1, <3>1, <4>1, SubSeqProperties
      <4> QED
        BY <4>1, <4>2
    <3> QED
      BY <3>2, <3>3
  <2> QED
    BY <2>1, <2>2
<1> HIDE DEF a, c
<1>4. u \in Seq(S) /\ Len(u) = Len(s) - 1 /\ DOMAIN u = 1..Len(u)
  <2>1. u \in Seq(S) /\ Len(u) = Len(a) + Len(c)
    BY <1>2, <1>3, ConcatProperties
  <2>2. Len(a) + Len(c) = Len(s) - 1
    BY <1>1, <1>2, <1>3
  <2> QED
    BY <2>1, <2>2, LenProperties
<1>5. \A i \in 1..Len(u) : u[i] = IF i < p THEN s[i] ELSE s[i + 1]
  <2> SUFFICES ASSUME NEW i \in 1..Len(u) PROVE u[i] = IF i < p THEN s[i] ELSE s[i + 1]
    OBVIOUS
  <2>1. u[i] = IF i <= Len(a) THEN a[i] ELSE c[i - Len(a)]
    BY <1>2, <1>3, <1>4, ConcatProperties
  <2>2. CASE i < p
    BY <1>1, <1>2, <2>1, <2>2
  <2>3. CASE ~(i < p)
    <3>1. ~(i <= Len(a)) /\ i - Len(a) \in 1..Len(s) - p /\ p + (i - Len(a)) = i + 1
      <4>1. Len(a) = p - 1 /\ Len(u) = Len(s) - 1 /\ Len(s) \in Nat
        BY <1>1, <1>2, <1>4
      <4> QED
        BY <2>3, <4>1
    <3> QED
      BY <1>3, <2>1, <2>3, <3>1
  <2> QED
    BY <2>2, <2>3
<1> HIDE DEF u
<1>6. ToSet(u) = ToSet(s) \ {s[p]}
  <2>1. ASSUME NEW x \in ToSet(u) PROVE x \in ToSet(s) \ {s[p]}
    <3>1. PICK i \in 1..Len(u) : x = u[i]
      BY <1>4 DEF ToSet
    <3>2. PICK j \in 1..Len(s) : x = s[j] /\ j # p
      <4>1. CASE i < p
        BY <1>1, <1>4, <1>5, <3>1, <4>1
      <4>2. CASE ~(i < p)
        BY <1>1, <1>4, <1>5, <3>1, <4>2
      <4> QED
        BY <4>1, <4>2
    <3> QED
      BY <1>1, <3>2 DEF ToSet, Unique
  <2>2. ASSUME NEW x \in ToSet(s) \ {s[p]} PROVE x \in ToSet(u)
    <3>1. PICK j \in 1..Len(s) : x = s[j] /\ j # p
      BY <1>1 DEF ToSet
    <3>2. PICK i \in 1..Len(u) : x = u[i]
      <4>1. CASE j < p
        BY <1>1, <1>4, <1>5, <3>1, <4>1
      <4>2. CASE ~(j < p)
        <5>1. j - 1 \in 1..Len(u) /\ ~(j - 1 < p) /\ (j - 1) + 1 = j
          BY <1>1, <1>4, <3>1, <4>2
        <5> QED
          BY <1>5, <3>1, <5>1
      <4> QED
        BY <4>1, <4>2
    <3> QED
      BY <1>4, <3>2 DEF ToSet
  <2> QED
    BY <2>1, <2>2
<1>7. Unique(u)
  <2> SUFFICES ASSUME NEW i \in 1..Len(u), NEW j \in 1..Len(u), u[i] = u[j] PROVE i = j
    BY DEF Unique
  <2> DEFINE from(n) == IF n < p THEN n ELSE n + 1
  <2>1. from(i) \in 1..Len(s) /\ from(j) \in 1..Len(s)
    BY <1>1, <1>4
  <2>2. u[i] = s[from(i)] /\ u[j] = s[from(j)]
    BY <1>5
  <2>3. from(i) = from(j)
    BY <2>1, <2>2 DEF Unique
  <2> QED
    BY <1>1, <1>4, <2>3
<1> QED
  BY <1>1, <1>4, <1>5, <1>6, <1>7 DEF u, a, c

-----------------------------------------------------------------------------
(* A table of n chains with the keys in some.  *)
IsTable(t, n, some) ==
    /\ t \in [0..n - 1 -> Seq(Keys)]
    /\ \A b \in 0..n - 1 : ToSet(t[b]) = {k \in some : Hash[k] % n = b} /\ Unique(t[b])

(* The length of a table is the number of its chains. *)
LEMMA LengthIs ==
    ASSUME NEW n \in Nat, NEW S, NEW t \in [0..n - 1 -> S]
    PROVE  Length(t) = n
<1>1. DOMAIN t = 0..n - 1
  OBVIOUS
<1>2. Cardinality(0..n - 1) = n
  <2>1. 0 \in Int /\ n - 1 \in Int
    OBVIOUS
  <2>2. Cardinality(0..n - 1) = IF 0 > n - 1 THEN 0 ELSE (n - 1) - 0 + 1
    BY <2>1, FS_Interval, Zenon
  <2> QED
    BY <2>2
<1> QED
  BY <1>1, <1>2 DEF Length

(* The chain of a key is the one its hash selects (Dictionary::hashCode). *)
LEMMA BucketIs ==
    ASSUME NEW n \in Nat \ {0}, NEW t, NEW some, IsTable(t, n, some), NEW k \in Keys
    PROVE  Length(t) = n /\ Bucket(t, k) = Hash[k] % n /\ Bucket(t, k) \in 0..n - 1
<1>1. Length(t) = n
  BY LengthIs DEF IsTable
<1>2. Hash[k] \in Nat
  BY DictionaryAssumption
<1>3. Hash[k] % n \in 0..n - 1
  BY <1>2
<1> QED
  BY <1>1, <1>3 DEF Bucket

(* A new table is the table of no keys (Dictionary::init). *)
LEMMA EmptyTable ==
    ASSUME NEW n \in Nat
    PROVE  IsTable(Empty(n), n, {})
<1>1. <<>> \in Seq(Keys) /\ ToSet(<<>>) = {} /\ Unique(<<>>)
  BY EmptySeq DEF ToSet, Unique
<1>2. Empty(n) = [i \in 0..n - 1 |-> <<>>]
  BY DEF Empty
<1>3. \A b \in 0..n - 1 : Empty(n)[b] = <<>>
  BY <1>2
<1>4. Empty(n) \in [0..n - 1 -> Seq(Keys)]
  BY <1>1, <1>2
<1> QED
  BY <1>1, <1>3, <1>4 DEF IsTable

(* Adding a key that is not there makes a table of one key more, with the  *)
(* key at the front of its chain (Dictionary::Add). *)
LEMMA InsertTable ==
    ASSUME NEW n \in Nat \ {0}, NEW t, NEW some, some \subseteq Keys, IsTable(t, n, some),
           NEW k \in Keys, k \notin some
    PROVE  /\ IsTable(Insert(t, k), n, some \cup {k})
           /\ \A b \in 0..n - 1 : Insert(t, k)[b] = IF b = Bucket(t, k) THEN <<k>> \o t[b] ELSE t[b]
<1> DEFINE h == Bucket(t, k)
           u == Insert(t, k)
<1>1. h = Hash[k] % n /\ h \in 0..n - 1
  BY BucketIs
<1>2. t \in [0..n - 1 -> Seq(Keys)] /\ t[h] \in Seq(Keys)
  BY <1>1 DEF IsTable
<1>3. k \notin ToSet(t[h]) /\ Unique(t[h])
  BY <1>1 DEF IsTable
<1>4. PICK s : s = <<k>> \o t[h]
  OBVIOUS
<1>5. s \in Seq(Keys) /\ ToSet(s) = ToSet(t[h]) \cup {k} /\ Unique(s)
  BY <1>2, <1>3, <1>4, Prepended
<1>6. u = [t EXCEPT ![h] = s]
  BY <1>4 DEF Insert
<1> HIDE DEF u, h
<1>7. u \in [0..n - 1 -> Seq(Keys)] /\ \A b \in 0..n - 1 : u[b] = IF b = h THEN s ELSE t[b]
  BY <1>1, <1>2, <1>5, <1>6
<1>8. ASSUME NEW b \in 0..n - 1
      PROVE  ToSet(u[b]) = {x \in some \cup {k} : Hash[x] % n = b} /\ Unique(u[b])
  <2>1. ToSet(t[b]) = {x \in some : Hash[x] % n = b} /\ Unique(t[b])
    BY DEF IsTable
  <2>2. CASE b = h
    BY <1>1, <1>5, <1>7, <2>1, <2>2
  <2>3. CASE b # h
    BY <1>1, <1>7, <2>1, <2>3
  <2> QED
    BY <2>2, <2>3
<1>9. \A b \in 0..n - 1 : u[b] = IF b = h THEN <<k>> \o t[b] ELSE t[b]
  BY <1>4, <1>7
<1> QED
  BY <1>7, <1>8, <1>9 DEF IsTable, u, h

-----------------------------------------------------------------------------
(* The entries of a chain, one after the other. *)
Moving(f, t, chain, n) == f = [i \in 0..n |-> IF i = 0 THEN t ELSE Insert(f[i - 1], chain[i])]

(* The entries of a chain can be moved one after the other. *)
LEMMA MovesExist ==
    ASSUME NEW t, NEW chain
    PROVE  \A n \in Nat : \E f : Moving(f, t, chain, n)
<1> DEFINE S == {n \in Nat : \E f : Moving(f, t, chain, n)}
<1>1. 0 \in S
  <2> DEFINE f == [i \in 0..0 |-> t]
  <2>1. f = [i \in 0..0 |-> IF i = 0 THEN t ELSE Insert(f[i - 1], chain[i])]
    OBVIOUS
  <2>2. Moving(f, t, chain, 0)
    BY <2>1 DEF Moving
  <2> QED
    BY <2>2
<1>2. ASSUME NEW n \in S \cap Nat PROVE n + 1 \in S
  <2>1. PICK f : Moving(f, t, chain, n)
    OBVIOUS
  <2> DEFINE g == [i \in 0..(n + 1) |-> IF i = n + 1 THEN Insert(f[n], chain[n + 1]) ELSE f[i]]
             h == [i \in 0..(n + 1) |-> IF i = 0 THEN t ELSE Insert(g[i - 1], chain[i])]
  <2>2. ASSUME NEW i \in 0..(n + 1) PROVE g[i] = h[i]
    <3>1. CASE i = n + 1
      BY <3>1
    <3>2. CASE i = 0
      BY <2>1, <3>2 DEF Moving
    <3>3. CASE i \in 1..n
      <4>1. g[i] = f[i] /\ g[i - 1] = f[i - 1] /\ h[i] = Insert(g[i - 1], chain[i])
        BY <3>3
      <4>2. f[i] = Insert(f[i - 1], chain[i])
        BY <2>1, <3>3 DEF Moving
      <4> QED
        BY <4>1, <4>2
    <3> QED
      BY <3>1, <3>2, <3>3
  <2>3. g = h
    BY <2>2
  <2>4. Moving(g, t, chain, n + 1)
    BY <2>3 DEF Moving
  <2> HIDE DEF g
  <2> QED
    BY <2>4
<1> HIDE DEF S
<1>3. Nat \subseteq S
  BY <1>1, <1>2, FromZero
<1> QED
  BY <1>3 DEF S

(* Moving the entries of a chain to a table makes it the table of its keys *)
(* and theirs (the inner loop of Dictionary::rehash). *)
LEMMA MoveTable ==
    ASSUME NEW n \in Nat \ {0}, NEW t, NEW some, some \subseteq Keys, IsTable(t, n, some),
           NEW chain \in Seq(Keys), Unique(chain), ToSet(chain) \cap some = {}
    PROVE  IsTable(MovedTo(t, chain), n, some \cup ToSet(chain))
<1>1. Len(chain) \in Nat /\ DOMAIN chain = 1..Len(chain) /\ \A i \in 1..Len(chain) : chain[i] \in Keys
  BY LenProperties, ElementOfSeq
<1> DEFINE to == CHOOSE f : Moving(f, t, chain, Len(chain))
<1>2. Moving(to, t, chain, Len(chain))
  BY <1>1, MovesExist
<1>3. MovedTo(t, chain) = to[Len(chain)]
  BY DEF MovedTo, Moving
<1> HIDE DEF to
<1>4. to[0] = t /\ \A i \in 1..Len(chain) : to[i] = Insert(to[i - 1], chain[i])
  BY <1>1, <1>2 DEF Moving
<1> DEFINE moved(i) == some \cup {chain[j] : j \in 1..i}
           S == {i \in Nat : i <= Len(chain) => IsTable(to[i], n, moved(i))}
<1>5. 0 \in S
  <2>1. moved(0) = some
    OBVIOUS
  <2> QED
    BY <1>4, <2>1
<1>6. ASSUME NEW i \in S \cap Nat PROVE i + 1 \in S
  <2> SUFFICES ASSUME i + 1 <= Len(chain) PROVE IsTable(to[i + 1], n, moved(i + 1))
    OBVIOUS
  <2>1. IsTable(to[i], n, moved(i)) /\ i + 1 \in 1..Len(chain) /\ (i + 1) - 1 = i
    BY <1>1
  <2>2. to[i + 1] = Insert(to[i], chain[i + 1])
    BY <1>4, <2>1
  <2>3. moved(i + 1) = moved(i) \cup {chain[i + 1]}
    BY <2>1
  <2>4. moved(i) \subseteq Keys /\ chain[i + 1] \in Keys
    BY <1>1, <2>1
  <2>5. chain[i + 1] \notin moved(i)
    <3>1. chain[i + 1] \notin some
      BY <1>1, <2>1 DEF ToSet
    <3>2. \A j \in 1..i : chain[j] # chain[i + 1]
      BY <1>1, <2>1 DEF Unique
    <3> QED
      BY <3>1, <3>2
  <2> HIDE DEF moved
  <2>6. PICK k \in Keys : k = chain[i + 1]
    BY <2>4
  <2>7. PICK m : m = moved(i)
    OBVIOUS
  <2>8. IsTable(Insert(to[i], k), n, m \cup {k})
    BY <2>1, <2>4, <2>5, <2>6, <2>7, InsertTable
  <2> QED
    BY <2>2, <2>3, <2>6, <2>7, <2>8
<1> HIDE DEF S
<1>7. Len(chain) \in S
  BY <1>1, <1>5, <1>6, FromZero
<1>8. moved(Len(chain)) = some \cup ToSet(chain)
  BY <1>1 DEF ToSet
<1> HIDE DEF moved
<1>9. IsTable(to[Len(chain)], n, moved(Len(chain)))
  BY <1>1, <1>7 DEF S
<1> QED
  BY <1>3, <1>8, <1>9

-----------------------------------------------------------------------------
(* The chains, from the last to the first. *)
Emptying(f, n, old, m) ==
    f = [i \in 0..m |-> IF i = 0 THEN Empty(n) ELSE MovedTo(f[i - 1], table[old - i])]

(* The chains of a table can be emptied one after the other. *)
LEMMA EmptyingExists ==
    ASSUME NEW n, NEW old
    PROVE  \A m \in Nat : \E f : Emptying(f, n, old, m)
<1> DEFINE S == {m \in Nat : \E f : Emptying(f, n, old, m)}
<1>1. 0 \in S
  <2> DEFINE f == [i \in 0..0 |-> Empty(n)]
  <2>1. f = [i \in 0..0 |-> IF i = 0 THEN Empty(n) ELSE MovedTo(f[i - 1], table[old - i])]
    OBVIOUS
  <2>2. Emptying(f, n, old, 0)
    BY <2>1 DEF Emptying
  <2> QED
    BY <2>2
<1>2. ASSUME NEW m \in S \cap Nat PROVE m + 1 \in S
  <2>1. PICK f : Emptying(f, n, old, m)
    OBVIOUS
  <2> DEFINE g == [i \in 0..(m + 1) |-> IF i = m + 1 THEN MovedTo(f[m], table[old - (m + 1)]) ELSE f[i]]
             h == [i \in 0..(m + 1) |-> IF i = 0 THEN Empty(n) ELSE MovedTo(g[i - 1], table[old - i])]
  <2>2. ASSUME NEW i \in 0..(m + 1) PROVE g[i] = h[i]
    <3>1. CASE i = m + 1
      BY <3>1
    <3>2. CASE i = 0
      BY <2>1, <3>2 DEF Emptying
    <3>3. CASE i \in 1..m
      <4>1. g[i] = f[i] /\ g[i - 1] = f[i - 1] /\ h[i] = MovedTo(g[i - 1], table[old - i])
        BY <3>3
      <4>2. f[i] = MovedTo(f[i - 1], table[old - i])
        BY <2>1, <3>3 DEF Emptying
      <4> QED
        BY <4>1, <4>2
    <3> QED
      BY <3>1, <3>2, <3>3
  <2>3. g = h
    BY <2>2
  <2>4. Emptying(g, n, old, m + 1)
    BY <2>3 DEF Emptying
  <2> HIDE DEF g
  <2> QED
    BY <2>4
<1> HIDE DEF S
<1>3. Nat \subseteq S
  BY <1>1, <1>2, FromZero
<1> QED
  BY <1>3 DEF S

(* A rehash makes a table of the same keys that is no shorter. *)
LEMMA RehashedTable ==
    ASSUME NEW old \in Nat \ {0}, count \in Nat, NEW some, some \subseteq Keys, IsTable(table, old, some)
    PROVE  \E n \in Nat \ {0} : n >= old /\ IsTable(Rehashed, n, some)
<1> DEFINE n == IF count > old THEN count * 2 + 1 ELSE old * 2 + 1
           to == CHOOSE f : Emptying(f, n, old, old)
<1>1. n \in Nat \ {0} /\ n >= old /\ Length(table) = old
  <2>1. Length(table) = old
    BY LengthIs DEF IsTable
  <2>2. /\ count * 2 + 1 \in Nat \ {0} /\ old * 2 + 1 \in Nat \ {0} /\ old * 2 + 1 >= old
        /\ count > old => count * 2 + 1 >= old
    OBVIOUS
  <2> QED
    BY <2>1, <2>2
<1>2. Emptying(to, n, old, old)
  BY EmptyingExists
<1>3. Rehashed = to[old]
  BY <1>1 DEF Rehashed, Emptying
<1> HIDE DEF to, n
<1>4. to[0] = Empty(n) /\ \A i \in 1..old : to[i] = MovedTo(to[i - 1], table[old - i])
  BY <1>2 DEF Emptying
<1> DEFINE last(i) == {k \in some : Hash[k] % old >= old - i}
           S == {i \in Nat : i <= old => IsTable(to[i], n, last(i))}
<1>5. \A k \in some : Hash[k] % old \in 0..old - 1
  BY DictionaryAssumption
<1>6. 0 \in S
  <2>1. last(0) = {}
    BY <1>5
  <2> HIDE DEF last
  <2> QED
    BY <1>1, <1>4, <2>1, EmptyTable
<1>7. ASSUME NEW i \in S \cap Nat PROVE i + 1 \in S
  <2> SUFFICES ASSUME i + 1 <= old PROVE IsTable(to[i + 1], n, last(i + 1))
    OBVIOUS
  <2>1. IsTable(to[i], n, last(i)) /\ i + 1 \in 1..old /\ (i + 1) - 1 = i
    OBVIOUS
  <2> DEFINE b == old - (i + 1)
             chain == table[b]
  <2>2. to[i + 1] = MovedTo(to[i], chain)
    BY <1>4, <2>1
  <2>3. b \in 0..old - 1 /\ b + 1 = old - i
    BY <2>1
  <2>4. chain \in Seq(Keys) /\ Unique(chain) /\ ToSet(chain) = {k \in some : Hash[k] % old = b}
    BY <2>3 DEF IsTable
  <2>5. ToSet(chain) \cap last(i) = {} /\ last(i + 1) = last(i) \cup ToSet(chain)
    <3>1. ASSUME NEW k \in some
          PROVE  Hash[k] % old >= old - (i + 1) <=> (Hash[k] % old >= old - i \/ Hash[k] % old = b)
      <4>1. PICK x \in 0..old - 1 : x = Hash[k] % old
        BY <1>5
      <4>2. x >= old - (i + 1) <=> (x >= old - i \/ x = b)
        BY <2>1, <2>3
      <4> QED
        BY <4>1, <4>2
    <3>2. ASSUME NEW k \in some, Hash[k] % old = b PROVE ~(Hash[k] % old >= old - i)
      BY <2>3, <3>2
    <3> QED
      BY <2>4, <3>1, <3>2
  <2>6. last(i) \subseteq Keys
    OBVIOUS
  <2> HIDE DEF last, chain
  <2> QED
    BY <1>1, <2>1, <2>2, <2>4, <2>5, <2>6, MoveTable
<1> HIDE DEF S
<1>8. old \in S
  BY <1>6, <1>7, FromZero
<1>9. last(old) = some
  BY <1>5
<1> QED
  BY <1>1, <1>3, <1>8, <1>9 DEF S

-----------------------------------------------------------------------------
PlaceIn(t, k) == CHOOSE i \in 1..Len(t[Bucket(t, k)]) : t[Bucket(t, k)][i] = k

(* A key that is held is in the chain its hash selects, and there once. *)
LEMMA PlaceIs ==
    ASSUME NEW n \in Nat \ {0}, NEW t, NEW some, some \subseteq Keys, IsTable(t, n, some), NEW k \in some
    PROVE  LET chain == t[Bucket(t, k)]
           IN /\ Bucket(t, k) \in 0..n - 1
              /\ chain \in Seq(Keys) /\ Unique(chain) /\ Len(chain) \in Nat
              /\ PlaceIn(t, k) \in 1..Len(chain) /\ PlaceIn(t, k) \in Nat
              /\ chain[PlaceIn(t, k)] = k
              /\ \A i \in 1..Len(chain) : chain[i] = k => i = PlaceIn(t, k)
<1> DEFINE b == Bucket(t, k)
           chain == t[b]
<1>1. b = Hash[k] % n /\ b \in 0..n - 1
  BY BucketIs
<1> HIDE DEF b
<1>2. chain \in Seq(Keys) /\ Unique(chain) /\ k \in ToSet(chain)
  BY <1>1 DEF IsTable
<1>3. Len(chain) \in Nat /\ DOMAIN chain = 1..Len(chain)
  BY <1>2, LenProperties
<1>4. PICK i \in 1..Len(chain) : chain[i] = k
  BY <1>2, <1>3 DEF ToSet
<1>5. PlaceIn(t, k) \in 1..Len(chain) /\ chain[PlaceIn(t, k)] = k
  BY <1>4 DEF PlaceIn, b
<1>6. \A j \in 1..Len(chain) : chain[j] = k => j = PlaceIn(t, k)
  BY <1>2, <1>5 DEF Unique
<1> QED
  BY <1>1, <1>2, <1>3, <1>5, <1>6 DEF b

(* Where a chain has a key is the key's place. *)
LEMMA OnePlace ==
    ASSUME NEW n \in Nat \ {0}, NEW t, NEW some, some \subseteq Keys, IsTable(t, n, some), NEW k \in some,
           NEW i \in 1..Len(t[Bucket(t, k)]), t[Bucket(t, k)][i] = k
    PROVE  i = PlaceIn(t, k)
  BY PlaceIs

(* The entry at a place of a chain is a key that is held, and that is its  *)
(* place. *)
LEMMA KeyAt ==
    ASSUME NEW n \in Nat \ {0}, NEW t, NEW some, some \subseteq Keys, IsTable(t, n, some),
           NEW b \in 0..n - 1, NEW i \in 1..Len(t[b])
    PROVE  /\ t[b][i] \in some /\ Bucket(t, t[b][i]) = b /\ PlaceIn(t, t[b][i]) = i
<1>1. t[b] \in Seq(Keys) /\ ToSet(t[b]) = {k \in some : Hash[k] % n = b}
  BY DEF IsTable
<1>2. DOMAIN t[b] = 1..Len(t[b])
  BY <1>1, LenProperties
<1>3. PICK k : k = t[b][i]
  OBVIOUS
<1>4. k \in some /\ Hash[k] % n = b
  BY <1>1, <1>2, <1>3 DEF ToSet
<1>5. Bucket(t, k) = b
  BY <1>4, BucketIs
<1>6. i = PlaceIn(t, k)
  BY <1>3, <1>4, <1>5, PlaceIs
<1> QED
  BY <1>3, <1>4, <1>5, <1>6

(* The keys are in the same chains, and in the same order. *)
SameOrder(t, u, some) ==
    \A x, y \in some :
        /\ Bucket(u, x) = Bucket(t, x)
        /\ Bucket(t, x) = Bucket(t, y) =>
                (PlaceIn(u, x) <= PlaceIn(u, y) <=> PlaceIn(t, x) <= PlaceIn(t, y))

(* Adding a key leaves the order of the others alone. *)
LEMMA InsertOrder ==
    ASSUME NEW n \in Nat \ {0}, NEW t, NEW some, some \subseteq Keys, IsTable(t, n, some),
           NEW k \in Keys, k \notin some
    PROVE  SameOrder(t, Insert(t, k), some)
<1> DEFINE h == Bucket(t, k)
           d(x) == IF Bucket(t, x) = h THEN 1 ELSE 0
<1>1. PICK u : u = Insert(t, k)
  OBVIOUS
<1>2. IsTable(u, n, some \cup {k}) /\ \A b \in 0..n - 1 : u[b] = IF b = h THEN <<k>> \o t[b] ELSE t[b]
  BY <1>1, InsertTable
<1>3. some \cup {k} \subseteq Keys
  OBVIOUS
<1> HIDE DEF h
<1>4. ASSUME NEW x \in some PROVE Bucket(u, x) = Bucket(t, x) /\ PlaceIn(u, x) = PlaceIn(t, x) + d(x)
  <2>1. PICK b : b = Bucket(t, x)
    OBVIOUS
  <2>2. PICK p : p = PlaceIn(t, x)
    OBVIOUS
  <2>3. /\ b \in 0..n - 1 /\ t[b] \in Seq(Keys) /\ Len(t[b]) \in Nat /\ p \in 1..Len(t[b]) /\ p \in Nat
        /\ t[b][p] = x
    BY <2>1, <2>2, PlaceIs
  <2>4. Bucket(u, x) = b
    BY <1>2, <1>3, <2>1, BucketIs
  <2>5. p + d(x) \in 1..Len(u[b]) /\ u[b][p + d(x)] = x
    <3>1. CASE b = h
      <4>1. Len(<<k>> \o t[b]) = Len(t[b]) + 1 /\ (<<k>> \o t[b])[p + 1] = t[b][p]
        BY <2>3, Prepended
      <4>2. u[b] = <<k>> \o t[b] /\ d(x) = 1
        BY <1>2, <2>1, <2>3, <3>1
      <4>3. p + 1 \in 1..Len(t[b]) + 1
        BY <2>3
      <4> QED
        BY <2>3, <4>1, <4>2, <4>3
    <3>2. CASE b # h
      <4>1. u[b] = t[b] /\ d(x) = 0 /\ p + 0 = p
        BY <1>2, <2>1, <2>3, <3>2
      <4> QED
        BY <2>3, <4>1
    <3> QED
      BY <3>1, <3>2
  <2>6. p + d(x) = PlaceIn(u, x)
    <3>1. x \in some \cup {k}
      OBVIOUS
    <3> HIDE DEF d
    <3> QED
      BY <1>2, <1>3, <2>4, <2>5, <3>1, PlaceIs
  <2> QED
    BY <2>1, <2>2, <2>4, <2>6
<1> SUFFICES ASSUME NEW x \in some, NEW y \in some
             PROVE  /\ Bucket(u, x) = Bucket(t, x)
                    /\ Bucket(t, x) = Bucket(t, y) =>
                            (PlaceIn(u, x) <= PlaceIn(u, y) <=> PlaceIn(t, x) <= PlaceIn(t, y))
  BY <1>1 DEF SameOrder
<1>5. PlaceIn(t, x) \in Nat /\ PlaceIn(t, y) \in Nat
  BY PlaceIs
<1>6. ASSUME Bucket(t, x) = Bucket(t, y) PROVE d(x) = d(y) /\ d(x) \in Nat
  BY <1>6
<1> QED
  BY <1>4, <1>5, <1>6

(* Removing a key makes a table of one key less, and leaves the order of   *)
(* the others alone (Dictionary::Remove). *)
LEMMA RemoveTable ==
    ASSUME NEW n \in Nat \ {0}, NEW some, some \subseteq Keys, IsTable(table, n, some), NEW k \in some,
           NEW u, u = [table EXCEPT ![Bucket(table, k)] = Preceding(k) \o After(k)]
    PROVE  IsTable(u, n, some \ {k}) /\ SameOrder(table, u, some \ {k})
<1>1. PICK h : h = Bucket(table, k)
  OBVIOUS
<1>2. PICK p : p = PlaceIn(table, k)
  OBVIOUS
<1>3. /\ h \in 0..n - 1 /\ table[h] \in Seq(Keys) /\ Unique(table[h]) /\ Len(table[h]) \in Nat
      /\ p \in 1..Len(table[h]) /\ p \in Nat /\ table[h][p] = k
  BY <1>1, <1>2, PlaceIs
<1>4. PlaceOf(k) = p
  BY <1>2 DEF PlaceOf, PlaceIn, Chain
<1>5. PICK s : s = SubSeq(table[h], 1, p - 1) \o SubSeq(table[h], p + 1, Len(table[h]))
  OBVIOUS
<1>6. s = Preceding(k) \o After(k)
  BY <1>1, <1>4, <1>5 DEF Preceding, After, Chain
<1>7. /\ s \in Seq(Keys) /\ Len(s) = Len(table[h]) - 1 /\ ToSet(s) = ToSet(table[h]) \ {k} /\ Unique(s)
      /\ \A i \in 1..Len(s) : s[i] = IF i < p THEN table[h][i] ELSE table[h][i + 1]
  <2>1. PICK c \in Seq(Keys) : c = table[h]
    BY <1>3
  <2>2. /\ Len(c) \in Nat /\ Unique(c) /\ p \in 1..Len(c) /\ c[p] = k
        /\ s = SubSeq(c, 1, p - 1) \o SubSeq(c, p + 1, Len(c))
    BY <1>3, <1>5, <2>1
  <2>3. /\ s \in Seq(Keys) /\ Len(s) = Len(c) - 1 /\ ToSet(s) = ToSet(c) \ {c[p]} /\ Unique(s)
        /\ \A i \in 1..Len(s) : s[i] = IF i < p THEN c[i] ELSE c[i + 1]
    <3>1. LET cut == SubSeq(c, 1, p - 1) \o SubSeq(c, p + 1, Len(c))
          IN /\ cut \in Seq(Keys) /\ Len(c) \in Nat /\ Len(cut) = Len(c) - 1
             /\ \A i \in 1..Len(cut) : cut[i] = IF i < p THEN c[i] ELSE c[i + 1]
             /\ ToSet(cut) = ToSet(c) \ {c[p]}
             /\ Unique(cut)
      BY <2>2, Dropped, Zenon
    <3> QED
      BY <2>2, <3>1, Zenon
  <2> QED
    BY <2>1, <2>2, <2>3, Zenon
<1>8. table \in [0..n - 1 -> Seq(Keys)]
  BY DEF IsTable
<1>9. u \in [0..n - 1 -> Seq(Keys)] /\ \A b \in 0..n - 1 : u[b] = IF b = h THEN s ELSE table[b]
  BY <1>1, <1>3, <1>6, <1>7, <1>8
<1>10. h = Hash[k] % n
  BY <1>1, BucketIs
<1>11. IsTable(u, n, some \ {k})
  <2>1. ASSUME NEW b \in 0..n - 1
        PROVE  ToSet(u[b]) = {x \in some \ {k} : Hash[x] % n = b} /\ Unique(u[b])
    <3>1. ToSet(table[b]) = {x \in some : Hash[x] % n = b} /\ Unique(table[b])
      BY DEF IsTable
    <3>2. CASE b = h
      BY <1>7, <1>9, <3>1, <3>2
    <3>3. CASE b # h
      BY <1>9, <1>10, <3>1, <3>3
    <3> QED
      BY <3>2, <3>3
  <2> QED
    BY <1>9, <2>1 DEF IsTable
<1>12. some \ {k} \subseteq Keys
  OBVIOUS
<1> DEFINE to(x) == IF Bucket(table, x) = h /\ p < PlaceIn(table, x) THEN PlaceIn(table, x) - 1
                                                                     ELSE PlaceIn(table, x)
<1>13. ASSUME NEW x \in some \ {k}
       PROVE  /\ Bucket(u, x) = Bucket(table, x) /\ PlaceIn(u, x) = to(x)
              /\ PlaceIn(table, x) \in Nat /\ (Bucket(table, x) = h => PlaceIn(table, x) # p)
  <2>1. PICK b : b = Bucket(table, x)
    OBVIOUS
  <2>2. PICK q : q = PlaceIn(table, x)
    OBVIOUS
  <2>3. /\ b \in 0..n - 1 /\ Len(table[b]) \in Nat /\ q \in 1..Len(table[b]) /\ q \in Nat
        /\ table[b][q] = x
    BY <2>1, <2>2, PlaceIs
  <2>4. Bucket(u, x) = b
    BY <1>11, <1>12, <2>1, BucketIs
  <2>5. b = h => q # p
    BY <1>3, <2>3
  <2>6. to(x) \in 1..Len(u[b]) /\ u[b][to(x)] = x
    <3>1. CASE b = h /\ p < q
      <4>1. to(x) = q - 1 /\ u[b] = s
        BY <1>9, <2>1, <2>2, <2>3, <3>1
      <4>2. q - 1 \in 1..Len(s) /\ ~(q - 1 < p) /\ (q - 1) + 1 = q
        BY <1>3, <1>7, <2>3, <3>1
      <4>3. s[q - 1] = table[h][q]
        BY <1>7, <4>2
      <4> QED
        BY <2>3, <3>1, <4>1, <4>2, <4>3
    <3>2. CASE b = h /\ ~(p < q)
      <4>1. to(x) = q /\ u[b] = s
        BY <1>9, <2>1, <2>2, <2>3, <3>2
      <4>2. q \in 1..Len(s) /\ q < p
        BY <1>3, <1>7, <2>3, <2>5, <3>2
      <4>3. s[q] = table[h][q]
        BY <1>7, <4>2
      <4> QED
        BY <2>3, <3>2, <4>1, <4>2, <4>3
    <3>3. CASE b # h
      BY <1>9, <2>1, <2>2, <2>3, <3>3
    <3> QED
      BY <3>1, <3>2, <3>3
  <2> HIDE DEF to
  <2>7. to(x) = PlaceIn(u, x)
    <3>1. PICK i : i = to(x)
      OBVIOUS
    <3>2. i \in 1..Len(u[b]) /\ u[b][i] = x
      BY <2>6, <3>1
    <3>3. PICK m : m = some \ {k}
      OBVIOUS
    <3>4. m \subseteq Keys /\ IsTable(u, n, m) /\ x \in m
      BY <1>11, <1>12, <3>3
    <3>5. i \in 1..Len(u[Bucket(u, x)]) /\ u[Bucket(u, x)][i] = x
      BY <2>4, <3>2
    <3>6. i = PlaceIn(u, x)
      BY <3>4, <3>5, OnePlace
    <3> QED
      BY <3>1, <3>6
  <2> QED
    BY <2>1, <2>2, <2>3, <2>4, <2>5, <2>7
<1>14. SameOrder(table, u, some \ {k})
  <2> SUFFICES ASSUME NEW x \in some \ {k}, NEW y \in some \ {k}
               PROVE  /\ Bucket(u, x) = Bucket(table, x)
                      /\ Bucket(table, x) = Bucket(table, y) =>
                            (PlaceIn(u, x) <= PlaceIn(u, y) <=> PlaceIn(table, x) <= PlaceIn(table, y))
    BY DEF SameOrder
  <2>1. Bucket(u, x) = Bucket(table, x)
    BY <1>13
  <2>2. ASSUME Bucket(table, x) = Bucket(table, y)
        PROVE  PlaceIn(u, x) <= PlaceIn(u, y) <=> PlaceIn(table, x) <= PlaceIn(table, y)
    <3>1. PICK q \in Nat, r \in Nat : q = PlaceIn(table, x) /\ r = PlaceIn(table, y)
      BY <1>13
    <3>2. PlaceIn(u, x) = to(x) /\ PlaceIn(u, y) = to(y)
      BY <1>13
    <3>3. CASE Bucket(table, x) = h
      <4>1. q # p /\ r # p
        BY <1>13, <2>2, <3>1, <3>3
      <4>2. to(x) = (IF p < q THEN q - 1 ELSE q) /\ to(y) = (IF p < r THEN r - 1 ELSE r)
        BY <2>2, <3>1, <3>3
      <4> QED
        BY <1>3, <3>1, <3>2, <4>1, <4>2
    <3>4. CASE Bucket(table, x) # h
      BY <2>2, <3>2, <3>4
    <3> QED
      BY <3>3, <3>4
  <2> QED
    BY <2>1, <2>2
<1> QED
  BY <1>11, <1>14

-----------------------------------------------------------------------------
(* The table is that of the keys held. *)
DictInv ==
    /\ Length(table) \in Nat \ {0} /\ IsTable(table, Length(table), held)
    /\ held \subseteq Keys /\ IsFiniteSet(held) /\ count = Cardinality(held)
    /\ start \subseteq held
    /\ index \in 0..Length(table)
    /\ entry \in Keys \cup {NoEntry}
    /\ seen \in Seq(Keys)
    /\ grown \in BOOLEAN /\ ended \in BOOLEAN
    /\ ~ended /\ entry # NoEntry => entry \in held

(* Find looks into one chain only, which is the one a key that is held is  *)
(* in. *)
LEMMA FoundIsHeld ==
    ASSUME DictInv, NEW k \in Keys
    PROVE  Find(k) <=> k \in held
<1>1. PICK b : b = Bucket(table, k)
  OBVIOUS
<1>2. b \in 0..Length(table) - 1 /\ b = Hash[k] % Length(table)
  BY <1>1, BucketIs DEF DictInv
<1>3. table[b] \in Seq(Keys) /\ ToSet(table[b]) = {x \in held : Hash[x] % Length(table) = b}
  BY <1>2 DEF DictInv, IsTable
<1>4. DOMAIN table[b] = 1..Len(table[b])
  BY <1>3, LenProperties
<1>5. Contains(table[b], k) <=> k \in held
  BY <1>2, <1>3, <1>4 DEF Contains, ToSet
<1>6. k \in held => count # 0
  BY FS_EmptySet DEF DictInv
<1> QED
  BY <1>1, <1>5, <1>6 DEF Find

(* A set of numbers has a least one. *)
LEMMA LeastOf ==
    ASSUME NEW S, S \subseteq Nat, S # {}
    PROVE  \E i \in S : \A j \in S : i <= j
<1>1. OpToRel(<, Nat) = Below
  BY DEF OpToRel, Below
<1>2. IsWellFoundedOn(Below, Nat)
  BY <1>1, NatLessThanWellFounded
<1>3. PICK x \in S : \A y \in S : ~(<<y, x>> \in Below)
  BY <1>2, WFMin
<1>4. ASSUME NEW y \in S PROVE x <= y
  <2>1. ~(y < x)
    BY <1>3 DEF Below
  <2> QED
    BY <2>1
<1> QED
  BY <1>4

(* Get_Next returns the next entry of the chain, or the first of the next  *)
(* chain that has any, or NULL when there is none. *)
LEMMA NextIs ==
    ASSUME DictInv, Get_Next
    PROVE  \/ /\ entry # NoEntry /\ entry \in held
              /\ entry' \in held /\ seen' = Append(seen, entry') /\ index' = index /\ ~ended'
              /\ Bucket(table, entry') = Bucket(table, entry)
              /\ PlaceIn(table, entry') = PlaceIn(table, entry) + 1
           \/ /\ entry # NoEntry => entry \in held /\ PlaceIn(table, entry) = Len(table[Bucket(table, entry)])
              /\ entry' \in held /\ seen' = Append(seen, entry') /\ ~ended'
              /\ Bucket(table, entry') + 1 = index' /\ PlaceIn(table, entry') = 1
              /\ Bucket(table, entry') \in Nat /\ index <= Bucket(table, entry')
              /\ index' \in 0..Length(table)
              /\ \A x \in held : ~(index <= Bucket(table, x) /\ Bucket(table, x) < Bucket(table, entry'))
           \/ /\ entry # NoEntry => entry \in held /\ PlaceIn(table, entry) = Len(table[Bucket(table, entry)])
              /\ entry' = NoEntry /\ seen' = seen /\ index' = Length(table) /\ ended' = TRUE
              /\ \A x \in held : ~(index <= Bucket(table, x))
<1> DEFINE n == Length(table)
<1>1. n \in Nat \ {0} /\ IsTable(table, n, held) /\ held \subseteq Keys /\ index \in Nat
  BY DEF DictInv
<1>2. \A x \in held : Bucket(table, x) \in Ahead \/ ~(index <= Bucket(table, x))
  <2> SUFFICES ASSUME NEW x \in held, index <= Bucket(table, x) PROVE Bucket(table, x) \in Ahead
    OBVIOUS
  <2>1. PICK c : c = table[Bucket(table, x)]
    OBVIOUS
  <2>2. Bucket(table, x) \in 0..n - 1 /\ c \in Seq(Keys) /\ Len(c) \in Nat /\ PlaceIn(table, x) \in 1..Len(c)
    BY <1>1, <2>1, PlaceIs
  <2>3. c # <<>>
    BY <2>2
  <2>4. DOMAIN table = 0..n - 1
    BY <1>1 DEF IsTable
  <2> QED
    BY <1>1, <2>1, <2>2, <2>3, <2>4 DEF Ahead
<1>3. Ahead \subseteq Nat /\ \A i \in Ahead : i \in 0..n - 1 /\ index <= i /\ table[i] # <<>>
  <2>1. DOMAIN table = 0..n - 1
    BY <1>1 DEF IsTable
  <2>2. \A i \in Ahead : i \in 0..n - 1 /\ index <= i /\ table[i] # <<>>
    BY <1>1, <2>1 DEF Ahead
  <2>3. Ahead \subseteq Nat
    BY <1>1, <2>2
  <2> QED
    BY <2>2, <2>3
<1>4. ASSUME entry # NoEntry
      PROVE  LET c == table[Bucket(table, entry)]
                 p == PlaceIn(table, entry)
             IN /\ entry \in held
                /\ Bucket(table, entry) \in 0..n - 1 /\ c \in Seq(Keys) /\ Len(c) \in Nat /\ p \in 1..Len(c)
                /\ After(entry) = SubSeq(c, p + 1, Len(c))
                /\ (After(entry) = <<>> <=> p = Len(c))
                /\ (After(entry) # <<>> => After(entry)[1] = c[p + 1])
  <2> DEFINE c == table[Bucket(table, entry)]
             p == PlaceIn(table, entry)
  <2>1. entry \in held
    BY <1>4 DEF DictInv, Get_Next
  <2>2. Bucket(table, entry) \in 0..n - 1 /\ c \in Seq(Keys) /\ Len(c) \in Nat /\ p \in 1..Len(c)
    BY <1>1, <2>1, PlaceIs
  <2>3. After(entry) = SubSeq(c, p + 1, Len(c))
    BY DEF After, Chain, PlaceOf, PlaceIn
  <2> HIDE DEF c, p
  <2>4. SubSeq(c, p + 1, Len(c)) = <<>> <=> p = Len(c)
    <3>1. p + 1 \in Int /\ Len(c) \in Int
      BY <2>2
    <3>2. CASE p = Len(c)
      BY <2>2, <3>1, <3>2, SubSeqProperties
    <3>3. CASE p # Len(c)
      <4>1. p + 1 <= Len(c) /\ Len(c) - (p + 1) + 1 > 0
        BY <2>2, <3>3
      <4>2. Len(SubSeq(c, p + 1, Len(c))) > 0
        BY <2>2, <3>1, <4>1, SubSeqProperties
      <4>3. PICK w : w = SubSeq(c, p + 1, Len(c))
        OBVIOUS
      <4>4. w # <<>>
        <5> SUFFICES ASSUME w = <<>> PROVE FALSE
          OBVIOUS
        <5>1. Len(w) = 0
          OBVIOUS
        <5>2. Len(w) > 0
          BY <4>2, <4>3, Zenon
        <5> QED
          BY <5>1, <5>2
      <4> QED
        BY <3>3, <4>3, <4>4
    <3> QED
      BY <3>2, <3>3
  <2>5. p # Len(c) => SubSeq(c, p + 1, Len(c))[1] = c[p + 1]
    <3> SUFFICES ASSUME p # Len(c) PROVE SubSeq(c, p + 1, Len(c))[1] = c[p + 1]
      OBVIOUS
    <3>1. p + 1 \in Int /\ Len(c) \in Int /\ p + 1 <= Len(c) /\ 1 \in 1..Len(c) - (p + 1) + 1 /\ (p + 1) + 1 - 1 = p + 1
      BY <2>2
    <3>2. SubSeq(c, p + 1, Len(c))[1] = c[(p + 1) + 1 - 1]
      BY <2>2, <3>1, SubSeqProperties
    <3> QED
      BY <3>1, <3>2
  <2> QED
    BY <2>1, <2>2, <2>3, <2>4, <2>5 DEF c, p
<1>5. CASE entry # NoEntry /\ After(entry) # <<>>
  <2>1. entry' = After(entry)[1] /\ seen' = Append(seen, entry') /\ index' = index /\ ~ended'
    BY <1>5 DEF Get_Next, Returns
  <2>2. PICK b : b = Bucket(table, entry)
    OBVIOUS
  <2>3. PICK p : p = PlaceIn(table, entry)
    OBVIOUS
  <2>4. /\ entry \in held /\ b \in 0..n - 1 /\ Len(table[b]) \in Nat /\ p \in 1..Len(table[b])
        /\ p # Len(table[b]) /\ After(entry)[1] = table[b][p + 1]
    BY <1>4, <1>5, <2>2, <2>3
  <2>5. p + 1 \in 1..Len(table[b])
    BY <2>4
  <2>6. table[b][p + 1] \in held /\ Bucket(table, table[b][p + 1]) = b /\ PlaceIn(table, table[b][p + 1]) = p + 1
    BY <1>1, <2>4, <2>5, KeyAt
  <2> QED
    BY <1>5, <2>1, <2>2, <2>3, <2>4, <2>6
<1>6. CASE ~(entry # NoEntry /\ After(entry) # <<>>) /\ Ahead # {}
  <2> DEFINE i == CHOOSE i \in Ahead : \A j \in Ahead : i <= j
  <2>1. i \in Ahead /\ \A j \in Ahead : i <= j
    BY <1>3, <1>6, LeastOf
  <2>2. entry' = table[i][1] /\ index' = i + 1 /\ seen' = Append(seen, entry') /\ ~ended'
    BY <1>6 DEF Get_Next, Returns
  <2> HIDE DEF i
  <2>3. i \in 0..n - 1 /\ i \in Nat /\ index <= i /\ table[i] # <<>>
    BY <1>3, <2>1
  <2>4. table[i] \in Seq(Keys)
    BY <1>1, <2>3 DEF IsTable
  <2>5. 1 \in 1..Len(table[i])
    BY <2>3, <2>4, EmptySeq, LenProperties
  <2>6. entry' \in held /\ Bucket(table, entry') = i /\ PlaceIn(table, entry') = 1
    BY <1>1, <2>2, <2>3, <2>5, KeyAt
  <2>7. ASSUME NEW x \in held, index <= Bucket(table, x), Bucket(table, x) < i PROVE FALSE
    <3>1. Bucket(table, x) \in Ahead
      BY <1>2, <2>7
    <3>2. PICK z : z = Bucket(table, x)
      OBVIOUS
    <3>3. z \in Nat /\ i <= z /\ z < i
      BY <1>3, <2>1, <2>7, <3>1, <3>2
    <3> QED
      BY <2>3, <3>3
  <2>8. entry # NoEntry => entry \in held /\ PlaceIn(table, entry) = Len(table[Bucket(table, entry)])
    BY <1>4, <1>6
  <2>9. index' \in 0..n
    BY <1>1, <2>2, <2>3
  <2> QED
    BY <2>2, <2>3, <2>6, <2>7, <2>8, <2>9
<1>7. CASE ~(entry # NoEntry /\ After(entry) # <<>>) /\ Ahead = {}
  <2>1. index' = n /\ entry' = NoEntry /\ ended' = TRUE /\ seen' = seen
    BY <1>7 DEF Get_Next
  <2>2. entry # NoEntry => entry \in held /\ PlaceIn(table, entry) = Len(table[Bucket(table, entry)])
    BY <1>4, <1>7
  <2>3. \A x \in held : ~(index <= Bucket(table, x))
    BY <1>2, <1>7
  <2> QED
    BY <2>1, <2>2, <2>3
<1> QED
  BY <1>5, <1>6, <1>7

(* The keys the iterator has passed when it stands on e. *)
PassedIn(t, e, k) ==
    \/ Bucket(t, k) < Bucket(t, e)
    \/ Bucket(t, k) = Bucket(t, e) /\ PlaceIn(t, k) <= PlaceIn(t, e)

Once(s, some) == \A i, j \in 1..Len(s) : s[i] = s[j] /\ s[i] \in some => i = j

(* As long as the table does not grow, the keys of the start that were     *)
(* returned are those up to the entry. *)
IterInv ==
    ~grown =>
        /\ ~ended /\ entry = NoEntry => index = 0 /\ seen = <<>>
        /\ ~ended /\ entry # NoEntry =>
                /\ Bucket(table, entry) + 1 = index
                /\ \A k \in start : k \in ToSet(seen) <=> PassedIn(table, entry, k)
        /\ ended /\ seen # <<>> => start \subseteq ToSet(seen)
        /\ Once(seen, start)

(* Where the order is left alone, so is what the iterator has passed. *)
LEMMA KeepsPassed ==
    ASSUME NEW t, NEW u, NEW some, SameOrder(t, u, some), NEW e \in some, NEW k \in some
    PROVE  PassedIn(u, e, k) <=> PassedIn(t, e, k)
  BY DEF SameOrder, PassedIn

(* What Remove does to the table. *)
LEMMA RemoveStep ==
    ASSUME DictInv, NEW k \in Keys, RemoveKey(k)
    PROVE  /\ Length(table') = Length(table)
           /\ IsTable(table', Length(table), held \ {k}) /\ SameOrder(table, table', held \ {k})
<1>1. k \in held
  BY FoundIsHeld DEF RemoveKey
<1>2. table' = [table EXCEPT ![Bucket(table, k)] = Preceding(k) \o After(k)]
  BY DEF RemoveKey
<1>3. IsTable(table', Length(table), held \ {k}) /\ SameOrder(table, table', held \ {k})
  BY <1>1, <1>2, RemoveTable DEF DictInv
<1>4. Length(table') = Length(table)
  BY <1>3, LengthIs DEF IsTable, DictInv
<1> QED
  BY <1>3, <1>4

(* What Add does to the table: nothing when the key is there; otherwise it *)
(* becomes the table of one key more, longer or with the others in their   *)
(* order. *)
LEMMA AddStep ==
    ASSUME DictInv, NEW k \in Keys, Add(k)
    PROVE  \/ k \in held /\ UNCHANGED <<table, count, grown>>
           \/ /\ k \notin held /\ count' = count + 1
              /\ Length(table') \in Nat \ {0} /\ Length(table') >= Length(table)
              /\ IsTable(table', Length(table'), held \cup {k})
              /\ \/ grown' = TRUE
                 \/ grown' = grown /\ SameOrder(table, table', held)
<1>1. CASE k \in held
  <2>1. Find(k)
    BY <1>1, FoundIsHeld
  <2> QED
    BY <1>1, <2>1 DEF Add
<1>2. CASE k \notin held
  <2>1. ~Find(k)
    BY <1>2, FoundIsHeld
  <2>2. count' = count + 1 /\ count \in Nat
    BY <2>1, FS_CardinalityType DEF Add, DictInv
  <2>3. CASE count >= Threshold
    <3>1. table' = Insert(Rehashed, k) /\ grown' = TRUE
      BY <2>1, <2>3 DEF Add
    <3>2. PICK n \in Nat \ {0} : n >= Length(table) /\ IsTable(Rehashed, n, held)
      BY <2>2, RehashedTable DEF DictInv
    <3>3. PICK r : r = Rehashed
      OBVIOUS
    <3>4. IsTable(Insert(r, k), n, held \cup {k})
      BY <1>2, <3>2, <3>3, InsertTable DEF DictInv
    <3>5. IsTable(table', n, held \cup {k})
      BY <3>1, <3>3, <3>4
    <3>6. Length(table') = n
      BY <3>5, LengthIs DEF IsTable
    <3> QED
      BY <1>2, <2>2, <3>1, <3>2, <3>5, <3>6
  <2>4. CASE ~(count >= Threshold)
    <3>1. table' = Insert(table, k) /\ grown' = grown
      BY <2>1, <2>4 DEF Add
    <3>2. IsTable(table', Length(table), held \cup {k}) /\ SameOrder(table, table', held)
      BY <1>2, <3>1, InsertTable, InsertOrder DEF DictInv
    <3>3. Length(table') = Length(table)
      BY <3>2, LengthIs DEF IsTable, DictInv
    <3> QED
      BY <1>2, <2>2, <3>1, <3>2, <3>3 DEF DictInv
  <2> QED
    BY <2>3, <2>4
<1> QED
  BY <1>1, <1>2

(* A new dictionary. *)
LEMMA DictInitInv == DictInit => DictInv /\ IterInv
<1> SUFFICES ASSUME DictInit PROVE DictInv /\ IterInv
  OBVIOUS
<1>1. IsTable(table, Capacity, {}) /\ Capacity \in Nat \ {0}
  BY EmptyTable, DictionaryAssumption DEF DictInit
<1>2. Length(table) = Capacity
  BY <1>1, LengthIs DEF IsTable
<1>3. IsFiniteSet({}) /\ Cardinality({}) = 0
  BY FS_EmptySet
<1>4. DictInv
  <2>1. <<>> \in Seq(Keys) /\ 0 \in 0..Length(table)
    BY <1>1, <1>2
  <2> QED
    BY <1>1, <1>2, <1>3, <2>1 DEF DictInit, DictInv
<1>5. IterInv
  BY DEF DictInit, IterInv, Once
<1> QED
  BY <1>4, <1>5

(* The table stays that of the keys held. *)
LEMMA DictInvStep == DictInv /\ [DictNext]_dictVars => DictInv'
<1> SUFFICES ASSUME DictInv, [DictNext]_dictVars PROVE DictInv'
  OBVIOUS
<1>1. ASSUME NEW k \in Keys, Add(k) PROVE DictInv'
  <2>1. held' = held \cup {k} /\ UNCHANGED <<index, entry, start, seen, ended>>
    BY <1>1 DEF Add
  <2>2. CASE k \in held /\ UNCHANGED <<table, count, grown>>
    <3>1. held' = held
      BY <2>1, <2>2
    <3> QED
      BY <2>1, <2>2, <3>1 DEF DictInv, Length
  <2>3. CASE /\ k \notin held /\ count' = count + 1
             /\ Length(table') \in Nat \ {0} /\ Length(table') >= Length(table)
             /\ IsTable(table', Length(table'), held \cup {k})
             /\ \/ grown' = TRUE
                \/ grown' = grown /\ SameOrder(table, table', held)
    <3>1. IsFiniteSet(held') /\ Cardinality(held') = Cardinality(held) + 1
      BY <2>1, <2>3, FS_AddElement DEF DictInv
    <3>2. index' \in 0..Length(table')
      BY <2>1, <2>3 DEF DictInv
    <3>3. grown' \in BOOLEAN /\ held' \subseteq Keys /\ start' \subseteq held'
      BY <2>1, <2>3 DEF DictInv
    <3>4. ~ended' /\ entry' # NoEntry => entry' \in held'
      BY <2>1 DEF DictInv
    <3>5. count' = Cardinality(held')
      BY <2>3, <3>1 DEF DictInv
    <3> QED
      BY <2>1, <2>3, <3>1, <3>2, <3>3, <3>4, <3>5 DEF DictInv
  <2> QED
    BY <1>1, <2>2, <2>3, AddStep
<1>2. ASSUME NEW k \in Keys, RemoveKey(k) PROVE DictInv'
  <2>1. /\ Length(table') = Length(table) /\ IsTable(table', Length(table), held \ {k})
    BY <1>2, RemoveStep
  <2>2. /\ ended \/ k # entry
        /\ count' = count - 1 /\ held' = held \ {k} /\ start' = start \ {k}
        /\ UNCHANGED <<index, entry, seen, grown, ended>>
    BY <1>2 DEF RemoveKey
  <2>3. k \in held
    BY <1>2, FoundIsHeld DEF RemoveKey
  <2>4. IsFiniteSet(held') /\ Cardinality(held') = Cardinality(held) - 1
    BY <2>2, <2>3, FS_RemoveElement DEF DictInv
  <2>5. ~ended' /\ entry' # NoEntry => entry' \in held'
    BY <2>2 DEF DictInv
  <2>6. count' = Cardinality(held')
    BY <2>2, <2>4 DEF DictInv
  <2>7. held' \subseteq Keys /\ start' \subseteq held'
    BY <2>2 DEF DictInv
  <2> QED
    BY <2>1, <2>2, <2>4, <2>5, <2>6, <2>7 DEF DictInv
<1>3. ASSUME Destroy PROVE DictInv'
  <2>1. table' = Empty(Length(table)) /\ count' = 0 /\ held' = {} /\ start' = {} /\ ended' = TRUE
        /\ UNCHANGED <<index, entry, seen, grown>>
    BY <1>3 DEF Destroy
  <2>2. IsTable(table', Length(table), {})
    BY <2>1, EmptyTable DEF DictInv
  <2>3. Length(table') = Length(table)
    BY <2>2, LengthIs DEF IsTable, DictInv
  <2>4. IsFiniteSet({}) /\ Cardinality({}) = 0
    BY FS_EmptySet
  <2> QED
    BY <2>1, <2>2, <2>3, <2>4 DEF DictInv
<1>4. ASSUME Start_Get PROVE DictInv'
  <2>1. /\ index' = 0 /\ entry' = NoEntry /\ start' = held /\ seen' = <<>> /\ grown' = FALSE /\ ended' = FALSE
        /\ UNCHANGED <<table, count, held>>
    BY <1>4 DEF Start_Get
  <2>2. <<>> \in Seq(Keys) /\ Length(table') = Length(table) /\ 0 \in 0..Length(table)
    BY <2>1 DEF DictInv
  <2> QED
    BY <2>1, <2>2 DEF DictInv
<1>5. ASSUME Get_Next PROVE DictInv'
  <2>1. UNCHANGED <<table, count, held, start, grown>>
    BY <1>5 DEF Get_Next
  <2>2. /\ entry' \in held \/ entry' = NoEntry
        /\ seen' = seen \/ (entry' \in held /\ seen' = Append(seen, entry'))
        /\ index' \in 0..Length(table)
    <3>1. Length(table) \in 0..Length(table) /\ index \in 0..Length(table)
      BY DEF DictInv
    <3> QED
      BY <1>5, <3>1, NextIs
  <2>3. seen' \in Seq(Keys)
    <3>1. CASE seen' = seen
      BY <3>1 DEF DictInv
    <3>2. CASE entry' \in held /\ seen' = Append(seen, entry')
      <4>1. entry' \in Keys /\ seen \in Seq(Keys)
        BY <3>2 DEF DictInv
      <4> QED
        BY <3>2, <4>1, AppendProperties
    <3> QED
      BY <2>2, <3>1, <3>2
  <2>4. ended' \in BOOLEAN
    BY <1>5 DEF Get_Next, Returns, DictInv
  <2>5. Length(table') = Length(table)
    BY <2>1
  <2> QED
    BY <2>1, <2>2, <2>3, <2>4, <2>5 DEF DictInv
<1>6. CASE UNCHANGED dictVars
  BY <1>6 DEF DictInv, dictVars, Length
<1> QED
  BY <1>1, <1>2, <1>3, <1>4, <1>5, <1>6 DEF DictNext

(* A key that was not returned is returned. *)
LEMMA ReturnedOnce ==
    ASSUME NEW S, NEW s \in Seq(S), NEW x \in S, NEW some
    PROVE  /\ ToSet(Append(s, x)) = ToSet(s) \cup {x}
           /\ Once(s, some) /\ (x \in some => x \notin ToSet(s)) => Once(Append(s, x), some)
<1>1. PICK u : u = Append(s, x)
  OBVIOUS
<1>2. /\ u \in Seq(S) /\ Len(s) \in Nat /\ Len(u) = Len(s) + 1
      /\ DOMAIN u = 1..Len(u) /\ DOMAIN s = 1..Len(s)
      /\ u[Len(s) + 1] = x /\ \A i \in 1..Len(s) : u[i] = s[i]
  BY <1>1, AppendProperties, LenProperties
<1>3. ToSet(u) = ToSet(s) \cup {x}
  <2>1. ASSUME NEW y \in ToSet(u) PROVE y \in ToSet(s) \cup {x}
    <3>1. PICK i \in 1..Len(u) : y = u[i]
      BY <1>2 DEF ToSet
    <3>2. i = Len(s) + 1 \/ i \in 1..Len(s)
      BY <1>2
    <3> QED
      BY <1>2, <3>1, <3>2 DEF ToSet
  <2>2. ASSUME NEW y \in ToSet(s) PROVE y \in ToSet(u)
    <3>1. PICK i \in 1..Len(s) : y = s[i]
      BY <1>2 DEF ToSet
    <3>2. i \in 1..Len(u) /\ y = u[i]
      BY <1>2, <3>1
    <3> QED
      BY <1>2, <3>2 DEF ToSet
  <2>3. x \in ToSet(u)
    <3>1. Len(s) + 1 \in 1..Len(u)
      BY <1>2
    <3> QED
      BY <1>2, <3>1 DEF ToSet
  <2> QED
    BY <2>1, <2>2, <2>3
<1>4. ASSUME Once(s, some), x \in some => x \notin ToSet(s) PROVE Once(u, some)
  <2> SUFFICES ASSUME NEW i \in 1..Len(u), NEW j \in 1..Len(u), u[i] = u[j], u[i] \in some PROVE i = j
    BY DEF Once
  <2>1. i \in 1..Len(s) \/ i = Len(s) + 1
    BY <1>2
  <2>2. j \in 1..Len(s) \/ j = Len(s) + 1
    BY <1>2
  <2>3. CASE i \in 1..Len(s) /\ j \in 1..Len(s)
    BY <1>2, <1>4, <2>3 DEF Once
  <2>4. CASE i \in 1..Len(s) /\ j = Len(s) + 1
    BY <1>2, <1>4, <2>4 DEF ToSet
  <2>5. CASE i = Len(s) + 1 /\ j \in 1..Len(s)
    BY <1>2, <1>4, <2>5 DEF ToSet
  <2> QED
    BY <2>1, <2>2, <2>3, <2>4, <2>5
<1> QED
  BY <1>1, <1>3, <1>4

(* The iterator passes one key at a time, and all of them before it ends. *)
LEMMA PassedNext ==
    ASSUME DictInv, IterInv, ~grown, Get_Next, NEW k \in start
    PROVE  /\ entry' # NoEntry => (PassedIn(table, entry', k) <=> (k \in ToSet(seen) \/ k = entry'))
           /\ entry' # NoEntry /\ k = entry' => k \notin ToSet(seen)
           /\ entry' = NoEntry => k \in ToSet(seen)
<1>1. ~ended /\ NoEntry \notin Keys /\ held \subseteq Keys /\ k \in held
  BY DictionaryAssumption DEF Get_Next, DictInv
<1>2. PICK n \in Nat \ {0} : n = Length(table) /\ IsTable(table, n, held)
  BY DEF DictInv
<1>3. ASSUME NEW x \in held
      PROVE  /\ Bucket(table, x) \in Nat /\ PlaceIn(table, x) \in Nat
             /\ Len(table[Bucket(table, x)]) \in Nat
             /\ PlaceIn(table, x) \in 1..Len(table[Bucket(table, x)])
             /\ \A y \in held : Bucket(table, x) = Bucket(table, y) /\ PlaceIn(table, x) = PlaceIn(table, y) => x = y
  <2>1. \A y \in held : table[Bucket(table, y)][PlaceIn(table, y)] = y
    BY <1>1, <1>2, PlaceIs
  <2>2. \A y \in held : Bucket(table, x) = Bucket(table, y) /\ PlaceIn(table, x) = PlaceIn(table, y) => x = y
    BY <2>1
  <2>3. Bucket(table, x) \in 0..n - 1 /\ PlaceIn(table, x) \in Nat
    BY <1>1, <1>2, PlaceIs
  <2>4. /\ Len(table[Bucket(table, x)]) \in Nat
        /\ PlaceIn(table, x) \in 1..Len(table[Bucket(table, x)])
    BY <1>1, <1>2, PlaceIs
  <2> QED
    BY <2>2, <2>3, <2>4
<1>4. PICK bk \in Nat, pk \in Nat : bk = Bucket(table, k) /\ pk = PlaceIn(table, k)
  BY <1>1, <1>3
<1>5. entry = NoEntry => index = 0 /\ seen = <<>>
  BY <1>1 DEF IterInv
<1>6. entry # NoEntry => Bucket(table, entry) + 1 = index /\ (k \in ToSet(seen) <=> PassedIn(table, entry, k))
  BY <1>1 DEF IterInv
<1>7. entry = NoEntry => k \notin ToSet(seen)
  BY <1>5 DEF ToSet
<1>8. CASE /\ entry # NoEntry /\ entry \in held
           /\ entry' \in held /\ seen' = Append(seen, entry') /\ index' = index /\ ~ended'
           /\ Bucket(table, entry') = Bucket(table, entry)
           /\ PlaceIn(table, entry') = PlaceIn(table, entry) + 1
  <2>1. PICK be \in Nat, pe \in Nat : be = Bucket(table, entry) /\ pe = PlaceIn(table, entry)
    BY <1>3, <1>8
  <2>2. PassedIn(table, entry, k) <=> bk < be \/ (bk = be /\ pk <= pe)
    BY <1>4, <2>1 DEF PassedIn
  <2>3. PassedIn(table, entry', k) <=> bk < be \/ (bk = be /\ pk <= pe + 1)
    BY <1>4, <1>8, <2>1 DEF PassedIn
  <2>4. k = entry' <=> bk = be /\ pk = pe + 1
    BY <1>1, <1>3, <1>4, <1>8, <2>1
  <2>5. entry' # NoEntry
    BY <1>1, <1>8
  <2> QED
    BY <1>6, <1>8, <2>2, <2>3, <2>4, <2>5
<1>9. CASE /\ entry # NoEntry => entry \in held /\ PlaceIn(table, entry) = Len(table[Bucket(table, entry)])
           /\ entry' \in held /\ seen' = Append(seen, entry') /\ ~ended'
           /\ Bucket(table, entry') + 1 = index' /\ PlaceIn(table, entry') = 1
           /\ Bucket(table, entry') \in Nat /\ index <= Bucket(table, entry')
           /\ index' \in 0..Length(table)
           /\ \A x \in held : ~(index <= Bucket(table, x) /\ Bucket(table, x) < Bucket(table, entry'))
  <2>1. PICK bf \in Nat : bf = Bucket(table, entry')
    BY <1>9
  <2>2. index <= bf /\ ~(index <= bk /\ bk < bf)
    BY <1>1, <1>4, <1>9, <2>1
  <2>3. PassedIn(table, entry', k) <=> bk < bf \/ (bk = bf /\ pk <= 1)
    BY <1>4, <1>9, <2>1 DEF PassedIn
  <2>4. k = entry' <=> bk = bf /\ pk = 1
    BY <1>1, <1>3, <1>4, <1>9, <2>1
  <2>5. pk >= 1
    BY <1>1, <1>3, <1>4
  <2>6. entry' # NoEntry
    BY <1>1, <1>9
  <2>7. CASE entry = NoEntry
    BY <1>5, <1>7, <2>2, <2>3, <2>4, <2>5, <2>6, <2>7
  <2>8. CASE entry # NoEntry
    <3>1. PICK be \in Nat, pe \in Nat : be = Bucket(table, entry) /\ pe = PlaceIn(table, entry)
      BY <1>3, <1>9, <2>8
    <3>2. index = be + 1
      BY <1>6, <2>8, <3>1
    <3>3. PassedIn(table, entry, k) <=> bk < be \/ (bk = be /\ pk <= pe)
      BY <1>4, <3>1 DEF PassedIn
    <3>4. bk = be => pk <= pe
      <4>1. pk \in 1..Len(table[bk]) /\ pe = Len(table[be])
        BY <1>1, <1>3, <1>4, <1>9, <2>8, <3>1
      <4> QED
        BY <4>1
    <3> QED
      BY <1>6, <2>2, <2>3, <2>4, <2>5, <2>6, <2>8, <3>2, <3>3, <3>4
  <2> QED
    BY <2>7, <2>8
<1>10. CASE /\ entry # NoEntry => entry \in held /\ PlaceIn(table, entry) = Len(table[Bucket(table, entry)])
            /\ entry' = NoEntry /\ seen' = seen /\ index' = Length(table) /\ ended' = TRUE
            /\ \A x \in held : ~(index <= Bucket(table, x))
  <2>1. ~(index <= bk)
    BY <1>1, <1>4, <1>10
  <2>2. entry # NoEntry
    BY <1>5, <2>1
  <2>3. PICK be \in Nat, pe \in Nat : be = Bucket(table, entry) /\ pe = PlaceIn(table, entry)
    BY <1>3, <1>10, <2>2
  <2>4. index = be + 1
    BY <1>6, <2>2, <2>3
  <2>5. PassedIn(table, entry, k) <=> bk < be \/ (bk = be /\ pk <= pe)
    BY <1>4, <2>3 DEF PassedIn
  <2>6. bk = be => pk <= pe
    <3>1. pk \in 1..Len(table[bk]) /\ pe = Len(table[be])
      BY <1>1, <1>3, <1>4, <1>10, <2>2, <2>3
    <3> QED
      BY <3>1
  <2> QED
    BY <1>6, <1>10, <2>1, <2>2, <2>4, <2>5, <2>6
<1> QED
  BY <1>8, <1>9, <1>10, NextIs

(* Adding, removing and iterating leave the iterator where it should be. *)
LEMMA IterStep == DictInv /\ IterInv /\ [DictNext]_dictVars => IterInv'
<1> SUFFICES ASSUME DictInv, IterInv, [DictNext]_dictVars, ~grown' PROVE IterInv'
  BY DEF IterInv
<1>0. start \subseteq held
  BY DEF DictInv
<1>1. ASSUME NEW k \in Keys, Add(k) PROVE IterInv'
  <2>1. UNCHANGED <<index, entry, start, seen, ended>>
    BY <1>1 DEF Add
  <2>2. CASE UNCHANGED <<table, grown>>
    BY <2>1, <2>2 DEF IterInv, Once, PassedIn, Bucket, PlaceIn, Length
  <2>3. CASE grown' = grown /\ SameOrder(table, table', held)
    <3>1. ASSUME ~ended, entry # NoEntry
          PROVE  /\ Bucket(table', entry) = Bucket(table, entry)
                 /\ \A x \in start : PassedIn(table', entry, x) <=> PassedIn(table, entry, x)
      <4>1. entry \in held
        BY <3>1 DEF DictInv
      <4> QED
        BY <1>0, <2>3, <4>1, KeepsPassed DEF SameOrder
    <3> QED
      BY <2>1, <2>3, <3>1 DEF IterInv
  <2> QED
    BY <1>1, <2>2, <2>3, AddStep
<1>2. ASSUME NEW k \in Keys, RemoveKey(k) PROVE IterInv'
  <2>1. SameOrder(table, table', held \ {k})
    BY <1>2, RemoveStep
  <2>2. /\ ended \/ k # entry
        /\ start' = start \ {k} /\ UNCHANGED <<index, entry, seen, grown, ended>>
    BY <1>2 DEF RemoveKey
  <2>3. ASSUME ~ended, entry # NoEntry
        PROVE  /\ Bucket(table', entry) = Bucket(table, entry)
               /\ \A x \in start \ {k} : PassedIn(table', entry, x) <=> PassedIn(table, entry, x)
    <3>1. entry \in held \ {k}
      BY <2>2, <2>3 DEF DictInv
    <3>2. \A x \in start \ {k} : x \in held \ {k}
      BY <1>0
    <3> QED
      BY <2>1, <3>1, <3>2, KeepsPassed DEF SameOrder
  <2>4. Once(seen, start) => Once(seen, start \ {k})
    BY DEF Once
  <2> QED
    BY <2>2, <2>3, <2>4 DEF IterInv
<1>3. ASSUME Destroy PROVE IterInv'
  BY <1>3 DEF Destroy, IterInv, Once
<1>4. ASSUME Start_Get PROVE IterInv'
  BY <1>4 DEF Start_Get, IterInv, Once
<1>5. ASSUME Get_Next PROVE IterInv'
  <2>1. UNCHANGED <<table, count, held, start, grown>> /\ ~grown /\ ~ended
    BY <1>5 DEF Get_Next
  <2>2. Once(seen, start) /\ seen \in Seq(Keys) /\ held \subseteq Keys /\ NoEntry \notin Keys
    BY <2>1, DictionaryAssumption DEF IterInv, DictInv
  <2>3. CASE /\ entry' \in held /\ seen' = Append(seen, entry') /\ ~ended'
             /\ Bucket(table, entry') + 1 = index'
    <3>1. entry' \in Keys /\ entry' # NoEntry
      BY <2>2, <2>3
    <3>2. \A x \in start : /\ PassedIn(table, entry', x) <=> (x \in ToSet(seen) \/ x = entry')
                           /\ x = entry' => x \notin ToSet(seen)
      BY <1>5, <2>1, <3>1, PassedNext
    <3>3. ToSet(seen') = ToSet(seen) \cup {entry'} /\ Once(seen', start)
      BY <2>2, <2>3, <3>1, <3>2, ReturnedOnce
    <3>4. \A x \in start : x \in ToSet(seen') <=> PassedIn(table, entry', x)
      BY <3>2, <3>3
    <3> QED
      BY <2>1, <2>3, <3>1, <3>3, <3>4 DEF IterInv
  <2>4. CASE entry' = NoEntry /\ seen' = seen /\ ended' = TRUE
    <3>1. start \subseteq ToSet(seen)
      BY <1>5, <2>1, <2>4, PassedNext
    <3> QED
      BY <2>1, <2>2, <2>4, <3>1 DEF IterInv
  <2>5. \/ /\ entry' \in held /\ seen' = Append(seen, entry') /\ ~ended'
           /\ Bucket(table, entry') + 1 = index'
        \/ entry' = NoEntry /\ seen' = seen /\ ended' = TRUE
    <3>1. entry # NoEntry => Bucket(table, entry) + 1 = index
      BY <2>1 DEF IterInv
    <3> QED
      BY <1>5, <3>1, NextIs
  <2> QED
    BY <2>3, <2>4, <2>5
<1>6. CASE UNCHANGED dictVars
  BY <1>6 DEF IterInv, dictVars, Once, PassedIn, Bucket, PlaceIn, Length
<1> QED
  BY <1>1, <1>2, <1>3, <1>4, <1>5, <1>6 DEF DictNext

(* Whatever was added, removed and rehashed: a key is found iff it was     *)
(* added and not removed since, and count is the number of the keys        *)
(* (Dictionary::Add, Remove, Find, rehash, Destroy). *)
THEOREM AddedIsFound == DictSpec => []FindsWhatWasAdded
<1>1. DictInv => FindsWhatWasAdded
  BY FoundIsHeld DEF FindsWhatWasAdded, DictInv
<1> QED
  BY <1>1, DictInitInv, DictInvStep, PTL DEF DictSpec

(* However keys are added and removed between two calls of Get_Next: while *)
(* the table does not grow, an iteration returns every key that was there  *)
(* from its start once (Dictionary::Start_Get, Get_Next). *)
THEOREM EachKeyOnce == DictSpec => []IteratesOnce
<1>1. DictInv /\ IterInv => IteratesOnce
  <2> SUFFICES ASSUME DictInv, IterInv, ~grown
               PROVE  /\ ended /\ seen # <<>> => start \subseteq {seen[i] : i \in 1..Len(seen)}
                      /\ \A i, j \in 1..Len(seen) : seen[i] = seen[j] /\ seen[i] \in start => i = j
    BY DEF IteratesOnce
  <2>1. ToSet(seen) = {seen[i] : i \in 1..Len(seen)}
    BY LenProperties DEF DictInv, ToSet
  <2> QED
    BY <2>1 DEF IterInv, Once
<1> QED
  BY <1>1, DictInitInv, DictInvStep, IterStep, PTL DEF DictSpec

(* The dictionary's types: chains of keys, numbered from 0, and an index   *)
(* within them. *)
THEOREM DictTypes == DictSpec => []DictTypeOK
<1>1. DictInv => DictTypeOK
  <2> SUFFICES ASSUME DictInv PROVE DictTypeOK
    OBVIOUS
  <2>1. DOMAIN table = 0..Length(table) - 1 /\ \A i \in DOMAIN table : table[i] \in Seq(Keys)
    BY DEF DictInv, IsTable
  <2>2. count \in Nat
    BY FS_CardinalityType DEF DictInv
  <2> QED
    BY <2>1, <2>2 DEF DictInv, DictTypeOK
<1> QED
  BY <1>1, DictInitInv, DictInvStep, PTL DEF DictSpec

-----------------------------------------------------------------------------
(* mergeWords. *)

IsList == lines \in Seq(MarkerLine \cup EntryLine)

(* A line is a marker or has a record. *)
LEMMA LineKinds ==
    ASSUME IsList
    PROVE  /\ Len(lines) \in Nat
           /\ \A i \in 1..Len(lines) :
                 \/ IsMarker(lines[i]) /\ lines[i] \in MarkerLine
                 \/ ~IsMarker(lines[i]) /\ lines[i] \in EntryLine
<1>1. Len(lines) \in Nat /\ \A i \in 1..Len(lines) : lines[i] \in MarkerLine \cup EntryLine
  BY LenProperties, ElementOfSeq DEF IsList
<1>2. \A l \in MarkerLine : IsMarker(l)
  BY DEF MarkerLine, IsMarker
<1>3. \A l \in EntryLine : ~IsMarker(l)
  BY DEF EntryLine, IsMarker
<1> QED
  BY <1>1, <1>2, <1>3

(* Adding the numbers of the first m lines. *)
Adding(total, f, w, id, m) ==
    total = [n \in 0..m |->
                IF n = 0 THEN 0
                ELSE total[n - 1] + (IF IsAbout(lines[n], w, id) THEN f[n] ELSE 0)]

(* They can be added one after the other. *)
LEMMA AddingExists ==
    ASSUME NEW f, NEW w, NEW id
    PROVE  \A m \in Nat : \E total : Adding(total, f, w, id, m)
<1> DEFINE S == {m \in Nat : \E total : Adding(total, f, w, id, m)}
           Part(n) == IF IsAbout(lines[n], w, id) THEN f[n] ELSE 0
<1>1. 0 \in S
  <2> DEFINE t == [n \in 0..0 |-> 0]
  <2>1. t = [n \in 0..0 |-> IF n = 0 THEN 0 ELSE t[n - 1] + Part(n)]
    OBVIOUS
  <2>2. Adding(t, f, w, id, 0)
    BY <2>1 DEF Adding
  <2> QED
    BY <2>2
<1>2. ASSUME NEW m \in S PROVE m + 1 \in S
  <2>1. m \in Nat
    OBVIOUS
  <2>2. PICK t : Adding(t, f, w, id, m)
    OBVIOUS
  <2> HIDE DEF S, Part
  <2>3. t = [n \in 0..m |-> IF n = 0 THEN 0 ELSE t[n - 1] + Part(n)]
    BY <2>2 DEF Adding, Part
  <2> DEFINE u == [n \in 0..(m + 1) |-> IF n = m + 1 THEN t[m] + Part(m + 1) ELSE t[n]]
  <2>4. \A n \in 0..m : u[n] = t[n]
    BY <2>1
  <2>5. u[m + 1] = t[m] + Part(m + 1)
    BY <2>1
  <2>6. u = [n \in 0..(m + 1) |-> IF n = 0 THEN 0 ELSE u[n - 1] + Part(n)]
    <3>1. ASSUME NEW n \in 0..(m + 1)
          PROVE  u[n] = IF n = 0 THEN 0 ELSE u[n - 1] + Part(n)
      <4>1. CASE n = m + 1
        <5>1. n # 0 /\ n - 1 = m /\ m \in 0..m
          BY <2>1, <4>1
        <5>2. u[n - 1] = t[m]
          BY <2>4, <5>1
        <5> HIDE DEF u
        <5> QED
          BY <2>5, <4>1, <5>1, <5>2
      <4>2. CASE n # m + 1
        <5>1. n \in 0..m
          BY <2>1, <4>2
        <5>2. t[n] = IF n = 0 THEN 0 ELSE t[n - 1] + Part(n)
          BY <2>3, <5>1
        <5>3. n # 0 => n - 1 \in 0..m
          BY <2>1, <5>1
        <5> HIDE DEF u
        <5> QED
          BY <2>4, <5>1, <5>2, <5>3
      <4> QED
        BY <4>1, <4>2
    <3>2. u = [n \in 0..(m + 1) |-> u[n]]
      OBVIOUS
    <3> HIDE DEF u
    <3> QED
      BY <3>1, <3>2
  <2> HIDE DEF u
  <2>7. Adding(u, f, w, id, m + 1)
    BY <2>6 DEF Adding, Part
  <2> QED
    BY <2>1, <2>7 DEF S
<1> HIDE DEF S
<1>3. Nat \subseteq S
  BY <1>1, <1>2, FromZero
<1> QED
  BY <1>3 DEF S

(* What the sums of the first lines are. *)
LEMMA TotalsAre ==
    ASSUME IsList, NEW f \in [1..Len(lines) -> Nat], NEW w, NEW id
    PROVE  /\ Totals(f, w, id)[0] = 0
           /\ \A n \in 0..Len(lines) : Totals(f, w, id)[n] \in Nat
           /\ \A n \in 1..Len(lines) :
                 Totals(f, w, id)[n] =
                    Totals(f, w, id)[n - 1] + (IF IsAbout(lines[n], w, id) THEN f[n] ELSE 0)
<1>1. Len(lines) \in Nat
  BY LineKinds
<1> DEFINE t == CHOOSE total : Adding(total, f, w, id, Len(lines))
<1>2. Adding(t, f, w, id, Len(lines))
  BY <1>1, AddingExists
<1>3. Totals(f, w, id) = t
  BY DEF Totals, Adding
<1> HIDE DEF t
<1>4. \A n \in 0..Len(lines) :
         t[n] = IF n = 0 THEN 0 ELSE t[n - 1] + (IF IsAbout(lines[n], w, id) THEN f[n] ELSE 0)
  BY <1>2 DEF Adding
<1>5. t[0] = 0
  BY <1>1, <1>4
<1>6. \A n \in 1..Len(lines) :
         t[n] = t[n - 1] + (IF IsAbout(lines[n], w, id) THEN f[n] ELSE 0)
  BY <1>1, <1>4
<1> DEFINE S == {n \in Nat : n <= Len(lines) => t[n] \in Nat}
<1>7. 0 \in S
  BY <1>5
<1>8. ASSUME NEW n \in S PROVE n + 1 \in S
  <2>1. CASE n + 1 <= Len(lines)
    <3>1. n + 1 \in 1..Len(lines) /\ t[n] \in Nat /\ (n + 1) - 1 = n
      BY <1>1, <2>1
    <3>2. t[n + 1] = t[n] + (IF IsAbout(lines[n + 1], w, id) THEN f[n + 1] ELSE 0)
      BY <1>6, <3>1
    <3>3. f[n + 1] \in Nat
      BY <3>1
    <3> QED
      BY <3>1, <3>2, <3>3
  <2> QED
    BY <2>1
<1> HIDE DEF S
<1>9. Nat \subseteq S
  BY <1>7, <1>8, FromZero
<1>10. \A n \in 0..Len(lines) : t[n] \in Nat
  BY <1>1, <1>9 DEF S
<1> QED
  BY <1>3, <1>5, <1>6, <1>10

(* One line more. *)
LEMMA TotalNext ==
    ASSUME IsList, NEW f \in [1..Len(lines) -> Nat], NEW w, NEW id,
           NEW n \in Nat, n + 1 \in 1..Len(lines)
    PROVE  /\ Totals(f, w, id)[n] \in Nat
           /\ Totals(f, w, id)[n + 1] =
                 IF IsAbout(lines[n + 1], w, id) THEN Totals(f, w, id)[n] + f[n + 1]
                 ELSE Totals(f, w, id)[n]
<1> DEFINE t == Totals(f, w, id)
<1>1. n \in 0..Len(lines) /\ (n + 1) - 1 = n /\ Len(lines) \in Nat
  BY LineKinds
<1>2. t[n] \in Nat
  BY <1>1, TotalsAre
<1>3. t[n + 1] = t[(n + 1) - 1] + (IF IsAbout(lines[n + 1], w, id) THEN f[n + 1] ELSE 0)
  BY TotalsAre
<1> HIDE DEF t
<1>4. t[n + 1] = t[n] + (IF IsAbout(lines[n + 1], w, id) THEN f[n + 1] ELSE 0)
  BY <1>1, <1>3
<1>5. t[n + 1] = IF IsAbout(lines[n + 1], w, id) THEN t[n] + f[n + 1] ELSE t[n]
  BY <1>2, <1>4
<1> QED
  BY <1>2, <1>5 DEF t

(* Lines about other things add nothing. *)
LEMMA NoTotal ==
    ASSUME IsList, NEW f \in [1..Len(lines) -> Nat], NEW w, NEW id,
           NEW n \in 0..Len(lines), About(w, id, n) = {}
    PROVE  Totals(f, w, id)[n] = 0
<1>1. Len(lines) \in Nat
  BY LineKinds
<1> DEFINE S == {m \in Nat : m <= n => Totals(f, w, id)[m] = 0}
<1>2. 0 \in S
  BY TotalsAre
<1>3. ASSUME NEW m \in S PROVE m + 1 \in S
  <2>1. CASE m + 1 <= n
    <3>1. m + 1 \in 1..n /\ m + 1 \in 1..Len(lines) /\ Totals(f, w, id)[m] = 0 /\ (m + 1) - 1 = m
      BY <1>1, <2>1
    <3>2. ~IsAbout(lines[m + 1], w, id)
      BY <3>1 DEF About
    <3> QED
      BY <3>1, <3>2, TotalsAre
  <2> QED
    BY <2>1
<1> HIDE DEF S
<1>4. Nat \subseteq S
  BY <1>2, <1>3, FromZero
<1> QED
  BY <1>1, <1>4 DEF S

(* The record r is what the first n lines say of the word in the document. *)
Is(r, w, id, n) ==
    /\ r \in Record /\ r.id = id
    /\ r.count = Totals(Counts, w, id)[n]
    /\ r.weight = Totals(Weights, w, id)[n]
    /\ \E i \in About(w, id, n) : r.location = lines[i].rec.location
    /\ \A i \in About(w, id, n) : r.location <= lines[i].rec.location
    /\ r.anchor # 0 => \E i \in About(w, id, n) : r.anchor = lines[i].rec.anchor
    /\ \A i \in About(w, id, n) :
          lines[i].rec.anchor = 0 \/ (r.anchor # 0 /\ r.anchor <= lines[i].rec.anchor)

(* The least of a set of numbers. *)
LEMMA LeastIs ==
    ASSUME NEW s \in SUBSET Nat, NEW n \in s, \A k \in s : n <= k
    PROVE  Least(s) = n
<1>1. Least(s) \in s /\ \A k \in s : Least(s) <= k
  BY DEF Least
<1>2. Least(s) <= n /\ n <= Least(s) /\ Least(s) \in Nat /\ n \in Nat
  BY <1>1
<1> QED
  BY <1>2

(* What the lines are. *)
LEMMA AboutRecords ==
    ASSUME IsList, NEW w, NEW id, NEW n \in 0..Len(lines)
    PROVE  /\ Counts \in [1..Len(lines) -> Nat] /\ Weights \in [1..Len(lines) -> Nat]
           /\ \A i \in About(w, id, n) : /\ i \in 1..Len(lines) /\ i <= n
                                         /\ lines[i] \in EntryLine /\ lines[i].rec \in Record
<1>1. \A i \in 1..Len(lines) : ~IsMarker(lines[i]) =>
         /\ lines[i] \in EntryLine /\ lines[i].rec \in Record
         /\ lines[i].rec.count \in Nat /\ lines[i].rec.weight \in Nat
  BY LineKinds DEF EntryLine, Record
<1>2. Len(lines) \in Nat
  BY LineKinds
<1> QED
  BY <1>1, <1>2 DEF Counts, Weights, About, IsAbout

(* It is the record that the lines add up to. *)
LEMMA IsTheSum ==
    ASSUME IsList, NEW w, NEW id, NEW n \in 0..Len(lines), NEW r, Is(r, w, id, n)
    PROVE  r = Sum(w, id, n)
<1> DEFINE locations == {lines[i].rec.location : i \in About(w, id, n)}
           anchors == {lines[i].rec.anchor : i \in About(w, id, n)} \ {0}
<1>1. \A i \in About(w, id, n) : lines[i].rec.location \in Nat /\ lines[i].rec.anchor \in Nat
  BY AboutRecords DEF Record
<1>2. r.location = Least(locations)
  <2>1. locations \in SUBSET Nat /\ r.location \in locations /\ \A k \in locations : r.location <= k
    BY <1>1 DEF Is
  <2> HIDE DEF locations
  <2> QED
    BY <2>1, LeastIs
<1>3. r.anchor = IF anchors = {} THEN 0 ELSE Least(anchors)
  <2>1. anchors \in SUBSET Nat
    BY <1>1
  <2>2. r.anchor = 0 => anchors = {}
    BY DEF Is
  <2>3. r.anchor # 0 => r.anchor \in anchors /\ \A k \in anchors : r.anchor <= k
    BY DEF Is
  <2> HIDE DEF anchors
  <2> QED
    BY <2>1, <2>2, <2>3, LeastIs
<1>4. r = [id |-> r.id, count |-> r.count, weight |-> r.weight, location |-> r.location,
           anchor |-> r.anchor]
  BY DEF Is, Record
<1>5. r.id = id /\ r.count = Totals(Counts, w, id)[n] /\ r.weight = Totals(Weights, w, id)[n]
  BY DEF Is
<1>6. Sum(w, id, n) = [id |-> id, count |-> Totals(Counts, w, id)[n],
                       weight |-> Totals(Weights, w, id)[n], location |-> Least(locations),
                       anchor |-> IF anchors = {} THEN 0 ELSE Least(anchors)]
  BY DEF Sum
<1> HIDE DEF locations, anchors
<1> QED
  BY <1>2, <1>3, <1>4, <1>5, <1>6

(* The first line about them. *)
LEMMA FirstIs ==
    ASSUME IsList, NEW w, NEW id, NEW n \in Nat, n + 1 \in 1..Len(lines),
           IsAbout(lines[n + 1], w, id), About(w, id, n) = {}
    PROVE  Is(lines[n + 1].rec, w, id, n + 1)
<1>1. n \in 0..Len(lines) /\ n + 1 \in 0..Len(lines) /\ (n + 1) - 1 = n /\ Len(lines) \in Nat
  BY LineKinds
<1>2. About(w, id, n + 1) = {n + 1}
  BY <1>1 DEF About
<1>3. Counts \in [1..Len(lines) -> Nat] /\ Weights \in [1..Len(lines) -> Nat]
        /\ lines[n + 1].rec \in Record
  BY <1>1, <1>2, AboutRecords
<1>4. Counts[n + 1] = lines[n + 1].rec.count /\ Weights[n + 1] = lines[n + 1].rec.weight
  BY DEF Counts, Weights, IsAbout
<1>5. lines[n + 1].rec.count \in Nat /\ lines[n + 1].rec.weight \in Nat
        /\ lines[n + 1].rec.location \in Nat /\ lines[n + 1].rec.anchor \in Nat
  BY <1>3 DEF Record
<1>6. Totals(Counts, w, id)[n + 1] = lines[n + 1].rec.count
  <2>1. Totals(Counts, w, id)[n] = 0
    BY <1>1, <1>3, NoTotal
  <2>2. Totals(Counts, w, id)[n + 1] = Totals(Counts, w, id)[n] + Counts[n + 1]
    BY <1>3, TotalNext
  <2> QED
    BY <1>4, <1>5, <2>1, <2>2
<1>7. Totals(Weights, w, id)[n + 1] = lines[n + 1].rec.weight
  <2>1. Totals(Weights, w, id)[n] = 0
    BY <1>1, <1>3, NoTotal
  <2>2. Totals(Weights, w, id)[n + 1] = Totals(Weights, w, id)[n] + Weights[n + 1]
    BY <1>3, TotalNext
  <2> QED
    BY <1>4, <1>5, <2>1, <2>2
<1>8. lines[n + 1].rec.id = id
  BY DEF IsAbout
<1> QED
  BY <1>2, <1>3, <1>5, <1>6, <1>7, <1>8 DEF Is

(* A line that is added to the one before. *)
LEMMA MergedIs ==
    ASSUME NEW a \in Record, NEW b \in Record
    PROVE  /\ Merged(a, b).id = a.id
           /\ Merged(a, b).count = a.count + b.count
           /\ Merged(a, b).weight = a.weight + b.weight
           /\ Merged(a, b).location = (IF b.location < a.location THEN b.location ELSE a.location)
           /\ Merged(a, b).anchor = (IF (b.anchor > 0 /\ b.anchor < a.anchor) \/ a.anchor = 0
                                     THEN b.anchor ELSE a.anchor)
           /\ Merged(a, b) \in Record
<1> DEFINE counts == a.count + b.count
           weights == a.weight + b.weight
           location == IF b.location < a.location THEN b.location ELSE a.location
           anchor == IF (b.anchor > 0 /\ b.anchor < a.anchor) \/ a.anchor = 0
                     THEN b.anchor ELSE a.anchor
<1>1. /\ a = [id |-> a.id, count |-> a.count, weight |-> a.weight, location |-> a.location,
              anchor |-> a.anchor]
      /\ a.id \in Nat /\ a.count \in Nat /\ a.weight \in Nat
      /\ a.location \in Nat /\ a.anchor \in Nat
      /\ b.count \in Nat /\ b.weight \in Nat /\ b.location \in Nat /\ b.anchor \in Nat
  BY DEF Record
<1>2. counts \in Nat /\ weights \in Nat /\ location \in Nat /\ anchor \in Nat
  BY <1>1
<1>3. Merged(a, b) = [a EXCEPT !.count = counts, !.weight = weights, !.location = location,
                               !.anchor = anchor]
  BY DEF Merged
<1> HIDE DEF counts, weights, location, anchor
<1>4. Merged(a, b) = [id |-> a.id, count |-> counts, weight |-> weights, location |-> location,
                      anchor |-> anchor]
  BY <1>1, <1>3
<1>5. Merged(a, b) \in Record
  BY <1>1, <1>2, <1>4 DEF Record
<1> QED
  BY <1>4, <1>5 DEF counts, weights, location, anchor

(* One more. *)
LEMMA MoreIs ==
    ASSUME IsList, NEW w, NEW id, NEW n \in Nat, n + 1 \in 1..Len(lines),
           IsAbout(lines[n + 1], w, id), NEW r, Is(r, w, id, n)
    PROVE  Is(Merged(r, lines[n + 1].rec), w, id, n + 1)
<1>1. n \in 0..Len(lines) /\ n + 1 \in 0..Len(lines) /\ (n + 1) - 1 = n /\ Len(lines) \in Nat
  BY LineKinds
<1>2. About(w, id, n + 1) = About(w, id, n) \cup {n + 1}
  BY <1>1 DEF About
<1>3. Counts \in [1..Len(lines) -> Nat] /\ Weights \in [1..Len(lines) -> Nat]
        /\ lines[n + 1].rec \in Record /\ \A i \in About(w, id, n) : lines[i].rec \in Record
  BY <1>1, <1>2, AboutRecords
<1>4. Counts[n + 1] = lines[n + 1].rec.count /\ Weights[n + 1] = lines[n + 1].rec.weight
  BY DEF Counts, Weights, IsAbout
<1> DEFINE l == lines[n + 1].rec
<1>5. /\ l.count \in Nat /\ l.weight \in Nat /\ l.location \in Nat /\ l.anchor \in Nat
      /\ r \in Record /\ r.count \in Nat /\ r.weight \in Nat
      /\ r.location \in Nat /\ r.anchor \in Nat
      /\ r.id \in Nat
  BY <1>3 DEF Record, Is
<1>6. Totals(Counts, w, id)[n + 1] = r.count + l.count
  BY <1>3, <1>4, TotalNext DEF Is
<1>7. Totals(Weights, w, id)[n + 1] = r.weight + l.weight
  BY <1>3, <1>4, TotalNext DEF Is
<1> DEFINE L(i) == lines[i].rec.location
           A(i) == lines[i].rec.anchor
<1>10. l.location = L(n + 1) /\ l.anchor = A(n + 1)
  OBVIOUS
<1> HIDE DEF l
<1> DEFINE m == Merged(r, l)
<1>8. /\ m.id = r.id /\ m.count = r.count + l.count /\ m.weight = r.weight + l.weight
      /\ m.location = (IF l.location < r.location THEN l.location ELSE r.location)
      /\ m.anchor = (IF (l.anchor > 0 /\ l.anchor < r.anchor) \/ r.anchor = 0
                     THEN l.anchor ELSE r.anchor)
      /\ m \in Record
  <2>1. l \in Record
    BY <1>3 DEF l
  <2> QED
    BY <1>5, <2>1, MergedIs DEF m
<1>9. \A i \in About(w, id, n) : lines[i].rec.location \in Nat /\ lines[i].rec.anchor \in Nat
  BY <1>3 DEF Record
<1>11. /\ \E i \in About(w, id, n) : r.location = L(i)
       /\ \A i \in About(w, id, n) : r.location <= L(i)
       /\ r.anchor # 0 => \E i \in About(w, id, n) : r.anchor = A(i)
       /\ \A i \in About(w, id, n) : A(i) = 0 \/ (r.anchor # 0 /\ r.anchor <= A(i))
       /\ \A i \in About(w, id, n) : L(i) \in Nat /\ A(i) \in Nat
  BY <1>9 DEF Is
<1>12. /\ m.id = id /\ m.count = Totals(Counts, w, id)[n + 1]
       /\ m.weight = Totals(Weights, w, id)[n + 1]
  BY <1>6, <1>7, <1>8 DEF Is
<1> HIDE DEF m
<1>13. /\ \E i \in About(w, id, n + 1) : m.location = L(i)
       /\ \A i \in About(w, id, n + 1) : m.location <= L(i)
  <2> HIDE DEF L, A
  <2> QED
    BY <1>2, <1>5, <1>8, <1>10, <1>11
<1>14. /\ m.anchor # 0 => \E i \in About(w, id, n + 1) : m.anchor = A(i)
       /\ \A i \in About(w, id, n + 1) : A(i) = 0 \/ (m.anchor # 0 /\ m.anchor <= A(i))
  <2> HIDE DEF L, A
  <2>1. CASE m.anchor = l.anchor /\ ((l.anchor > 0 /\ l.anchor < r.anchor) \/ r.anchor = 0)
    <3>1. m.anchor # 0 => \E i \in About(w, id, n + 1) : m.anchor = A(i)
      BY <1>2, <1>10, <2>1
    <3>2. ASSUME NEW i \in About(w, id, n), A(i) # 0
          PROVE  m.anchor # 0 /\ m.anchor <= A(i)
      <4>1. PICK x : x = A(i)
        OBVIOUS
      <4>2. x \in Nat /\ r.anchor # 0 /\ r.anchor <= x
        BY <1>11, <3>2, <4>1
      <4>3. m.anchor # 0 /\ m.anchor <= x
        BY <1>5, <2>1, <4>2
      <4> QED
        BY <4>1, <4>3
    <3>3. \A i \in About(w, id, n) : A(i) = 0 \/ (m.anchor # 0 /\ m.anchor <= A(i))
      BY <3>2
    <3>4. A(n + 1) = 0 \/ (m.anchor # 0 /\ m.anchor <= A(n + 1))
      BY <1>5, <1>10, <2>1
    <3> QED
      BY <1>2, <3>1, <3>3, <3>4
  <2>2. CASE m.anchor = r.anchor /\ r.anchor # 0 /\ ~(l.anchor > 0 /\ l.anchor < r.anchor)
    <3>1. \E i \in About(w, id, n + 1) : m.anchor = A(i)
      BY <1>2, <1>11, <2>2
    <3>2. A(n + 1) = 0 \/ m.anchor <= A(n + 1)
      BY <1>5, <1>10, <2>2
    <3> QED
      BY <1>2, <1>11, <2>2, <3>1, <3>2
  <2> QED
    BY <1>8, <2>1, <2>2
<1>15. Is(m, w, id, n + 1)
  BY <1>8, <1>12, <1>13, <1>14 DEF Is
<1> QED
  BY <1>15 DEF m, l

(* A line about something else. *)
LEMMA StaysIs ==
    ASSUME IsList, NEW w, NEW id, NEW n \in Nat, n + 1 \in 1..Len(lines),
           ~IsAbout(lines[n + 1], w, id), NEW r, Is(r, w, id, n)
    PROVE  Is(r, w, id, n + 1)
<1>1. n \in 0..Len(lines) /\ n + 1 \in 0..Len(lines) /\ (n + 1) - 1 = n /\ Len(lines) \in Nat
  BY LineKinds
<1>2. About(w, id, n + 1) = About(w, id, n)
  BY <1>1 DEF About
<1>3. Counts \in [1..Len(lines) -> Nat] /\ Weights \in [1..Len(lines) -> Nat]
  BY <1>1, AboutRecords
<1>4. Totals(Counts, w, id)[n + 1] = Totals(Counts, w, id)[n]
  BY <1>3, TotalNext
<1>5. Totals(Weights, w, id)[n + 1] = Totals(Weights, w, id)[n]
  BY <1>3, TotalNext
<1> QED
  BY <1>2, <1>4, <1>5 DEF Is

(* The records of a word, written or still being collected. *)
Recs(w) == IF w = currentWord THEN out ELSE postings[w]

(* A line is held back. *)
Held(w, id) == wphase = "read" /\ lastWord # None /\ lastWord = w /\ lastRec.id = id

HeldOrJunk == Record \cup Junk

(* Words are written in the order of the list, so that none beyond the     *)
(* highest has records; and nothing is collected before a line is held     *)
(* back. *)
CollectInv ==
    /\ IsList
    /\ at \in 0..Len(lines)
    /\ lastWord \in Vocabulary \cup {None}
    /\ lastRec \in HeldOrJunk
    /\ lastWord # None => lastRec \in Record
    /\ currentWord \in Vocabulary \cup {None}
    /\ highWord \in Nat
    /\ out \in Seq(HeldOrJunk)
    /\ postings \in [Vocabulary \cup {None} -> Seq(HeldOrJunk)]
    /\ relisted \in Seq([word : Vocabulary \cup {None}, rec : HeldOrJunk])
    /\ wphase \in {"read", "last", "done"}
    /\ wphase # "read" => at = Len(lines)
    /\ lastWord = None => currentWord = None
    /\ currentWord = None => \A w \in Vocabulary : postings[w] = <<>>
    /\ \A w \in Vocabulary : w > highWord => postings[w] = <<>> /\ w # currentWord
    /\ wphase = "done" => postings[currentWord] = out

(* The new list has the records of every word, in their order. *)
FiledInv == \A w \in Vocabulary : Relists(w, Recs(w))

(* The IDs that the markers among the first n lines discard. *)
GoneBy(n) ==
    {lines[i].id : i \in {j \in 1..n :
        IsMarker(lines[j]) /\ (lines[j].mark = "!" \/ (removeBadUrls /\ lines[j].mark = "-"))}}

HeldSum ==
    wphase = "read" /\ lastWord # None =>
        Is(lastRec, lastWord, lastRec.id, at) /\ lastRec.id \notin Gone

(* A record of a word is final: no line that is still to be read is about  *)
(* the same. *)
Final(w, r) ==
    /\ Is(r, w, r.id, at)
    /\ r.id \notin Gone
    /\ ~Held(w, r.id)
    /\ \A j \in (at + 1)..Len(lines) : ~IsAbout(lines[j], w, r.id)

Distinct(s) == \A i, j \in 1..Len(s) : s[i].id = s[j].id => i = j

RecsFinal ==
    \A w \in Vocabulary :
        /\ \A i \in 1..Len(Recs(w)) : Final(w, Recs(w)[i])
        /\ Distinct(Recs(w))

Collected(w, id) == \E i \in 1..Len(Recs(w)) : Recs(w)[i].id = id

NoneMissed ==
    \A j \in 1..at : ~IsMarker(lines[j]) /\ lines[j].rec.id \notin Gone =>
        Held(lines[j].word, lines[j].rec.id) \/ Collected(lines[j].word, lines[j].rec.id)

(* In a list in order, what is held back and what is collected are sums of *)
(* the lines read; what is collected is final; and every line read whose   *)
(* document is not discarded is in one of them. *)
SumsInv ==
    InOrder(lines) =>
        discards = GoneBy(at) /\ HeldSum /\ RecsFinal /\ NoneMissed

-----------------------------------------------------------------------------
(* What a record is does not change, for the lines do not. *)
LEMMA SameIs ==
    ASSUME lines' = lines, NEW r, NEW w, NEW id, NEW n
    PROVE  Is(r, w, id, n)' <=> Is(r, w, id, n)
<1>1. Totals(Counts, w, id)' = Totals(Counts, w, id)
  BY DEF Totals, Counts, IsAbout, IsMarker
<1>2. Totals(Weights, w, id)' = Totals(Weights, w, id)
  BY DEF Totals, Weights, IsAbout, IsMarker
<1>3. About(w, id, n)' = About(w, id, n)
  BY DEF About, IsAbout, IsMarker
<1> QED
  BY <1>1, <1>2, <1>3 DEF Is

(* What is written is the next record of its word. *)
LEMMA StoreAppends ==
    ASSUME CollectInv, wphase = "read", Store
    PROVE  /\ \A w \in Vocabulary :
                 Recs(w)' = IF w = lastWord THEN Append(Recs(w), lastRec) ELSE Recs(w)
           /\ out' \in Seq(HeldOrJunk)
           /\ postings' \in [Vocabulary \cup {None} -> Seq(HeldOrJunk)]
           /\ relisted' \in Seq([word : Vocabulary \cup {None}, rec : HeldOrJunk])
           /\ currentWord' = lastWord
           /\ highWord' \in Nat
           /\ lastWord # None => currentWord' # None
           /\ currentWord' = None => \A w \in Vocabulary : postings'[w] = <<>>
           /\ \A w \in Vocabulary : w > highWord' => postings'[w] = <<>> /\ w # currentWord'
<1>1. \A w \in Vocabulary : w \in Nat /\ w # None
  BY WordsAssumption
<1>2. /\ relisted' = Append(relisted, [word |-> lastWord, rec |-> lastRec])
      /\ currentWord' = lastWord
      /\ highWord' = IF lastWord > highWord THEN lastWord ELSE highWord
      /\ lastWord \in Vocabulary \cup {None} /\ currentWord \in Vocabulary \cup {None}
      /\ lastRec \in HeldOrJunk /\ highWord \in Nat
      /\ out \in Seq(HeldOrJunk) /\ postings \in [Vocabulary \cup {None} -> Seq(HeldOrJunk)]
      /\ lastWord = None => currentWord = None
      /\ currentWord = None => \A w \in Vocabulary : postings[w] = <<>>
      /\ \A w \in Vocabulary : w > highWord => postings[w] = <<>> /\ w # currentWord
  BY DEF Store, CollectInv
<1>3. /\ currentWord = None => out' = <<lastRec>> /\ postings' = postings
      /\ currentWord # None /\ lastWord = currentWord =>
            out' = Append(out, lastRec) /\ postings' = postings
      /\ currentWord # None /\ lastWord # currentWord =>
            /\ postings' = [postings EXCEPT ![currentWord] = out]
            /\ out' = IF lastWord > highWord THEN <<lastRec>>
                      ELSE Append(postings'[lastWord], lastRec)
  BY DEF Store
<1>4. None = 0 /\ lastWord \in Nat
  BY <1>1, <1>2 DEF None
<1>5. <<lastRec>> \in Seq(HeldOrJunk) /\ <<lastRec>> = Append(<<>>, lastRec)
  BY <1>2
<1>6. relisted' \in Seq([word : Vocabulary \cup {None}, rec : HeldOrJunk])
  <2>1. [word |-> lastWord, rec |-> lastRec] \in [word : Vocabulary \cup {None}, rec : HeldOrJunk]
    BY <1>2
  <2>2. relisted \in Seq([word : Vocabulary \cup {None}, rec : HeldOrJunk])
    BY DEF CollectInv
  <2> QED
    BY <1>2, <2>1, <2>2, AppendProperties
<1>7. postings' \in [Vocabulary \cup {None} -> Seq(HeldOrJunk)]
  BY <1>2, <1>3
<1>8. out' \in Seq(HeldOrJunk)
  <2>1. CASE currentWord = None
    BY <1>3, <1>5, <2>1
  <2>2. CASE currentWord # None /\ lastWord = currentWord
    <3>1. out \in Seq(HeldOrJunk) /\ lastRec \in HeldOrJunk
      BY <1>2
    <3>2. Append(out, lastRec) \in Seq(HeldOrJunk)
      BY <3>1, AppendProperties
    <3> QED
      BY <1>3, <2>2, <3>2
  <2>3. CASE currentWord # None /\ lastWord # currentWord
    <3>1. postings'[lastWord] \in Seq(HeldOrJunk)
      BY <1>2, <1>7
    <3>2. Append(postings'[lastWord], lastRec) \in Seq(HeldOrJunk)
      BY <1>2, <3>1, AppendProperties
    <3> QED
      BY <1>3, <1>5, <2>3, <3>2
  <2> QED
    BY <2>1, <2>2, <2>3
<1>9. \A w \in Vocabulary : w # currentWord => postings'[w] = postings[w]
  BY <1>2, <1>3
<1>10. ASSUME NEW w \in Vocabulary
       PROVE  Recs(w)' = IF w = lastWord THEN Append(Recs(w), lastRec) ELSE Recs(w)
  <2>1. Recs(w)' = IF w = lastWord THEN out' ELSE postings'[w]
    BY <1>2 DEF Recs
  <2>2. CASE w = lastWord
    <3>1. CASE currentWord = None
      BY <1>1, <1>2, <1>3, <1>5, <2>1, <2>2, <3>1 DEF Recs
    <3>2. CASE currentWord # None /\ lastWord = currentWord
      BY <1>3, <2>1, <2>2, <3>2 DEF Recs
    <3>3. CASE currentWord # None /\ lastWord # currentWord
      <4>1. postings'[w] = postings[w]
        BY <1>9, <2>2, <3>3
      <4>2. lastWord > highWord => postings[w] = <<>>
        BY <1>2, <2>2
      <4>3. Recs(w) = postings[w]
        BY <2>2, <3>3 DEF Recs
      <4> QED
        BY <1>3, <1>5, <2>1, <2>2, <3>3, <4>1, <4>2, <4>3
    <3> QED
      BY <3>1, <3>2, <3>3
  <2>3. CASE w # lastWord
    <3>1. CASE w = currentWord
      BY <1>1, <1>2, <1>3, <2>1, <2>3, <3>1 DEF Recs
    <3>2. CASE w # currentWord
      BY <1>9, <2>1, <2>3, <3>2 DEF Recs
    <3> QED
      BY <3>1, <3>2
  <2> QED
    BY <2>2, <2>3
<1>11. highWord' \in Nat
  BY <1>2, <1>4
<1>12. currentWord' = None => \A w \in Vocabulary : postings'[w] = <<>>
  BY <1>2, <1>3
<1>13. \A w \in Vocabulary : w > highWord' => postings'[w] = <<>> /\ w # currentWord'
  <2> SUFFICES ASSUME NEW w \in Vocabulary, w > highWord'
               PROVE  postings'[w] = <<>> /\ w # lastWord
    BY <1>2
  <2>1. w > highWord /\ w # lastWord
    BY <1>1, <1>2, <1>4
  <2> QED
    BY <1>2, <1>9, <2>1
<1> QED
  BY <1>2, <1>6, <1>7, <1>8, <1>10, <1>11, <1>12, <1>13

(* A record and a line of the new list more. *)
LEMMA FiledMore ==
    ASSUME CollectInv, FiledInv, wphase = "read", Store
    PROVE  FiledInv'
<1> DEFINE More == [word |-> lastWord, rec |-> lastRec]
           T == [word : Vocabulary \cup {None}, rec : HeldOrJunk]
<1>1. relisted \in Seq(T) /\ More \in T /\ relisted' = Append(relisted, More)
  BY DEF CollectInv, Store
<1>2. /\ Len(relisted) \in Nat /\ Len(relisted') = Len(relisted) + 1
      /\ \A i \in 1..Len(relisted) : relisted'[i] = relisted[i]
      /\ relisted'[Len(relisted) + 1] = More
  BY <1>1, AppendProperties, LenProperties
<1> SUFFICES ASSUME NEW w \in Vocabulary PROVE Relists(w, Recs(w))'
  BY DEF FiledInv
<1> PICK n \in Nat : n = Len(relisted)
  BY <1>2
<1> DEFINE Upto(i) == {j \in 1..i : relisted[j].word = w}
<1>3. Relists(w, Recs(w))
  BY DEF FiledInv
<1>4. /\ Len(Recs(w)) = Which(w, n)
      /\ \A i \in 1..n : relisted[i].word = w => Recs(w)[Which(w, i)] = relisted[i].rec
  BY <1>3 DEF Relists
<1>5. \A i \in 0..n : /\ IsFiniteSet(Upto(i)) /\ Cardinality(Upto(i)) = Which(w, i)
                      /\ Which(w, i) \in Nat
                      /\ Which(w, i) <= Which(w, n) /\ Which(w, i)' = Which(w, i)
  <2> SUFFICES ASSUME NEW i \in 0..n
               PROVE  /\ IsFiniteSet(Upto(i)) /\ Cardinality(Upto(i)) = Which(w, i)
                      /\ Which(w, i) \in Nat
                      /\ Which(w, i) <= Which(w, n) /\ Which(w, i)' = Which(w, i)
    OBVIOUS
  <2>1. IsFiniteSet(1..n) 
    BY FS_Interval
  <2>4. Upto(n) \subseteq 1..n /\ Upto(i) \subseteq Upto(n)
    OBVIOUS
  <2>2. IsFiniteSet(Upto(n)) /\ IsFiniteSet(Upto(i)) /\ Cardinality(Upto(i)) <= Cardinality(Upto(n))
    BY <2>1, <2>4, FS_Subset
  <2>3. Upto(i)' = Upto(i)
    BY <1>2
  <2> QED
    BY <2>2, <2>3, FS_CardinalityType DEF Which
<1>6. \A i \in 1..n : relisted[i].word = w => Which(w, i) \in 1..Which(w, n)
  <2> SUFFICES ASSUME NEW i \in 1..n, relisted[i].word = w
               PROVE  Which(w, i) \in 1..Which(w, n)
    OBVIOUS
  <2>1. i \in 0..n /\ n \in 0..n /\ i \in Upto(i)
    OBVIOUS
  <2>2. /\ IsFiniteSet(Upto(i)) /\ Cardinality(Upto(i)) = Which(w, i)
        /\ Which(w, i) \in Nat /\ Which(w, n) \in Nat /\ Which(w, i) <= Which(w, n)
    BY <1>5, <2>1
  <2> HIDE DEF Upto
  <2>3. Which(w, i) # 0
    BY <2>1, <2>2, FS_EmptySet
  <2> QED
    BY <2>2, <2>3
<1>7. Which(w, n + 1)' = IF lastWord = w THEN Which(w, n) + 1 ELSE Which(w, n)
  <2>1. Which(w, n + 1)' = Cardinality({j \in 1..(n + 1) : relisted'[j].word = w})
    BY DEF Which
  <2>2. {j \in 1..(n + 1) : relisted'[j].word = w} =
            IF lastWord = w THEN Upto(n) \cup {n + 1} ELSE Upto(n)
    BY <1>2
  <2>3. n + 1 \notin Upto(n) /\ IsFiniteSet(Upto(n)) /\ Cardinality(Upto(n)) = Which(w, n)
    <3>1. n \in Nat /\ n \in 0..n
      BY <1>2
    <3>2. n + 1 \notin Upto(n)
      BY <3>1
    <3> HIDE DEF Upto
    <3> QED
      BY <1>5, <3>1, <3>2
  <2> HIDE DEF Upto
  <2> QED
    BY <2>1, <2>2, <2>3, FS_AddElement
<1>8. Recs(w)' = IF w = lastWord THEN Append(Recs(w), lastRec) ELSE Recs(w)
  BY StoreAppends
<1>9. Recs(w) \in Seq(HeldOrJunk)
  BY DEF Recs, CollectInv
<1>10. lastRec \in HeldOrJunk
  BY DEF CollectInv
<1>11. w = lastWord => /\ Len(Recs(w)') = Which(w, n) + 1
                       /\ \A i \in 1..Which(w, n) : Recs(w)'[i] = Recs(w)[i]
                       /\ Recs(w)'[Which(w, n) + 1] = lastRec
  BY <1>4, <1>8, <1>9, <1>10, AppendProperties
<1>12. Len(Recs(w)') = Which(w, n + 1)'
  BY <1>4, <1>7, <1>8, <1>11
<1>13. ASSUME NEW i \in 1..(n + 1), relisted'[i].word = w
       PROVE  Recs(w)'[Which(w, i)'] = relisted'[i].rec
  <2>1. CASE i \in 1..n
    <3>1. relisted'[i] = relisted[i]
      BY <1>2, <2>1
    <3>2. i \in 0..n
      BY <2>1
    <3>3. Which(w, i)' = Which(w, i)
      BY <1>5, <3>2
    <3> QED
      BY <1>4, <1>6, <1>8, <1>11, <1>13, <2>1, <3>1, <3>3
  <2>2. CASE i = n + 1
    <3>1. lastWord = w /\ relisted'[i].rec = lastRec
      BY <1>2, <1>13, <2>2
    <3> QED
      BY <1>7, <1>11, <2>2, <3>1
  <2> QED
    BY <1>2, <2>1, <2>2
<1> QED
  BY <1>2, <1>12, <1>13 DEF Relists

(* A word's line comes after every marker, so that what is to be discarded *)
(* is known. *)
LEMMA GoneKnown ==
    ASSUME CollectInv, InOrder(lines), discards = GoneBy(at), Reading, ~IsMarker(Next1)
    PROVE  discards = Gone
<1>1. at \in Nat /\ Len(lines) \in Nat /\ at + 1 \in 1..Len(lines)
  BY LineKinds DEF CollectInv, Reading
<1>2. \A j \in 1..Len(lines) : IsMarker(lines[j]) => j \in 1..at
  <2> SUFFICES ASSUME NEW j \in 1..Len(lines), IsMarker(lines[j]), j \notin 1..at
               PROVE  FALSE
    OBVIOUS
  <2>1. j = at + 1 \/ at + 1 < j
    BY <1>1
  <2> QED
    BY <1>1, <2>1 DEF InOrder, Next1
<1>3. \A j \in 1..at : j \in 1..Len(lines)
  BY <1>1
<1> QED
  BY <1>2, <1>3 DEF Gone, GoneBy

(* A line about what is not held back is the first. *)
LEMMA NotYet ==
    ASSUME CollectInv, InOrder(lines), RecsFinal, NoneMissed, Reading, ~IsMarker(Next1),
           Next1.rec.id \notin Gone, ~Held(Next1.word, Next1.rec.id)
    PROVE  About(Next1.word, Next1.rec.id, at) = {}
<1>1. at \in Nat /\ Len(lines) \in Nat /\ at + 1 \in 1..Len(lines)
  BY LineKinds DEF CollectInv, Reading
<1>2. Next1.word \in Vocabulary
  BY <1>1, LineKinds DEF CollectInv, Next1, EntryLine
<1> SUFFICES ASSUME NEW j \in About(Next1.word, Next1.rec.id, at) PROVE FALSE
  OBVIOUS
<1>3. /\ j \in 1..at /\ ~IsMarker(lines[j])
      /\ lines[j].word = Next1.word /\ lines[j].rec.id = Next1.rec.id
  BY DEF About, IsAbout
<1>4. Collected(Next1.word, Next1.rec.id)
  BY <1>3 DEF NoneMissed
<1>5. PICK i \in 1..Len(Recs(Next1.word)) : Recs(Next1.word)[i].id = Next1.rec.id
  BY <1>4 DEF Collected
<1>6. \A k \in (at + 1)..Len(lines) : ~IsAbout(lines[k], Next1.word, Next1.rec.id)
  BY <1>2, <1>5 DEF RecsFinal, Final
<1>7. at + 1 \in (at + 1)..Len(lines)
  BY <1>1
<1> QED
  BY <1>6, <1>7 DEF IsAbout, Next1

(* The records collected stay final when the next line is read: they stay  *)
(* what they are, and what is then held back is not about them. *)
LEMMA FinalStays ==
    ASSUME CollectInv, Reading, at' = at + 1, lines' = lines, removeBadUrls' = removeBadUrls,
           NEW w, NEW r, Final(w, r), ~Held(w, r.id)'
    PROVE  Final(w, r)'
<1>1. at \in Nat /\ Len(lines) \in Nat /\ at + 1 \in 1..Len(lines) /\ IsList
  BY LineKinds DEF CollectInv, Reading
<1>2. ~IsAbout(lines[at + 1], w, r.id)
  BY <1>1 DEF Final
<1>3. Is(r, w, r.id, at + 1)
  BY <1>1, <1>2, StaysIs DEF Final
<1> PICK n \in Nat : n = at + 1
  BY <1>1
<1>4. Is(r, w, r.id, n)'
  BY <1>3, SameIs
<1>5. Gone' = Gone
  BY DEF Gone, IsMarker
<1>6. \A j \in (at' + 1)..Len(lines') : ~IsAbout(lines'[j], w, r.id)
  <2> SUFFICES ASSUME NEW j \in (at' + 1)..Len(lines') PROVE ~IsAbout(lines'[j], w, r.id)
    OBVIOUS
  <2>1. j \in (at + 1)..Len(lines)
    BY <1>1
  <2> QED
    BY <2>1 DEF Final
<1>7. Is(r, w, r.id, at)'
  BY <1>4
<1> QED
  BY <1>5, <1>6, <1>7 DEF Final

(* They hold before a line is read. *)
LEMMA CollectInit == WordsInit => CollectInv /\ FiledInv /\ SumsInv
<1> SUFFICES ASSUME WordsInit PROVE CollectInv /\ FiledInv /\ SumsInv
  OBVIOUS
<1>1. /\ IsList
      /\ \A w \in Vocabulary : w \in Nat /\ w # None
  BY WordsAssumption DEF WordsInit, IsList
<1>2. Len(lines) \in Nat
  BY <1>1, LineKinds
<1>3. <<>> \in Seq(HeldOrJunk) /\ <<>> \in Seq([word : Vocabulary \cup {None}, rec : HeldOrJunk])
  OBVIOUS
<1>4. None \in Nat /\ 0 \in 0..Len(lines)
  BY <1>2 DEF None
<1>5. CollectInv
  BY <1>1, <1>3, <1>4 DEF WordsInit, CollectInv, HeldOrJunk
<1>6. \A w \in Vocabulary : Recs(w) = <<>>
  BY DEF WordsInit, Recs
<1>7. \A w \in Vocabulary : Which(w, 0) = 0
  <2>1. \A w \in Vocabulary : {j \in 1..0 : relisted[j].word = w} = {}
    OBVIOUS
  <2> QED
    BY <2>1, FS_EmptySet DEF Which
<1>8. FiledInv
  BY <1>6, <1>7 DEF FiledInv, Relists, WordsInit
<1>9. GoneBy(0) = {}
  BY DEF GoneBy
<1>10. SumsInv
  BY <1>6, <1>9 DEF WordsInit, SumsInv, HeldSum, RecsFinal, Distinct, NoneMissed
<1> QED
  BY <1>5, <1>8, <1>10

(* Every step keeps the types and what is known of the records collected. *)
LEMMA CollectStep ==
    ASSUME CollectInv, [WordsNext]_wordsVars
    PROVE  CollectInv'
<1> DEFINE Basic == /\ lines' = lines /\ at' \in 0..Len(lines)
                    /\ lastWord' \in Vocabulary \cup {None} /\ lastRec' \in HeldOrJunk
                    /\ lastWord' # None => lastRec' \in Record
                    /\ lastWord' = None => lastWord = None
                    /\ wphase' \in {"read", "last", "done"}
                    /\ wphase' # "read" => at' = Len(lines)
           Same == UNCHANGED <<currentWord, out, highWord, postings, relisted>>
<1>0. /\ IsList /\ IsList' = (lines' \in Seq(MarkerLine \cup EntryLine))
      /\ Len(lines) \in Nat /\ at \in Nat
      /\ Reading => at + 1 \in 1..Len(lines) /\ at + 1 \in 0..Len(lines)
  BY LineKinds DEF CollectInv, IsList, Reading
<1>11. Reading /\ ~IsMarker(Next1) =>
          /\ Next1.word \in Vocabulary /\ Next1.rec \in Record /\ Next1.rec \in HeldOrJunk
          /\ Next1.word # None
  BY <1>0, LineKinds, WordsAssumption DEF Next1, EntryLine, HeldOrJunk
<1>1. ASSUME Basic, Same, wphase' = "done" => wphase = "done" PROVE CollectInv'
  BY <1>0, <1>1 DEF CollectInv, IsList
<1>2. ASSUME Basic, Store, wphase = "read", wphase' # "done" PROVE CollectInv'
  <2>1. /\ out' \in Seq(HeldOrJunk)
        /\ postings' \in [Vocabulary \cup {None} -> Seq(HeldOrJunk)]
        /\ relisted' \in Seq([word : Vocabulary \cup {None}, rec : HeldOrJunk])
        /\ currentWord' = lastWord
        /\ highWord' \in Nat
        /\ currentWord' = None => \A w \in Vocabulary : postings'[w] = <<>>
        /\ \A w \in Vocabulary : w > highWord' => postings'[w] = <<>> /\ w # currentWord'
    BY <1>2, StoreAppends
  <2>2. lastWord \in Vocabulary \cup {None}
    BY DEF CollectInv
  <2> QED
    BY <1>0, <1>2, <2>1, <2>2 DEF CollectInv, IsList
<1>3. CASE ReadMarker
  <2>1. Basic /\ Same /\ wphase' = wphase
    BY <1>0, <1>3 DEF ReadMarker, CollectInv
  <2> QED
    BY <1>1, <2>1
<1>4. CASE ReadDiscarded
  <2>1. Basic /\ Same /\ wphase' = wphase
    BY <1>0, <1>4 DEF ReadDiscarded, CollectInv
  <2> QED
    BY <1>1, <2>1
<1>5. CASE ReadFirst
  <2>1. Basic /\ Same /\ wphase' = wphase
    BY <1>0, <1>11, <1>5 DEF ReadFirst, HoldBack, CollectInv, Reading
  <2> QED
    BY <1>1, <2>1
<1>6. CASE ReadSame
  <2>1. lastRec \in Record
    BY <1>6 DEF ReadSame, CollectInv
  <2>2. lastRec' \in Record
    BY <1>11, <1>6, <2>1, MergedIs DEF ReadSame
  <2>3. Basic /\ Same /\ wphase' = wphase
    BY <1>0, <1>6, <2>2 DEF ReadSame, CollectInv, Reading, HeldOrJunk
  <2> QED
    BY <1>1, <2>3
<1>7. CASE ReadOther
  <2>1. Basic /\ Store /\ wphase = "read" /\ wphase' = "read"
    BY <1>0, <1>11, <1>7 DEF ReadOther, HoldBack, CollectInv, Reading
  <2> QED
    BY <1>2, <2>1
<1>8. CASE StoreLast
  <2>1. Basic /\ Store /\ wphase = "read" /\ wphase' = "last"
    BY <1>0, <1>8 DEF StoreLast, CollectInv
  <2> QED
    BY <1>2, <2>1
<1>9. CASE PutLast
  <2>1. /\ postings' = [postings EXCEPT ![currentWord] = out]
        /\ wphase = "last" /\ wphase' = "done"
        /\ UNCHANGED <<lines, at, lastWord, lastRec, currentWord, out, highWord, relisted>>
    BY <1>9 DEF PutLast
  <2>2. /\ postings' \in [Vocabulary \cup {None} -> Seq(HeldOrJunk)]
        /\ postings'[currentWord] = out
        /\ \A w \in Vocabulary : w # currentWord => postings'[w] = postings[w]
    BY <2>1 DEF CollectInv
  <2>3. \A w \in Vocabulary : w # None
    BY WordsAssumption
  <2> QED
    BY <1>0, <2>1, <2>2, <2>3 DEF CollectInv, IsList
<1>10. CASE UNCHANGED wordsVars
  BY <1>10 DEF wordsVars, CollectInv, IsList
<1> QED
  BY <1>3, <1>4, <1>5, <1>6, <1>7, <1>8, <1>9, <1>10 DEF WordsNext

(* Every step keeps the new list and the records together. *)
LEMMA FiledStep ==
    ASSUME CollectInv, FiledInv, [WordsNext]_wordsVars
    PROVE  FiledInv'
<1>1. ASSUME \A w \in Vocabulary : Recs(w)' = Recs(w), relisted' = relisted PROVE FiledInv'
  BY <1>1 DEF FiledInv, Relists, Which
<1>2. CASE ReadOther \/ StoreLast
  BY <1>2, FiledMore DEF ReadOther, StoreLast, Reading
<1>3. CASE PutLast
  <2>1. \A w \in Vocabulary : Recs(w)' = Recs(w)
    BY <1>3 DEF PutLast, Recs, CollectInv
  <2> QED
    BY <1>1, <1>3, <2>1 DEF PutLast
<1>4. CASE ReadMarker \/ ReadDiscarded \/ ReadFirst \/ ReadSame \/ UNCHANGED wordsVars
  <2>1. UNCHANGED <<currentWord, out, postings, relisted>>
    BY <1>4 DEF ReadMarker, ReadDiscarded, ReadFirst, ReadSame, wordsVars
  <2> QED
    BY <1>1, <2>1 DEF Recs
<1> QED
  BY <1>2, <1>3, <1>4 DEF WordsNext

(* What was collected and held back when a line has been read. *)
LEMMA RecsStay ==
    ASSUME CollectInv, RecsFinal, Reading,
           at' = at + 1, lines' = lines, removeBadUrls' = removeBadUrls,
           \A w \in Vocabulary : Recs(w)' = Recs(w),
           \A w \in Vocabulary : \A i \in 1..Len(Recs(w)) : ~Held(w, Recs(w)[i].id)'
    PROVE  RecsFinal'
<1> SUFFICES ASSUME NEW w \in Vocabulary
             PROVE  /\ \A i \in 1..Len(Recs(w)') : Final(w, Recs(w)[i])'
                    /\ Distinct(Recs(w)')
  BY DEF RecsFinal, Distinct
<1>1. Recs(w)' = Recs(w) /\ Distinct(Recs(w))
  BY DEF RecsFinal
<1>2. ASSUME NEW i \in 1..Len(Recs(w)) PROVE Final(w, Recs(w)[i])'
  <2> PICK r : r = Recs(w)[i]
    OBVIOUS
  <2>1. Final(w, r) /\ ~Held(w, r.id)'
    BY DEF RecsFinal
  <2>2. Final(w, r)'
    BY <2>1, FinalStays
  <2> QED
    BY <1>1, <2>2
<1> QED
  BY <1>1, <1>2

(* A line that is not a marker discards no ID. *)
LEMMA GoneByNext ==
    ASSUME CollectInv, Reading, ~IsMarker(Next1), at' = at + 1,
           lines' = lines, removeBadUrls' = removeBadUrls
    PROVE  GoneBy(at)' = GoneBy(at)
<1>1. at \in Nat /\ 1..at' = (1..at) \cup {at + 1}
  BY LineKinds DEF CollectInv
<1>2. GoneBy(at)' = {lines[i].id : i \in {j \in 1..at' :
          IsMarker(lines[j]) /\ (lines[j].mark = "!" \/ (removeBadUrls /\ lines[j].mark = "-"))}}
  BY DEF GoneBy, IsMarker
<1> QED
  BY <1>1, <1>2 DEF GoneBy, Next1

(* A marker is read. *)
LEMMA MarkerStep ==
    ASSUME CollectInv, SumsInv, InOrder(lines), ReadMarker
    PROVE  /\ discards' = GoneBy(at)' /\ HeldSum' /\ RecsFinal' /\ NoneMissed'
<1>1. /\ Reading /\ IsMarker(Next1) /\ at' = at + 1
      /\ UNCHANGED <<lines, removeBadUrls, lastWord, lastRec, currentWord, out, postings, wphase>>
      /\ discards' = IF Next1.mark = "!" \/ (Next1.mark = "-" /\ removeBadUrls)
                     THEN discards \cup {Next1.id} ELSE discards
  BY DEF ReadMarker
<1>2. discards = GoneBy(at) /\ HeldSum /\ RecsFinal /\ NoneMissed
  BY DEF SumsInv
<1>3. at \in Nat /\ Len(lines) \in Nat /\ at + 1 \in 1..Len(lines) /\ IsList
  BY <1>1, LineKinds DEF CollectInv, Reading
<1>4. discards' = GoneBy(at)'
  <2>1. 1..at' = (1..at) \cup {at + 1}
    BY <1>1, <1>3
  <2>2. GoneBy(at)' = {lines[i].id : i \in {j \in 1..at' :
            IsMarker(lines[j]) /\ (lines[j].mark = "!" \/ (removeBadUrls /\ lines[j].mark = "-"))}}
    BY <1>1 DEF GoneBy, IsMarker
  <2> QED
    BY <1>1, <1>2, <2>1, <2>2 DEF GoneBy, Next1
<1>5. \A w, id : ~IsAbout(lines[at + 1], w, id)
  BY <1>1 DEF IsAbout, Next1
<1>6. Gone' = Gone
  BY <1>1 DEF Gone, IsMarker
<1>7. HeldSum'
  <2> SUFFICES ASSUME wphase' = "read", lastWord' # None
               PROVE  Is(lastRec, lastWord, lastRec.id, at)' /\ (lastRec.id \notin Gone)'
    BY DEF HeldSum
  <2>1. Is(lastRec, lastWord, lastRec.id, at) /\ lastRec.id \notin Gone
    BY <1>1, <1>2 DEF HeldSum
  <2> PICK n \in Nat : n = at + 1
    BY <1>3
  <2>2. Is(lastRec, lastWord, lastRec.id, n)
    BY <1>3, <1>5, <2>1, StaysIs
  <2>3. Is(lastRec, lastWord, lastRec.id, n)'
    BY <1>1, <2>2, SameIs
  <2> QED
    BY <1>1, <1>6, <2>1, <2>3
<1>8. \A w : Recs(w)' = Recs(w)
  BY <1>1 DEF Recs
<1>9. \A w, id : Held(w, id)' <=> Held(w, id)
  BY <1>1 DEF Held
<1>10. RecsFinal'
  <2>1. \A w \in Vocabulary : \A i \in 1..Len(Recs(w)) : ~Held(w, Recs(w)[i].id)'
    BY <1>2, <1>8, <1>9 DEF RecsFinal, Final
  <2> QED
    BY <1>1, <1>2, <1>8, <2>1, RecsStay
<1>11. NoneMissed'
  <2> SUFFICES ASSUME NEW j \in 1..at', ~IsMarker(lines[j]), lines[j].rec.id \notin Gone
               PROVE  \/ Held(lines[j].word, lines[j].rec.id)'
                      \/ Collected(lines[j].word, lines[j].rec.id)'
    BY <1>1, <1>6 DEF NoneMissed, IsMarker
  <2>1. j \in 1..at
    BY <1>1, <1>3 DEF Next1
  <2>2. Held(lines[j].word, lines[j].rec.id) \/ Collected(lines[j].word, lines[j].rec.id)
    BY <1>2, <2>1 DEF NoneMissed
  <2>3. \A w, id : Collected(w, id)' <=> Collected(w, id)
    BY <1>8 DEF Collected
  <2> QED
    BY <1>1, <1>9, <2>2, <2>3
<1> QED
  BY <1>4, <1>7, <1>10, <1>11

(* A line about a document that is discarded. *)
LEMMA DiscardedStep ==
    ASSUME CollectInv, SumsInv, InOrder(lines), ReadDiscarded
    PROVE  /\ discards' = GoneBy(at)' /\ HeldSum' /\ RecsFinal' /\ NoneMissed'
<1>1. /\ Reading /\ ~IsMarker(Next1) /\ Discards(Next1) /\ at' = at + 1
      /\ UNCHANGED <<lines, removeBadUrls, discards, lastWord, lastRec, currentWord, out,
                     postings, wphase>>
  BY DEF ReadDiscarded
<1>2. discards = GoneBy(at) /\ HeldSum /\ RecsFinal /\ NoneMissed
  BY DEF SumsInv
<1>3. at \in Nat /\ Len(lines) \in Nat /\ at + 1 \in 1..Len(lines) /\ IsList
  BY <1>1, LineKinds DEF CollectInv, Reading
<1>4. discards' = GoneBy(at)'
  BY <1>1, <1>2, <1>3, GoneByNext
<1>5. Next1.rec.id \in Gone
  BY <1>1, <1>2, GoneKnown DEF Discards
<1>6. Gone' = Gone
  BY <1>1 DEF Gone, IsMarker
<1>7. HeldSum'
  <2> SUFFICES ASSUME wphase' = "read", lastWord' # None
               PROVE  Is(lastRec, lastWord, lastRec.id, at)' /\ (lastRec.id \notin Gone)'
    BY DEF HeldSum
  <2>1. Is(lastRec, lastWord, lastRec.id, at) /\ lastRec.id \notin Gone
    BY <1>1, <1>2 DEF HeldSum
  <2> PICK n \in Nat : n = at + 1
    BY <1>3
  <2>2. ~IsAbout(lines[n], lastWord, lastRec.id)
    BY <1>5, <2>1 DEF IsAbout, Next1
  <2>3. Is(lastRec, lastWord, lastRec.id, n)
    BY <1>3, <2>1, <2>2, StaysIs
  <2>4. Is(lastRec, lastWord, lastRec.id, n)'
    BY <1>1, <2>3, SameIs
  <2> QED
    BY <1>1, <1>6, <2>1, <2>4
<1>8. \A w : Recs(w)' = Recs(w)
  BY <1>1 DEF Recs
<1>9. \A w, id : Held(w, id)' <=> Held(w, id)
  BY <1>1 DEF Held
<1>10. RecsFinal'
  <2>1. \A w \in Vocabulary : \A i \in 1..Len(Recs(w)) : ~Held(w, Recs(w)[i].id)'
    BY <1>2, <1>8, <1>9 DEF RecsFinal, Final
  <2> QED
    BY <1>1, <1>2, <1>8, <2>1, RecsStay
<1>11. NoneMissed'
  <2> SUFFICES ASSUME NEW j \in 1..at', ~IsMarker(lines[j]), lines[j].rec.id \notin Gone
               PROVE  \/ Held(lines[j].word, lines[j].rec.id)'
                      \/ Collected(lines[j].word, lines[j].rec.id)'
    BY <1>1, <1>6 DEF NoneMissed, IsMarker
  <2>1. j \in 1..at
    BY <1>1, <1>3, <1>5 DEF Next1
  <2>2. Held(lines[j].word, lines[j].rec.id) \/ Collected(lines[j].word, lines[j].rec.id)
    BY <1>2, <2>1 DEF NoneMissed
  <2>3. \A w, id : Collected(w, id)' <=> Collected(w, id)
    BY <1>8 DEF Collected
  <2> QED
    BY <1>1, <1>9, <2>2, <2>3
<1> QED
  BY <1>4, <1>7, <1>10, <1>11

(* The first line to be held back. *)
LEMMA FirstStep ==
    ASSUME CollectInv, SumsInv, InOrder(lines), ReadFirst
    PROVE  /\ discards' = GoneBy(at)' /\ HeldSum' /\ RecsFinal' /\ NoneMissed'
<1>1. /\ Reading /\ ~IsMarker(Next1) /\ ~Discards(Next1) /\ at' = at + 1
      /\ lastWord = None /\ lastWord' = Next1.word /\ lastRec' = Next1.rec
      /\ UNCHANGED <<lines, removeBadUrls, discards, currentWord, out, postings, wphase>>
  BY DEF ReadFirst, HoldBack
<1>2. discards = GoneBy(at) /\ HeldSum /\ RecsFinal /\ NoneMissed
  BY DEF SumsInv
<1>3. at \in Nat /\ Len(lines) \in Nat /\ at + 1 \in 1..Len(lines) /\ IsList
  BY <1>1, LineKinds DEF CollectInv, Reading
<1>4. discards' = GoneBy(at)'
  BY <1>1, <1>2, <1>3, GoneByNext
<1>5. Next1.rec.id \notin Gone
  BY <1>1, <1>2, GoneKnown DEF Discards
<1>6. Gone' = Gone
  BY <1>1 DEF Gone, IsMarker
<1>7. \A w, id : ~Held(w, id)
  BY <1>1 DEF Held
<1>8. HeldSum'
  <2>1. About(Next1.word, Next1.rec.id, at) = {}
    BY <1>1, <1>2, <1>5, <1>7, NotYet
  <2>2. IsAbout(lines[at + 1], Next1.word, Next1.rec.id)
    BY <1>1 DEF IsAbout, Next1
  <2>3. Is(lines[at + 1].rec, Next1.word, Next1.rec.id, at + 1)
    BY <1>3, <2>1, <2>2, FirstIs
  <2> PICK n \in Nat : n = at + 1
    BY <1>3
  <2>4. Is(lastRec', lastWord', lastRec'.id, n)
    BY <1>1, <2>3 DEF Next1
  <2> PICK r, w : r = lastRec' /\ w = lastWord'
    OBVIOUS
  <2>5. Is(r, w, r.id, n)'
    BY <1>1, <2>4, SameIs
  <2>6. Is(lastRec, lastWord, lastRec.id, at)'
    BY <1>1, <2>5
  <2> QED
    BY <1>1, <1>5, <1>6, <2>6 DEF HeldSum
<1>9. \A w : Recs(w)' = Recs(w)
  BY <1>1 DEF Recs
<1>10. RecsFinal'
  <2> SUFFICES ASSUME NEW w \in Vocabulary, NEW i \in 1..Len(Recs(w))
               PROVE  ~Held(w, Recs(w)[i].id)'
    BY <1>1, <1>2, <1>9, RecsStay
  <2>1. ~IsAbout(lines[at + 1], w, Recs(w)[i].id)
    BY <1>2, <1>3 DEF RecsFinal, Final
  <2> QED
    BY <1>1, <1>9, <2>1 DEF Held, IsAbout, Next1
<1>11. NoneMissed'
  <2> SUFFICES ASSUME NEW j \in 1..at', ~IsMarker(lines[j]), lines[j].rec.id \notin Gone
               PROVE  \/ Held(lines[j].word, lines[j].rec.id)'
                      \/ Collected(lines[j].word, lines[j].rec.id)'
    BY <1>1, <1>6 DEF NoneMissed, IsMarker
  <2>1. CASE j \in 1..at
    <3>1. Collected(lines[j].word, lines[j].rec.id)
      BY <1>2, <1>7, <2>1 DEF NoneMissed
    <3> QED
      BY <1>1, <1>9, <3>1 DEF Collected
  <2>2. CASE j = at + 1
    <3>1. lastWord' = lines[j].word /\ lastRec'.id = lines[j].rec.id /\ wphase' = "read"
      BY <1>1, <2>2 DEF Next1, Reading
    <3>2. lastWord' # None
      BY <1>1, <1>3, LineKinds, WordsAssumption DEF Next1, EntryLine
    <3> QED
      BY <1>1, <3>1, <3>2 DEF Held
  <2> QED
    BY <1>1, <1>3, <2>1, <2>2
<1> QED
  BY <1>4, <1>8, <1>10, <1>11

(* A line about the same as the one held back. *)
LEMMA SameStep ==
    ASSUME CollectInv, SumsInv, InOrder(lines), ReadSame
    PROVE  /\ discards' = GoneBy(at)' /\ HeldSum' /\ RecsFinal' /\ NoneMissed'
<1>1. /\ Reading /\ ~IsMarker(Next1) /\ ~Discards(Next1) /\ at' = at + 1
      /\ lastWord # None /\ lastRec.id = Next1.rec.id /\ lastWord = Next1.word
      /\ lastRec' = Merged(lastRec, Next1.rec)
      /\ UNCHANGED <<lines, removeBadUrls, discards, lastWord, currentWord, out, postings, wphase>>
  BY DEF ReadSame
<1>2. discards = GoneBy(at) /\ HeldSum /\ RecsFinal /\ NoneMissed
  BY DEF SumsInv
<1>3. at \in Nat /\ Len(lines) \in Nat /\ at + 1 \in 1..Len(lines) /\ IsList
  BY <1>1, LineKinds DEF CollectInv, Reading
<1>4. discards' = GoneBy(at)'
  BY <1>1, <1>2, <1>3, GoneByNext
<1>5. Is(lastRec, lastWord, lastRec.id, at) /\ lastRec.id \notin Gone
  BY <1>1, <1>2 DEF HeldSum, Reading
<1>6. Gone' = Gone
  BY <1>1 DEF Gone, IsMarker
<1>7. lastRec'.id = lastRec.id
  BY <1>1, <1>3, LineKinds, MergedIs DEF CollectInv, Next1, EntryLine
<1>8. HeldSum'
  <2>1. IsAbout(lines[at + 1], lastWord, lastRec.id)
    BY <1>1 DEF IsAbout, Next1
  <2>2. Is(Merged(lastRec, lines[at + 1].rec), lastWord, lastRec.id, at + 1)
    BY <1>3, <1>5, <2>1, MoreIs
  <2> PICK n \in Nat : n = at + 1
    BY <1>3
  <2> PICK r, w : r = lastRec' /\ w = lastWord
    OBVIOUS
  <2>3. Is(r, w, r.id, n)
    BY <1>1, <1>7, <2>2 DEF Next1
  <2>4. Is(r, w, r.id, n)'
    BY <1>1, <2>3, SameIs
  <2>5. Is(lastRec, lastWord, lastRec.id, at)'
    BY <1>1, <2>4
  <2> QED
    BY <1>5, <1>6, <1>7, <2>5 DEF HeldSum
<1>9. \A w : Recs(w)' = Recs(w)
  BY <1>1 DEF Recs
<1>10. \A w, id : Held(w, id)' <=> Held(w, id)
  BY <1>1, <1>7 DEF Held
<1>11. RecsFinal'
  <2>1. \A w \in Vocabulary : \A i \in 1..Len(Recs(w)) : ~Held(w, Recs(w)[i].id)'
    BY <1>2, <1>9, <1>10 DEF RecsFinal, Final
  <2> QED
    BY <1>1, <1>2, <1>9, <2>1, RecsStay
<1>12. NoneMissed'
  <2> SUFFICES ASSUME NEW j \in 1..at', ~IsMarker(lines[j]), lines[j].rec.id \notin Gone
               PROVE  \/ Held(lines[j].word, lines[j].rec.id)'
                      \/ Collected(lines[j].word, lines[j].rec.id)'
    BY <1>1, <1>6 DEF NoneMissed, IsMarker
  <2>1. CASE j \in 1..at
    <3>1. Held(lines[j].word, lines[j].rec.id) \/ Collected(lines[j].word, lines[j].rec.id)
      BY <1>2, <2>1 DEF NoneMissed
    <3>2. \A w, id : Collected(w, id)' <=> Collected(w, id)
      BY <1>9 DEF Collected
    <3> QED
      BY <1>1, <1>10, <3>1, <3>2
  <2>2. CASE j = at + 1
    <3>1. Held(lines[j].word, lines[j].rec.id)
      BY <1>1, <2>2 DEF Held, Next1, Reading
    <3> QED
      BY <1>1, <1>10, <3>1
  <2> QED
    BY <1>1, <1>3, <2>1, <2>2
<1> QED
  BY <1>4, <1>8, <1>11, <1>12

(* The records of the words when the line held back has been written.      *)
LEMMA WrittenAre ==
    ASSUME CollectInv, wphase = "read", Store, NEW w \in Vocabulary
    PROVE  /\ w # lastWord => Recs(w)' = Recs(w)
           /\ w = lastWord =>
                 /\ Len(Recs(w)) \in Nat /\ Len(Recs(w)') = Len(Recs(w)) + 1
                 /\ \A i \in 1..Len(Recs(w)) : Recs(w)'[i] = Recs(w)[i]
                 /\ Recs(w)'[Len(Recs(w)) + 1] = lastRec
           /\ \A id : Collected(w, id) => Collected(w, id)'
           /\ \A id : w = lastWord /\ id = lastRec.id => Collected(w, id)'
<1>1. Recs(w)' = IF w = lastWord THEN Append(Recs(w), lastRec) ELSE Recs(w)
  BY StoreAppends
<1>2. Recs(w) \in Seq(HeldOrJunk) /\ lastRec \in HeldOrJunk
  BY DEF Recs, CollectInv
<1>3. w = lastWord =>
         /\ Len(Recs(w)) \in Nat /\ Len(Recs(w)') = Len(Recs(w)) + 1
         /\ \A i \in 1..Len(Recs(w)) : Recs(w)'[i] = Recs(w)[i]
         /\ Recs(w)'[Len(Recs(w)) + 1] = lastRec
  BY <1>1, <1>2, AppendProperties, LenProperties
<1>4. w # lastWord => Recs(w)' = Recs(w)
  BY <1>1
<1>5. ASSUME w = lastWord, NEW id, id = lastRec.id PROVE Collected(w, id)'
  <2> PICK k \in Nat : k = Len(Recs(w)) + 1
    BY <1>3, <1>5
  <2>1. k \in 1..Len(Recs(w)') /\ Recs(w)'[k].id = id
    BY <1>3, <1>5
  <2> QED
    BY <2>1 DEF Collected
<1>6. ASSUME NEW id, Collected(w, id) PROVE Collected(w, id)'
  <2>1. PICK i \in 1..Len(Recs(w)) : Recs(w)[i].id = id
    BY <1>6 DEF Collected
  <2>2. i \in 1..Len(Recs(w)') /\ Recs(w)'[i].id = id
    BY <1>3, <1>4, <2>1
  <2> QED
    BY <2>2 DEF Collected
<1> QED
  BY <1>3, <1>4, <1>5, <1>6

(* A record that is written joins final ones as one more. *)
LEMMA FinalMore ==
    ASSUME CollectInv, RecsFinal, wphase = "read", Store, NEW w \in Vocabulary,
           \A i \in 1..Len(Recs(w)) : \A r : r = Recs(w)[i] => Final(w, r)',
           w = lastWord => lastRec.id \in Nat /\ \A r : r = lastRec => Final(w, r)',
           lastWord # None
    PROVE  /\ \A i \in 1..Len(Recs(w)') : Final(w, Recs(w)[i])'
           /\ Distinct(Recs(w)')
<1>1. /\ w # lastWord => Recs(w)' = Recs(w)
      /\ w = lastWord =>
            /\ Len(Recs(w)) \in Nat /\ Len(Recs(w)') = Len(Recs(w)) + 1
            /\ \A i \in 1..Len(Recs(w)) : Recs(w)'[i] = Recs(w)[i]
            /\ Recs(w)'[Len(Recs(w)) + 1] = lastRec
  BY WrittenAre
<1>2. \A i \in 1..Len(Recs(w)') :
         (i \in 1..Len(Recs(w)) /\ Recs(w)'[i] = Recs(w)[i])
         \/ (w = lastWord /\ i = Len(Recs(w)) + 1 /\ Recs(w)'[i] = lastRec)
  BY <1>1
<1>3. ASSUME NEW i \in 1..Len(Recs(w)') PROVE Final(w, Recs(w)[i])'
  <2> PICK r : r = Recs(w)'[i]
    OBVIOUS
  <2>1. Final(w, r)'
    BY <1>2
  <2> QED
    BY <2>1
<1>4. Distinct(Recs(w)) /\ w = lastWord => \A i \in 1..Len(Recs(w)) : Recs(w)[i].id # lastRec.id
  <2>1. \A i \in 1..Len(Recs(w)) : ~Held(w, Recs(w)[i].id)
    BY DEF RecsFinal, Final
  <2> QED
    BY <2>1 DEF Held
<1>5. Distinct(Recs(w))
  BY DEF RecsFinal
<1>6. Distinct(Recs(w)')
  <2> SUFFICES ASSUME NEW i \in 1..Len(Recs(w)'), NEW j \in 1..Len(Recs(w)'),
                      Recs(w)'[i].id = Recs(w)'[j].id
               PROVE  i = j
    BY DEF Distinct
  <2> QED
    BY <1>2, <1>4, <1>5 DEF Distinct
<1> QED
  BY <1>3, <1>6

(* A line about something else: the one held back is written. *)
LEMMA OtherStep ==
    ASSUME CollectInv, SumsInv, InOrder(lines), ReadOther
    PROVE  /\ discards' = GoneBy(at)' /\ HeldSum' /\ RecsFinal' /\ NoneMissed'
<1>1. /\ Reading /\ ~IsMarker(Next1) /\ ~Discards(Next1) /\ at' = at + 1 /\ Store
      /\ lastWord # None /\ ~(lastRec.id = Next1.rec.id /\ lastWord = Next1.word)
      /\ lastWord' = Next1.word /\ lastRec' = Next1.rec
      /\ UNCHANGED <<lines, removeBadUrls, discards, wphase>> /\ wphase = "read"
  BY DEF ReadOther, HoldBack, Reading
<1>2. discards = GoneBy(at) /\ HeldSum /\ RecsFinal /\ NoneMissed
  BY DEF SumsInv
<1>3. at \in Nat /\ Len(lines) \in Nat /\ at + 1 \in 1..Len(lines) /\ IsList
  BY <1>1, LineKinds DEF CollectInv, Reading
<1>4. discards' = GoneBy(at)'
  BY <1>1, <1>2, <1>3, GoneByNext
<1>5. Next1.rec.id \notin Gone
  BY <1>1, <1>2, GoneKnown DEF Discards
<1>6. Gone' = Gone
  BY <1>1 DEF Gone, IsMarker
<1>7. ~Held(Next1.word, Next1.rec.id)
  BY <1>1 DEF Held
<1>8. HeldSum'
  <2>1. About(Next1.word, Next1.rec.id, at) = {}
    BY <1>1, <1>2, <1>5, <1>7, NotYet
  <2>2. IsAbout(lines[at + 1], Next1.word, Next1.rec.id)
    BY <1>1 DEF IsAbout, Next1
  <2>3. Is(lines[at + 1].rec, Next1.word, Next1.rec.id, at + 1)
    BY <1>3, <2>1, <2>2, FirstIs
  <2> PICK n \in Nat : n = at + 1
    BY <1>3
  <2>4. Is(lastRec', lastWord', lastRec'.id, n)
    BY <1>1, <2>3 DEF Next1
  <2> PICK r, w : r = lastRec' /\ w = lastWord'
    OBVIOUS
  <2>5. Is(r, w, r.id, n)'
    BY <1>1, <2>4, SameIs
  <2>6. Is(lastRec, lastWord, lastRec.id, at)'
    BY <1>1, <2>5
  <2> QED
    BY <1>1, <1>5, <1>6, <2>6 DEF HeldSum
<1>9. ASSUME NEW w \in Vocabulary, NEW i \in 1..Len(Recs(w)), NEW r, r = Recs(w)[i]
      PROVE  Final(w, r)'
  <2>1. Final(w, r)
    BY <1>2, <1>9 DEF RecsFinal
  <2>2. ~IsAbout(lines[at + 1], w, r.id)
    BY <1>3, <2>1 DEF Final
  <2>3. ~Held(w, r.id)'
    BY <1>1, <2>2 DEF Held, IsAbout, Next1
  <2> QED
    BY <1>1, <2>1, <2>3, FinalStays
<1>10. ASSUME NEW r, r = lastRec, NEW w, w = lastWord PROVE Final(w, r)' /\ r.id \in Nat
  <2>1. Is(r, w, r.id, at) /\ r.id \notin Gone /\ r.id \in Nat
    BY <1>1, <1>2, <1>10 DEF HeldSum, Is, Record
  <2>2. ~IsAbout(lines[at + 1], w, r.id)
    BY <1>1, <1>10 DEF IsAbout, Next1
  <2>3. ~Held(w, r.id)'
    BY <1>1, <1>10 DEF Held
  <2>4. PICK i \in About(w, r.id, at) : TRUE
    BY <2>1 DEF Is
  <2>5. i \in 1..at /\ i \in 1..Len(lines) /\ IsAbout(lines[i], w, r.id)
    BY <1>3 DEF About
  <2>6. ASSUME NEW j \in (at + 2)..Len(lines), IsAbout(lines[j], w, r.id) PROVE FALSE
    <3>1. j \in 1..Len(lines) /\ i < at + 1 /\ at + 1 < j /\ at + 1 \in 1..Len(lines)
      BY <1>3, <2>5
    <3>2. /\ ~IsMarker(lines[i]) /\ lines[i].word = lines[j].word
          /\ lines[i].rec.id = lines[j].rec.id
      BY <2>5, <2>6 DEF IsAbout
    <3>3. lines[at + 1].word = lines[i].word /\ lines[at + 1].rec.id = lines[i].rec.id
      BY <2>5, <3>1, <3>2 DEF InOrder
    <3> QED
      BY <1>1, <2>2, <2>5, <3>3 DEF IsAbout, Next1
  <2> PICK n \in Nat : n = at + 1
    BY <1>3
  <2>7. Is(r, w, r.id, n)
    BY <1>3, <2>1, <2>2, StaysIs
  <2>8. Is(r, w, r.id, n)'
    BY <1>1, <2>7, SameIs
  <2>9. Is(r, w, r.id, at)'
    BY <1>1, <2>8
  <2>10. \A j \in (at' + 1)..Len(lines') : ~IsAbout(lines'[j], w, r.id)
    <3>1. (at' + 1)..Len(lines') = (at + 2)..Len(lines)
      BY <1>1, <1>3
    <3> QED
      BY <1>1, <2>6, <3>1
  <2> QED
    BY <1>6, <2>1, <2>3, <2>9, <2>10 DEF Final
<1>11. RecsFinal'
  <2> SUFFICES ASSUME NEW w \in Vocabulary
               PROVE  /\ \A i \in 1..Len(Recs(w)') : Final(w, Recs(w)[i])'
                      /\ Distinct(Recs(w)')
    BY DEF RecsFinal, Distinct
  <2>1. \A i \in 1..Len(Recs(w)) : \A r : r = Recs(w)[i] => Final(w, r)'
    BY <1>9
  <2>2. w = lastWord => lastRec.id \in Nat /\ \A r : r = lastRec => Final(w, r)'
    BY <1>10
  <2> QED
    BY <1>1, <1>2, <2>1, <2>2, FinalMore
<1>12. NoneMissed'
  <2> SUFFICES ASSUME NEW j \in 1..at', ~IsMarker(lines[j]), lines[j].rec.id \notin Gone
               PROVE  \/ Held(lines[j].word, lines[j].rec.id)'
                      \/ Collected(lines[j].word, lines[j].rec.id)'
    BY <1>1, <1>6 DEF NoneMissed, IsMarker
  <2> PICK w, id : w = lines[j].word /\ id = lines[j].rec.id
    OBVIOUS
  <2>1. w \in Vocabulary
    BY <1>1, <1>3, LineKinds DEF EntryLine
  <2>2. CASE j \in 1..at
    <3>1. Held(w, id) \/ Collected(w, id)
      BY <1>2, <2>2 DEF NoneMissed
    <3>2. Collected(w, id) => Collected(w, id)'
      BY <1>1, <2>1, WrittenAre
    <3>3. Held(w, id) => Collected(w, id)'
      BY <1>1, <2>1, WrittenAre DEF Held
    <3>4. Collected(w, id)'
      BY <3>1, <3>2, <3>3
    <3> QED
      BY <1>1, <3>4
  <2>3. CASE j = at + 1
    <3>1. lastWord' = lines[j].word /\ lastRec'.id = lines[j].rec.id /\ wphase' = "read"
      BY <1>1, <2>3 DEF Next1, Reading
    <3>2. lastWord' # None
      BY <1>1, <1>3, LineKinds, WordsAssumption DEF Next1, EntryLine
    <3> QED
      BY <1>1, <3>1, <3>2 DEF Held
  <2> QED
    BY <1>1, <1>3, <2>2, <2>3
<1> QED
  BY <1>4, <1>8, <1>11, <1>12

(* The line that is still held back at the end of the list is written. *)
LEMMA LastStep ==
    ASSUME CollectInv, SumsInv, InOrder(lines), StoreLast
    PROVE  /\ discards' = GoneBy(at)' /\ HeldSum' /\ RecsFinal' /\ NoneMissed'
<1>1. /\ wphase = "read" /\ wphase' = "last" /\ at = Len(lines) /\ Store
      /\ UNCHANGED <<lines, at, removeBadUrls, discards, lastWord, lastRec>>
  BY DEF StoreLast
<1>2. discards = GoneBy(at) /\ HeldSum /\ RecsFinal /\ NoneMissed
  BY DEF SumsInv
<1>3. at \in Nat /\ Len(lines) \in Nat /\ IsList
  BY LineKinds DEF CollectInv
<1>4. discards' = GoneBy(at)'
  BY <1>1, <1>2 DEF GoneBy, IsMarker
<1>5. HeldSum'
  BY <1>1 DEF HeldSum
<1>6. Gone' = Gone
  BY <1>1 DEF Gone, IsMarker
<1>7. ASSUME NEW r, NEW w, Is(r, w, r.id, at), r.id \notin Gone PROVE Final(w, r)'
  <2> PICK n : n = at
    OBVIOUS
  <2>1. Is(r, w, r.id, n)'
    BY <1>1, <1>7, SameIs
  <2>2. Is(r, w, r.id, at)'
    BY <1>1, <2>1
  <2>3. (at' + 1)..Len(lines') = {}
    BY <1>1, <1>3
  <2>4. ~Held(w, r.id)'
    BY <1>1 DEF Held
  <2> QED
    BY <1>6, <1>7, <2>2, <2>3, <2>4 DEF Final
<1>8. RecsFinal'
  <2> SUFFICES ASSUME NEW w \in Vocabulary
               PROVE  /\ \A i \in 1..Len(Recs(w)') : Final(w, Recs(w)[i])'
                      /\ Distinct(Recs(w)')
    BY DEF RecsFinal, Distinct
  <2>1. ASSUME NEW i \in 1..Len(Recs(w)), NEW r, r = Recs(w)[i] PROVE Final(w, r)'
    <3>1. Final(w, r)
      BY <1>2, <2>1 DEF RecsFinal
    <3> QED
      BY <1>7, <3>1 DEF Final
  <2>2. CASE lastWord # None
    <3>1. ASSUME w = lastWord PROVE lastRec.id \in Nat /\ \A r : r = lastRec => Final(w, r)'
      <4>1. Is(lastRec, w, lastRec.id, at) /\ lastRec.id \notin Gone
        BY <1>1, <1>2, <2>2, <3>1 DEF HeldSum
      <4>2. lastRec.id \in Nat
        BY <4>1 DEF Is, Record
      <4> QED
        BY <1>7, <4>1, <4>2
    <3> QED
      BY <1>1, <1>2, <2>1, <2>2, <3>1, FinalMore
  <2>3. CASE lastWord = None
    <3>1. w # lastWord
      BY <2>3, WordsAssumption
    <3>2. Recs(w)' = Recs(w)
      BY <1>1, <3>1, WrittenAre
    <3>3. Distinct(Recs(w))
      BY <1>2 DEF RecsFinal
    <3>4. ASSUME NEW i \in 1..Len(Recs(w)') PROVE Final(w, Recs(w)[i])'
      <4> PICK r : r = Recs(w)[i]
        OBVIOUS
      <4>1. Final(w, r)'
        BY <2>1, <3>2
      <4> QED
        BY <3>2, <4>1
    <3> QED
      BY <3>2, <3>3, <3>4
  <2> QED
    BY <2>2, <2>3
<1>9. NoneMissed'
  <2> SUFFICES ASSUME NEW j \in 1..at, ~IsMarker(lines[j]), lines[j].rec.id \notin Gone
               PROVE  Collected(lines[j].word, lines[j].rec.id)'
    BY <1>1, <1>6 DEF NoneMissed, IsMarker
  <2> PICK w, id : w = lines[j].word /\ id = lines[j].rec.id
    OBVIOUS
  <2>1. w \in Vocabulary
    BY <1>1, <1>3, LineKinds DEF EntryLine
  <2>2. Held(w, id) \/ Collected(w, id)
    BY <1>2 DEF NoneMissed
  <2>3. Collected(w, id)'
    BY <1>1, <2>1, <2>2, WrittenAre DEF Held
  <2> QED
    BY <1>1, <2>3
<1> QED
  BY <1>4, <1>5, <1>8, <1>9

(* Every step of mergeWords keeps the sums. *)
LEMMA SumsStep ==
    ASSUME CollectInv, SumsInv, [WordsNext]_wordsVars
    PROVE  SumsInv'
<1>1. lines' = lines
  BY DEF WordsNext, ReadMarker, ReadDiscarded, ReadFirst, ReadSame, ReadOther, StoreLast,
         PutLast, wordsVars
<1>2. SUFFICES ASSUME InOrder(lines)
               PROVE  discards' = GoneBy(at)' /\ HeldSum' /\ RecsFinal' /\ NoneMissed'
  BY <1>1 DEF SumsInv
<1>3. CASE PutLast \/ UNCHANGED wordsVars
  <2>1. /\ UNCHANGED <<lines, at, removeBadUrls, discards, lastWord, lastRec>>
        /\ wphase' = "read" <=> wphase = "read"
    BY <1>3 DEF PutLast, wordsVars
  <2>2. \A w \in Vocabulary : Recs(w)' = Recs(w)
    BY <1>3 DEF PutLast, wordsVars, Recs, CollectInv
  <2>3. Gone' = Gone /\ GoneBy(at)' = GoneBy(at)
    BY <2>1 DEF Gone, GoneBy, IsMarker
  <2>4. \A w, id : (Held(w, id)' <=> Held(w, id))
    BY <2>1 DEF Held
  <2>5. ASSUME NEW r, NEW w, NEW id, Is(r, w, id, at) PROVE Is(r, w, id, at)'
    <3> PICK n : n = at
      OBVIOUS
    <3>1. Is(r, w, id, n)'
      BY <1>1, <2>5, SameIs
    <3> QED
      BY <2>1, <3>1
  <2>6. ASSUME HeldSum PROVE HeldSum'
    <3> PICK r, w : r = lastRec /\ w = lastWord
      OBVIOUS
    <3>1. Is(r, w, r.id, at) => Is(r, w, r.id, at)'
      BY <2>5
    <3> QED
      BY <2>1, <2>3, <2>6, <3>1 DEF HeldSum
  <2>7. ASSUME NEW w, NEW r, Final(w, r) PROVE Final(w, r)'
    BY <2>1, <2>3, <2>4, <2>5, <2>7 DEF Final, IsAbout, IsMarker
  <2>8. ASSUME RecsFinal PROVE RecsFinal'
    <3> SUFFICES ASSUME NEW w \in Vocabulary
                 PROVE  /\ \A i \in 1..Len(Recs(w)') : Final(w, Recs(w)[i])'
                        /\ Distinct(Recs(w)')
      BY DEF RecsFinal, Distinct
    <3>1. ASSUME NEW i \in 1..Len(Recs(w)') PROVE Final(w, Recs(w)[i])'
      <4> PICK r : r = Recs(w)[i]
        OBVIOUS
      <4>1. Final(w, r)'
        BY <2>2, <2>7, <2>8 DEF RecsFinal
      <4> QED
        BY <2>2, <4>1
    <3> QED
      BY <2>2, <2>8, <3>1 DEF RecsFinal
  <2>9. ASSUME NoneMissed PROVE NoneMissed'
    <3>1. \A w \in Vocabulary : \A id : Collected(w, id) => Collected(w, id)'
      BY <2>2 DEF Collected
    <3> SUFFICES ASSUME NEW j \in 1..at, ~IsMarker(lines[j]), lines[j].rec.id \notin Gone
                 PROVE  \/ Held(lines[j].word, lines[j].rec.id)'
                        \/ Collected(lines[j].word, lines[j].rec.id)'
      BY <2>1, <2>3 DEF NoneMissed, IsMarker
    <3>2. Held(lines[j].word, lines[j].rec.id) \/ Collected(lines[j].word, lines[j].rec.id)
      BY <2>9 DEF NoneMissed
    <3>3. lines[j].word \in Vocabulary
      BY LineKinds DEF CollectInv, EntryLine
    <3> PICK w, id : w = lines[j].word /\ id = lines[j].rec.id
      OBVIOUS
    <3>4. Held(w, id)' \/ Collected(w, id)'
      BY <2>4, <3>1, <3>2, <3>3
    <3> QED
      BY <2>1, <3>4
  <2> QED
    BY <1>2, <2>1, <2>3, <2>6, <2>8, <2>9 DEF SumsInv
<1> QED
  BY <1>2, <1>3, MarkerStep, DiscardedStep, FirstStep, SameStep, OtherStep, LastStep DEF WordsNext

(* At the end the records of every word are the sums of its lines. *)
LEMMA MergedThen ==
    ASSUME CollectInv, FiledInv, SumsInv
    PROVE  WordsMerged
<1> SUFFICES ASSUME wphase = "done" PROVE ListIsDatabase /\ (InOrder(lines) => OneRecordEach)
  BY DEF WordsMerged
<1>1. \A w \in Vocabulary : Recs(w) = postings[w]
  BY DEF CollectInv, Recs
<1>2. at = Len(lines) /\ Len(lines) \in 0..Len(lines) /\ IsList
  BY LineKinds DEF CollectInv
<1>3. ListIsDatabase
  BY <1>1 DEF FiledInv, ListIsDatabase
<1>4. ASSUME InOrder(lines), NEW w \in Vocabulary
      PROVE  /\ {postings[w][i].id : i \in 1..Len(postings[w])} =
                    {lines[i].rec.id : i \in {j \in 1..Len(lines) :
                         ~IsMarker(lines[j]) /\ lines[j].word = w}} \ Gone
             /\ \A i, j \in 1..Len(postings[w]) :
                    postings[w][i].id = postings[w][j].id => i = j
             /\ \A i \in 1..Len(postings[w]) :
                    postings[w][i] = Sum(w, postings[w][i].id, Len(lines))
  <2>1. RecsFinal /\ NoneMissed
    BY <1>4 DEF SumsInv
  <2>2. /\ Distinct(postings[w])
        /\ \A i \in 1..Len(postings[w]) :
              /\ Is(postings[w][i], w, postings[w][i].id, Len(lines))
              /\ postings[w][i].id \notin Gone
    BY <1>1, <1>2, <2>1 DEF RecsFinal, Final
  <2>3. \A i \in 1..Len(postings[w]) :
           postings[w][i] = Sum(w, postings[w][i].id, Len(lines))
    BY <1>2, <2>2, IsTheSum
  <2>4. \A i \in 1..Len(postings[w]) :
           \E j \in 1..Len(lines) : /\ ~IsMarker(lines[j]) /\ lines[j].word = w
                                    /\ lines[j].rec.id = postings[w][i].id
    BY <2>2 DEF Is, About, IsAbout
  <2>5. \A j \in 1..Len(lines) :
           ~IsMarker(lines[j]) /\ lines[j].word = w /\ lines[j].rec.id \notin Gone =>
              \E i \in 1..Len(postings[w]) : postings[w][i].id = lines[j].rec.id
    BY <1>1, <1>2, <2>1 DEF NoneMissed, Held, Collected
  <2>6. {postings[w][i].id : i \in 1..Len(postings[w])} =
            {lines[i].rec.id : i \in {j \in 1..Len(lines) :
                 ~IsMarker(lines[j]) /\ lines[j].word = w}} \ Gone
    <3> DEFINE left == {postings[w][i].id : i \in 1..Len(postings[w])}
               about == {j \in 1..Len(lines) : ~IsMarker(lines[j]) /\ lines[j].word = w}
               right == {lines[i].rec.id : i \in about}
    <3>1. ASSUME NEW x \in left PROVE x \in right /\ x \notin Gone
      <4>1. PICK i \in 1..Len(postings[w]) : x = postings[w][i].id
        OBVIOUS
      <4>2. PICK j \in 1..Len(lines) : /\ ~IsMarker(lines[j]) /\ lines[j].word = w
                                       /\ lines[j].rec.id = x
        BY <2>4, <4>1
      <4>3. j \in about
        BY <4>2
      <4> QED
        BY <2>2, <4>1, <4>2, <4>3
    <3>2. ASSUME NEW x \in right, x \notin Gone PROVE x \in left
      <4>1. PICK j \in about : x = lines[j].rec.id
        OBVIOUS
      <4>2. \E i \in 1..Len(postings[w]) : postings[w][i].id = x
        BY <2>5, <3>2, <4>1
      <4> QED
        BY <4>2
    <3> QED
      BY <3>1, <3>2
  <2> QED
    BY <2>2, <2>3, <2>6 DEF Distinct
<1> QED
  BY <1>3, <1>4 DEF OneRecordEach

(* mergeWords: whatever the list of lines and the order in which sort left *)
(* them, when it ends the new list and the word database hold the same     *)
(* records of every word in the same order; and when the markers come      *)
(* first and the lines about a word and a document are together, they hold *)
(* one record for each document that is not discarded, with the sums of    *)
(* all its lines. *)
THEOREM WordsAddUp == WordsSpec => []WordsMerged
<1>1. WordsInit => CollectInv /\ FiledInv /\ SumsInv
  BY CollectInit
<1>2. CollectInv /\ FiledInv /\ SumsInv /\ [WordsNext]_wordsVars
         => (CollectInv /\ FiledInv /\ SumsInv)'
  BY CollectStep, FiledStep, SumsStep
<1>3. CollectInv /\ FiledInv /\ SumsInv => WordsMerged
  BY MergedThen
<1> QED
  BY <1>1, <1>2, <1>3, PTL DEF WordsSpec

-----------------------------------------------------------------------------
(* class List.                                                             *)

Contents == Objects \cup {Nil}

(* The i-th of a chain of n nodes; before the first and behind the last    *)
(* one there is the null pointer. *)
At(c, n, i) == IF i \in 1..n THEN c[i] ELSE Null

(* The nodes f are the chain c, linked in both directions. *)
Linked(f, c, n) ==
    /\ n \in Nat /\ c \in [1..n -> Addresses]
    /\ \A i, j \in 1..n : c[i] = c[j] => i = j
    /\ DOMAIN f = {c[i] : i \in 1..n} /\ f = [a \in DOMAIN f |-> f[a]]
    /\ \A i \in 1..n : /\ f[c[i]].object \in Contents
                       /\ f[c[i]] = New(At(c, n, i + 1), At(c, n, i - 1), f[c[i]].object)

(* The traversal stands at a node, the one that Nth remembers, or at the   *)
(* end. *)
Ordered(c) ==
    /\ Linked(node, c, number)
    /\ head = At(c, number, 1) /\ tail = At(c, number, number)
    /\ current = Null \/ \E i \in 1..number : current = c[i]
    /\ currentIndex # -1 => /\ currentIndex \in Nat /\ currentIndex < number
                            /\ current = c[currentIndex + 1]

ListInv == \E c : Ordered(c)

-----------------------------------------------------------------------------
(* Going from node to node from the first one of a chain leads to them in  *)
(* turn. *)
LEMMA StepsLead ==
    ASSUME NEW f, NEW c, NEW n, Linked(f, c, n), NEW i \in Nat
    PROVE  NodeAt(f, At(c, n, 1), i) = At(c, n, i + 1)
<1> DEFINE first == At(c, n, 1)
           Step(g, k) == IF k = 0 THEN first
                         ELSE IF g[k - 1] = Null THEN Null ELSE f[g[k - 1]].next
           w == [k \in 0..i |-> At(c, n, k + 1)]
<1>1. n \in Nat /\ \A k \in 1..n : c[k] \in Addresses /\ c[k] # Null
  BY ListAssumption DEF Linked
<1>2. ASSUME NEW k \in 1..n PROVE f[c[k]].next = At(c, n, k + 1)
  <2>1. f[c[k]] = New(At(c, n, k + 1), At(c, n, k - 1), f[c[k]].object)
    BY DEF Linked
  <2> QED
    BY <2>1 DEF New
<1>3. ASSUME NEW k \in 0..i, k # 0
      PROVE  At(c, n, k + 1) = IF At(c, n, k) = Null THEN Null ELSE f[At(c, n, k)].next
  BY <1>1, <1>2, <1>3 DEF At
<1>4. w = [k \in 0..i |-> Step(w, k)]
  <2>1. \A k \in 0..i : k # 0 => k - 1 \in 0..i /\ w[k - 1] = At(c, n, k)
    OBVIOUS
  <2>2. \A k \in 0..i : At(c, n, k + 1) = Step(w, k)
    BY <1>3, <2>1
  <2> QED
    BY <2>2
<1>5. ASSUME NEW g, g = [k \in 0..i |-> Step(g, k)]
      PROVE  g = w
  <2> DEFINE D == {k \in 0..i : g[k] # w[k]}
  <2>1. CASE D = {}
    <3>1. \A k \in 0..i : g[k] = w[k]
      BY <2>1
    <3>2. g = [k \in 0..i |-> g[k]]
      BY <1>5
    <3> HIDE DEF Step
    <3> QED
      BY <3>1, <3>2
  <2>2. CASE D # {}
    <3>1. PICK k \in D : \A j \in D : k <= j
      <4>1. D \subseteq Nat
        OBVIOUS
      <4> HIDE DEF D
      <4> QED
        BY <2>2, <4>1, LeastOf
    <3>2. g[k] = Step(g, k) /\ w[k] = Step(w, k) /\ k \in 0..i
      BY <1>4, <1>5
    <3>3. k # 0 => k - 1 \in 0..i /\ g[k - 1] = w[k - 1]
      BY <3>1
    <3> QED
      BY <3>1, <3>2, <3>3
  <2> QED
    BY <2>1, <2>2
<1>6. (CHOOSE g : g = [k \in 0..i |-> Step(g, k)]) = w
  <2> HIDE DEF Step, w
  <2> QED
    BY <1>4, <1>5
<1>7. NodeAt(f, first, i) = (CHOOSE g : g = [k \in 0..i |-> Step(g, k)])[i]
  BY DEF NodeAt
<1>8. w[i] = At(c, n, i + 1)
  OBVIOUS
<1> QED
  BY <1>6, <1>7, <1>8

(* What the list is as a sequence. *)
ItemsOf(f, c, n) == [i \in 1..n |-> f[c[i]].object]

StandsAt(c, n, cur) == IF cur = Null THEN 0 ELSE CHOOSE i \in 1..n : c[i] = cur

(* AsSequence and Standing of nodes, in the order in which steps from the  *)
(* first one lead to them. *)
ReadItems(f, first, n) == [i \in 1..n |-> f[NodeAt(f, first, i - 1)].object]

ReadPlace(f, first, n, cur) ==
    LET there == {i \in 1..n : NodeAt(f, first, i - 1) = cur}
    IN IF cur = Null THEN 0 ELSE IF there = {} THEN -1 ELSE CHOOSE i \in there : TRUE

(* They take a chain for what it is. *)
LEMMA ChainRead ==
    ASSUME NEW f, NEW c, NEW n, NEW first, NEW cur, Linked(f, c, n), first = At(c, n, 1),
           cur = Null \/ \E i \in 1..n : cur = c[i]
    PROVE  /\ ReadItems(f, first, n) = ItemsOf(f, c, n)
           /\ ReadPlace(f, first, n, cur) = StandsAt(c, n, cur)
           /\ \A i \in 1..n : c[i] # Null /\ StandsAt(c, n, c[i]) = i
<1>1. n \in Nat /\ \A i \in 1..n : c[i] # Null
  BY ListAssumption DEF Linked
<1>2. \A i \in 1..n : NodeAt(f, first, i - 1) = c[i]
  <2> SUFFICES ASSUME NEW i \in 1..n PROVE NodeAt(f, first, i - 1) = c[i]
    OBVIOUS
  <2>1. i - 1 \in Nat
    BY <1>1
  <2>2. NodeAt(f, first, i - 1) = At(c, n, i - 1 + 1)
    BY <1>1, <2>1, StepsLead
  <2> QED
    BY <1>1, <2>2 DEF At
<1>3. ReadItems(f, first, n) = ItemsOf(f, c, n)
  BY <1>2 DEF ItemsOf, ReadItems
<1>4. PICK there : there = {i \in 1..n : c[i] = cur}
  OBVIOUS
<1>5. there = {i \in 1..n : NodeAt(f, first, i - 1) = cur}
  BY <1>2, <1>4
<1>6. ASSUME NEW i \in 1..n PROVE StandsAt(c, n, c[i]) = i
  <2>1. \A j \in 1..n : c[j] = c[i] => j = i
    BY DEF Linked
  <2> QED
    BY <1>1, <2>1 DEF StandsAt
<1>7. ASSUME NEW i \in 1..n, cur = c[i]
      PROVE  there # {} /\ (CHOOSE j \in there : TRUE) = i
  <2>1. \A j \in 1..n : c[j] = c[i] => j = i
    BY DEF Linked
  <2> QED
    BY <1>4, <1>7, <2>1
<1>8. StandsAt(c, n, cur) = IF cur = Null THEN 0 ELSE IF there = {} THEN -1 ELSE CHOOSE i \in there : TRUE
  BY <1>1, <1>6, <1>7 DEF StandsAt
<1>9. ReadPlace(f, first, n, cur) = StandsAt(c, n, cur)
  BY <1>5, <1>8 DEF ReadPlace
<1> QED
  BY <1>1, <1>3, <1>6, <1>9

(* What the sequence and the place of the traversal are for a chain,       *)
LEMMA Represented ==
    ASSUME NEW c, Ordered(c)
    PROVE  /\ number \in Nat /\ AsSequence = [i \in 1..number |-> node[c[i]].object]
           /\ current = Null => Standing = 0
           /\ \A i \in 1..number : c[i] # Null /\ (current = c[i] => Standing = i)
<1>1. /\ Linked(node, c, number) /\ head = At(c, number, 1)
      /\ current = Null \/ \E i \in 1..number : current = c[i]
  BY DEF Ordered
<1>2. /\ ReadItems(node, head, number) = ItemsOf(node, c, number)
      /\ ReadPlace(node, head, number, current) = StandsAt(c, number, current)
      /\ \A i \in 1..number : c[i] # Null /\ StandsAt(c, number, c[i]) = i
  BY <1>1, ChainRead
<1>3. AsSequence = ItemsOf(node, c, number)
  BY <1>2 DEF AsSequence, ReadItems
<1>4. Standing = StandsAt(c, number, current)
  BY <1>2 DEF Standing, ReadPlace
<1> QED
  BY <1>1, <1>2, <1>3, <1>4 DEF Linked, ItemsOf, StandsAt

(* and what they are after a call. *)
LEMMA RepresentedNext ==
    ASSUME NEW c, Ordered(c)'
    PROVE  /\ AsSequence' = [i \in 1..number' |-> node'[c[i]].object]
           /\ current' = Null => Standing' = 0
           /\ \A i \in 1..number' : c[i] # Null /\ (current' = c[i] => Standing' = i)
<1>1. /\ Linked(node', c, number') /\ head' = At(c, number', 1)
      /\ current' = Null \/ \E i \in 1..number' : current' = c[i]
  BY DEF Ordered, Linked, At
<1>2. /\ ReadItems(node', head', number') = ItemsOf(node', c, number')
      /\ ReadPlace(node', head', number', current') = StandsAt(c, number', current')
      /\ \A i \in 1..number' : c[i] # Null /\ StandsAt(c, number', c[i]) = i
  BY <1>1, ChainRead
<1>3. AsSequence' = ItemsOf(node', c, number')
  BY <1>2 DEF AsSequence, NodeAt, ReadItems
<1>4. Standing' = StandsAt(c, number', current')
  BY <1>2 DEF Standing, NodeAt, ReadPlace
<1> QED
  BY <1>2, <1>3, <1>4 DEF ItemsOf, StandsAt

-----------------------------------------------------------------------------
(* Sequences. *)
(* A function from the first n numbers is a sequence of that length. *)
LEMMA FunctionIsSeq ==
    ASSUME NEW S, NEW n \in Nat, NEW s, s \in [1..n -> S]
    PROVE  s \in Seq(S) /\ Len(s) = n
<1>1. s \in Seq(S)
  BY SeqDef
<1>2. DOMAIN s = 1..n /\ DOMAIN s = 1..Len(s) /\ Len(s) \in Nat
  BY <1>1, LenProperties
<1> QED
  BY <1>1, <1>2

(* The places of a sequence with an element inserted, *)
LEMMA InsertedAt ==
    ASSUME NEW S, NEW s \in Seq(S), NEW p \in 1..Len(s) + 1, NEW o \in S
    PROVE  InsertAt(s, p, o) = [i \in 1..Len(s) + 1 |-> IF i < p THEN s[i] ELSE IF i = p THEN o ELSE s[i - 1]]
<1> DEFINE front == SubSeq(s, 1, p - 1)
           back == SubSeq(s, p, Len(s))
<1>1. Len(s) \in Nat /\ \A i \in 1..Len(s) : s[i] \in S
  BY LenProperties, ElementOfSeq
<1>2. /\ front \in Seq(S) /\ Len(front) = p - 1
      /\ \A i \in 1..p - 1 : front[i] = s[i]
  <2>1. \A i \in 1..p - 1 : s[i] \in S
    BY <1>1
  <2>2. p - 1 \in Int /\ 1 \in Int
    BY <1>1
  <2>3. /\ front \in Seq(S) /\ Len(front) = IF 1 <= p - 1 THEN p - 1 - 1 + 1 ELSE 0
        /\ \A i \in 1..p - 1 - 1 + 1 : front[i] = s[1 + i - 1]
    BY <2>1, <2>2, SubSeqProperties
  <2> QED
    BY <1>1, <2>3
<1>3. /\ back \in Seq(S) /\ Len(back) = Len(s) - p + 1
      /\ \A i \in 1..Len(s) - p + 1 : back[i] = s[p + i - 1]
  <2>1. \A i \in p..Len(s) : s[i] \in S
    BY <1>1
  <2>2. p \in Int /\ Len(s) \in Int
    BY <1>1
  <2>3. /\ back \in Seq(S) /\ Len(back) = IF p <= Len(s) THEN Len(s) - p + 1 ELSE 0
        /\ \A i \in 1..Len(s) - p + 1 : back[i] = s[p + i - 1]
    BY <2>1, <2>2, SubSeqProperties
  <2> QED
    BY <1>1, <2>3
<1> HIDE DEF front, back
<1>4. <<o>> \in Seq(S) /\ Len(<<o>>) = 1 /\ <<o>>[1] = o
  OBVIOUS
<1>5. PICK t : t = front \o <<o>>
  OBVIOUS
<1>6. t \in Seq(S) /\ Len(t) = p /\ \A i \in 1..p : t[i] = IF i < p THEN s[i] ELSE o
  <2>1. /\ t \in Seq(S) /\ Len(t) = Len(front) + 1
        /\ \A i \in 1..Len(front) + 1 : t[i] = IF i <= Len(front) THEN front[i] ELSE <<o>>[i - Len(front)]
    BY <1>2, <1>4, <1>5, ConcatProperties
  <2> QED
    BY <1>1, <1>2, <1>4, <2>1
<1>7. PICK u : u = t \o back
  OBVIOUS
<1>8. /\ u \in Seq(S) /\ Len(u) = Len(s) + 1
      /\ \A i \in 1..Len(s) + 1 : u[i] = IF i <= p THEN t[i] ELSE back[i - p]
  <2>1. /\ u \in Seq(S) /\ Len(u) = Len(t) + Len(back)
        /\ \A i \in 1..Len(t) + Len(back) : u[i] = IF i <= Len(t) THEN t[i] ELSE back[i - Len(t)]
    BY <1>3, <1>6, <1>7, ConcatProperties
  <2> QED
    BY <1>1, <1>3, <1>6, <2>1
<1>9. ASSUME NEW i \in 1..Len(s) + 1
      PROVE  u[i] = IF i < p THEN s[i] ELSE IF i = p THEN o ELSE s[i - 1]
  <2>1. i <= p => i \in 1..p
    BY <1>1
  <2>2. ~(i <= p) => i - p \in 1..Len(s) - p + 1 /\ p + (i - p) - 1 = i - 1
    BY <1>1
  <2>3. ~(i <= p) => u[i] = s[i - 1]
    BY <1>3, <1>8, <2>2
  <2>4. i <= p => u[i] = IF i < p THEN s[i] ELSE o
    BY <1>6, <1>8, <2>1
  <2> QED
    BY <1>1, <2>3, <2>4
<1>10. DOMAIN u = 1..Len(s) + 1 /\ u = [i \in DOMAIN u |-> u[i]]
  BY <1>8, LenProperties
<1>11. InsertAt(s, p, o) = u
  BY <1>5, <1>7 DEF InsertAt, front, back
<1> QED
  BY <1>9, <1>10, <1>11

(* and of one with an element removed. *)
LEMMA RemovedAt ==
    ASSUME NEW S, NEW s \in Seq(S), NEW p \in 1..Len(s)
    PROVE  RemoveAt(s, p) = [i \in 1..Len(s) - 1 |-> IF i < p THEN s[i] ELSE s[i + 1]]
<1> DEFINE front == SubSeq(s, 1, p - 1)
           back == SubSeq(s, p + 1, Len(s))
<1>1. Len(s) \in Nat /\ \A i \in 1..Len(s) : s[i] \in S
  BY LenProperties, ElementOfSeq
<1>2. /\ front \in Seq(S) /\ Len(front) = p - 1
      /\ \A i \in 1..p - 1 : front[i] = s[i]
  <2>1. \A i \in 1..p - 1 : s[i] \in S
    BY <1>1
  <2>2. p - 1 \in Int /\ 1 \in Int
    BY <1>1
  <2>3. /\ front \in Seq(S) /\ Len(front) = IF 1 <= p - 1 THEN p - 1 - 1 + 1 ELSE 0
        /\ \A i \in 1..p - 1 - 1 + 1 : front[i] = s[1 + i - 1]
    BY <2>1, <2>2, SubSeqProperties
  <2> QED
    BY <1>1, <2>3
<1>3. /\ back \in Seq(S) /\ Len(back) = Len(s) - p
      /\ \A i \in 1..Len(s) - p : back[i] = s[p + i]
  <2>1. \A i \in p + 1..Len(s) : s[i] \in S
    BY <1>1
  <2>2. p + 1 \in Int /\ Len(s) \in Int
    BY <1>1
  <2>3. /\ back \in Seq(S) /\ Len(back) = IF p + 1 <= Len(s) THEN Len(s) - (p + 1) + 1 ELSE 0
        /\ \A i \in 1..Len(s) - (p + 1) + 1 : back[i] = s[p + 1 + i - 1]
    BY <2>1, <2>2, SubSeqProperties
  <2> QED
    BY <1>1, <2>3
<1> HIDE DEF front, back
<1>4. PICK u : u = front \o back
  OBVIOUS
<1>5. /\ u \in Seq(S) /\ Len(u) = Len(s) - 1
      /\ \A i \in 1..Len(s) - 1 : u[i] = IF i <= p - 1 THEN front[i] ELSE back[i - (p - 1)]
  <2>1. /\ u \in Seq(S) /\ Len(u) = Len(front) + Len(back)
        /\ \A i \in 1..Len(front) + Len(back) : u[i] = IF i <= Len(front) THEN front[i] ELSE back[i - Len(front)]
    BY <1>2, <1>3, <1>4, ConcatProperties
  <2> QED
    BY <1>1, <1>2, <1>3, <2>1
<1>6. \A i \in 1..Len(s) - 1 : u[i] = IF i < p THEN s[i] ELSE s[i + 1]
  BY <1>1, <1>2, <1>3, <1>5
<1>7. DOMAIN u = 1..Len(s) - 1 /\ u = [i \in DOMAIN u |-> u[i]]
  BY <1>5, LenProperties
<1>8. RemoveAt(s, p) = u
  BY <1>4 DEF RemoveAt, front, back
<1> QED
  BY <1>6, <1>7, <1>8
-----------------------------------------------------------------------------
(* Links. *)
LEMMA NextSet ==
    ASSUME NEW f, f = [b \in DOMAIN f |-> f[b]], NEW a \in DOMAIN f, a # Null,
           NEW x, NEW y, NEW o, f[a] = New(x, y, o), NEW v
    PROVE  /\ DOMAIN SetNext(f, a, v) = DOMAIN f
           /\ SetNext(f, a, v)[a] = New(v, y, o)
           /\ \A b \in DOMAIN f : b # a => SetNext(f, a, v)[b] = f[b]
           /\ SetNext(f, a, v) = [b \in DOMAIN f |-> SetNext(f, a, v)[b]]
<1>1. SetNext(f, a, v) = [f EXCEPT ![a] = [f[a] EXCEPT !.next = v]]
  BY DEF SetNext
<1>2. [f[a] EXCEPT !.next = v] = New(v, y, o)
  BY DEF New
<1> QED
  BY <1>1, <1>2

(* Setting the pointer back of a node leaves everything else alone. *)
LEMMA PrevSet ==
    ASSUME NEW f, f = [b \in DOMAIN f |-> f[b]], NEW a \in DOMAIN f, a # Null,
           NEW x, NEW y, NEW o, f[a] = New(x, y, o), NEW v
    PROVE  /\ DOMAIN SetPrev(f, a, v) = DOMAIN f
           /\ SetPrev(f, a, v)[a] = New(x, v, o)
           /\ \A b \in DOMAIN f : b # a => SetPrev(f, a, v)[b] = f[b]
           /\ SetPrev(f, a, v) = [b \in DOMAIN f |-> SetPrev(f, a, v)[b]]
<1>1. SetPrev(f, a, v) = [f EXCEPT ![a] = [f[a] EXCEPT !.prev = v]]
  BY DEF SetPrev
<1>2. [f[a] EXCEPT !.prev = v] = New(x, v, o)
  BY DEF New
<1> QED
  BY <1>1, <1>2

(* m nodes with the objects s are appended. *)
Appends(m, ns, s) ==
    /\ m \in Nat \ {0} /\ ns \in [1..m -> Free] /\ s \in [1..m -> Contents]
    /\ \A i, j \in 1..m : ns[i] = ns[j] => i = j
    /\ AppendAll(ns, s)

Longer(c, n, ns, m) == [i \in 1..n + m |-> IF i <= n THEN c[i] ELSE ns[i - n]]

(* They become the end of the chain. *)
LEMMA Appended ==
    ASSUME NEW c, Ordered(c), NEW m, NEW ns, NEW s, Appends(m, ns, s),
           NEW d, d = Longer(c, number, ns, m)
    PROVE  /\ Linked(node', d, number') /\ number' = number + m
           /\ head' = At(d, number', 1) /\ tail' = At(d, number', number')
           /\ \A i \in 1..number + m :
                 node'[d[i]].object = IF i <= number THEN node[c[i]].object ELSE s[i - number]
<1> DEFINE n == number
<1>0. /\ m \in Nat \ {0} /\ ns \in [1..m -> Free] /\ s \in [1..m -> Contents]
      /\ \A i, j \in 1..m : ns[i] = ns[j] => i = j
      /\ AppendAll(ns, s)
  BY DEF Appends
<1>1. /\ n \in Nat /\ Linked(node, c, n) /\ head = At(c, n, 1) /\ tail = At(c, n, n)
      /\ \A i \in 1..n : c[i] \in Addresses /\ c[i] # Null
      /\ \A i, j \in 1..n : c[i] = c[j] => i = j
      /\ DOMAIN node = {c[i] : i \in 1..n}
  BY ListAssumption DEF Ordered, Linked
<1>2. \A i \in 1..n : /\ node[c[i]].object \in Contents
                      /\ node[c[i]] = New(At(c, n, i + 1), At(c, n, i - 1), node[c[i]].object)
  BY <1>1 DEF Linked
<1>3. \A i \in 1..m : ns[i] \in Addresses /\ ns[i] # Null /\ ns[i] \notin DOMAIN node /\ s[i] \in Contents
  BY <1>0, ListAssumption DEF Free
<1>4. s # <<>> /\ Len(s) = m
  <2>1. s \in Seq(Contents) /\ Len(s) = m
    BY <1>0, FunctionIsSeq
  <2> QED
    BY <1>0, <2>1
<1>5. ToSet(ns) = {ns[i] : i \in 1..m}
  BY <1>0 DEF ToSet
<1> DEFINE linked == SetNext(node, tail, ns[1])
<1>6. /\ DOMAIN linked = DOMAIN node
      /\ \A i \in 1..n : linked[c[i]] = New(IF i = n THEN ns[1] ELSE c[i + 1], At(c, n, i - 1), node[c[i]].object)
  <2>1. CASE n = 0
    BY <1>1, <2>1 DEF At, SetNext
  <2>2. CASE n # 0
    <3>1. n \in 1..n /\ tail = c[n] /\ tail # Null /\ tail \in DOMAIN node
      BY <1>1, <2>2 DEF At
    <3>2. node = [b \in DOMAIN node |-> node[b]]
      BY <1>1 DEF Linked
    <3>3. node[tail] = New(At(c, n, n + 1), At(c, n, n - 1), node[tail].object)
      BY <1>2, <3>1
    <3>4. /\ DOMAIN linked = DOMAIN node
          /\ linked[tail] = New(ns[1], At(c, n, n - 1), node[tail].object)
          /\ \A b \in DOMAIN node : b # tail => linked[b] = node[b]
      BY <3>1, <3>2, <3>3, NextSet
    <3> HIDE DEF linked
    <3>5. ASSUME NEW i \in 1..n
          PROVE  linked[c[i]] = New(IF i = n THEN ns[1] ELSE c[i + 1], At(c, n, i - 1), node[c[i]].object)
      <4>1. CASE i = n
        BY <3>1, <3>4, <4>1
      <4>2. CASE i # n
        <5>1. c[i] # tail /\ c[i] \in DOMAIN node
          BY <1>1, <3>1, <4>2
        <5>2. linked[c[i]] = New(At(c, n, i + 1), At(c, n, i - 1), node[c[i]].object)
          BY <1>2, <3>4, <5>1
        <5>3. At(c, n, i + 1) = c[i + 1]
          BY <1>1, <4>2 DEF At
        <5> QED
          BY <4>2, <5>2, <5>3
      <4> QED
        BY <4>1, <4>2
    <3> QED
      BY <3>4, <3>5
  <2> QED
    BY <2>1, <2>2
<1> HIDE DEF linked
<1> DEFINE prevOf(i) == IF i = 1 THEN tail ELSE ns[i - 1]
           nextOf(i) == IF i = Len(s) THEN Null ELSE ns[i + 1]
           added == [x \in ToSet(ns) |-> LET i == CHOOSE j \in 1..Len(s) : ns[j] = x
                                         IN New(nextOf(i), prevOf(i), s[i])]
<1>7. DOMAIN added = {ns[i] : i \in 1..m} /\ \A i \in 1..m : added[ns[i]] = New(nextOf(i), prevOf(i), s[i])
  <2> SUFFICES ASSUME NEW i \in 1..m PROVE added[ns[i]] = New(nextOf(i), prevOf(i), s[i])
    BY <1>5
  <2>1. ns[i] \in ToSet(ns)
    BY <1>5
  <2>2. (CHOOSE j \in 1..Len(s) : ns[j] = ns[i]) = i
    BY <1>0, <1>4
  <2> HIDE DEF prevOf, nextOf
  <2> QED
    BY <2>1, <2>2
<1>8. /\ node' = [a \in DOMAIN node \cup ToSet(ns) |-> IF a \in DOMAIN added THEN added[a] ELSE linked[a]]
      /\ head' = IF tail = Null THEN ns[1] ELSE head
      /\ tail' = ns[m] /\ number' = number + m
  <2>1. /\ node' = [a \in DOMAIN node \cup ToSet(ns) |-> IF a \in DOMAIN added THEN added[a] ELSE linked[a]]
        /\ head' = IF tail = Null THEN ns[1] ELSE head
        /\ tail' = ns[Len(s)] /\ number' = number + Len(s)
    BY <1>0, <1>4, Zenon DEF AppendAll, linked
  <2> QED
    BY <1>4, <2>1
<1> HIDE DEF added
<1>9. /\ DOMAIN node' = DOMAIN node \cup {ns[i] : i \in 1..m}
      /\ node' = [a \in DOMAIN node' |-> node'[a]]
      /\ \A i \in 1..m : node'[ns[i]] = New(nextOf(i), prevOf(i), s[i])
      /\ \A i \in 1..n : node'[c[i]] = New(IF i = n THEN ns[1] ELSE c[i + 1], At(c, n, i - 1), node[c[i]].object)
  <2>1. /\ DOMAIN node' = DOMAIN node \cup {ns[i] : i \in 1..m}
        /\ \A a \in DOMAIN node' : node'[a] = IF a \in DOMAIN added THEN added[a] ELSE linked[a]
        /\ node' = [a \in DOMAIN node' |-> node'[a]]
    BY <1>5, <1>8
  <2>2. \A i \in 1..m : ns[i] \in DOMAIN added /\ ns[i] \in DOMAIN node'
    BY <1>7, <2>1
  <2>3. \A i \in 1..n : c[i] \notin DOMAIN added /\ c[i] \in DOMAIN node'
    BY <1>1, <1>3, <1>7, <2>1
  <2> HIDE DEF prevOf, nextOf
  <2> QED
    BY <1>6, <1>7, <2>1, <2>2, <2>3
<1>10. /\ \A i \in 1..n : i \in 1..n + m /\ d[i] = c[i]
       /\ \A i \in 1..m : n + i \in 1..n + m /\ d[n + i] = ns[i]
       /\ \A i \in 1..n + m : i \in 1..n \/ \E j \in 1..m : i = n + j
  <2>1. d = [i \in 1..n + m |-> IF i <= n THEN c[i] ELSE ns[i - n]]
    BY DEF Longer
  <2>5. \A k \in 1..n + m : d[k] = IF k <= n THEN c[k] ELSE ns[k - n]
    BY <2>1
  <2>2. ASSUME NEW i \in 1..m PROVE n + i \in 1..n + m /\ d[n + i] = ns[i]
    <3>1. PICK k : k = n + i
      OBVIOUS
    <3>2. k \in 1..n + m /\ ~(k <= n) /\ k - n = i
      BY <1>0, <1>1, <3>1
    <3>3. d[k] = ns[k - n]
      BY <2>5, <3>2
    <3> QED
      BY <3>1, <3>2, <3>3
  <2>3. ASSUME NEW i \in 1..n PROVE i \in 1..n + m /\ d[i] = c[i]
    <3>1. i \in 1..n + m /\ i <= n
      BY <1>0, <1>1
    <3> QED
      BY <2>1, <3>1
  <2>4. \A i \in 1..n + m : i \notin 1..n => i - n \in 1..m /\ i = n + (i - n)
    BY <1>0, <1>1
  <2> QED
    BY <2>2, <2>3, <2>4
<1>11. d \in [1..n + m -> Addresses]
  <2>1. ASSUME NEW i \in 1..n + m PROVE d[i] \in Addresses
    <3>1. CASE i \in 1..n
      BY <1>1, <1>10, <3>1
    <3>2. ASSUME NEW j \in 1..m, i = n + j PROVE d[i] \in Addresses
      BY <1>3, <1>10, <3>2
    <3> QED
      BY <1>10, <3>1, <3>2
  <2>2. d = [i \in 1..n + m |-> d[i]]
    BY DEF Longer
  <2> QED
    BY <2>1, <2>2
<1>12. ASSUME NEW i \in 1..n + m, NEW j \in 1..n + m, d[i] = d[j] PROVE i = j
  <2>1. \A k \in 1..n, l \in 1..m : c[k] # ns[l]
    BY <1>1, <1>3
  <2>2. (i \in 1..n /\ d[i] = c[i]) \/ \E k \in 1..m : i = n + k /\ d[i] = ns[k]
    BY <1>10
  <2>3. (j \in 1..n /\ d[j] = c[j]) \/ \E k \in 1..m : j = n + k /\ d[j] = ns[k]
    BY <1>10
  <2> QED
    BY <1>0, <1>1, <1>12, <2>1, <2>2, <2>3
<1>13. DOMAIN node' = {d[i] : i \in 1..n + m}
  <2>1. ASSUME NEW a \in DOMAIN node' PROVE \E i \in 1..n + m : a = d[i]
    <3>1. CASE a \in DOMAIN node
      <4>1. PICK i \in 1..n : a = c[i]
        BY <1>1, <3>1
      <4> QED
        BY <1>10, <4>1
    <3>2. CASE a \notin DOMAIN node
      <4>1. PICK i \in 1..m : a = ns[i]
        BY <1>9, <3>2
      <4> QED
        BY <1>10, <4>1
    <3> QED
      BY <3>1, <3>2
  <2>2. ASSUME NEW i \in 1..n + m PROVE d[i] \in DOMAIN node'
    <3>1. CASE i \in 1..n
      BY <1>1, <1>9, <1>10, <3>1
    <3>2. ASSUME NEW j \in 1..m, i = n + j PROVE d[i] \in DOMAIN node'
      <4>1. d[i] = ns[j]
        BY <1>10, <3>2
      <4>2. ns[j] \in DOMAIN node'
        BY <1>9
      <4> QED
        BY <4>1, <4>2
    <3> QED
      BY <1>10, <3>1, <3>2
  <2>3. PICK D : D = DOMAIN node'
    OBVIOUS
  <2>4. PICK N : N = 1..n + m
    OBVIOUS
  <2>5. \A a \in D : \E i \in N : a = d[i]
    BY <2>1, <2>3, <2>4
  <2>6. \A i \in N : d[i] \in D
    BY <2>2, <2>3, <2>4
  <2>7. D = {d[i] : i \in N}
    BY <2>5, <2>6
  <2> QED
    BY <2>3, <2>4, <2>7
<1>14. ASSUME NEW i \in 1..n + m
       PROVE  /\ node'[d[i]] = New(At(d, n + m, i + 1), At(d, n + m, i - 1), node'[d[i]].object)
              /\ node'[d[i]].object = IF i <= number THEN node[c[i]].object ELSE s[i - number]
              /\ node'[d[i]].object \in Contents
  <2>1. CASE i \in 1..n
    <3>1. d[i] = c[i] /\ node'[d[i]] = New(IF i = n THEN ns[1] ELSE c[i + 1], At(c, n, i - 1), node[c[i]].object)
      BY <1>9, <1>10, <2>1
    <3>2. At(d, n + m, i + 1) = IF i = n THEN ns[1] ELSE c[i + 1]
      <4>1. i = n => d[i + 1] = ns[1]
        BY <1>0, <1>10
      <4>2. i # n => d[i + 1] = c[i + 1]
        BY <1>0, <1>1, <1>10, <2>1
      <4>3. i + 1 \in 1..n + m
        BY <1>0, <1>1, <2>1
      <4> QED
        BY <4>1, <4>2, <4>3 DEF At
    <3>3. At(d, n + m, i - 1) = At(c, n, i - 1)
      BY <1>0, <1>1, <1>10, <2>1 DEF At
    <3>4. node'[d[i]].object = node[c[i]].object
      BY <3>1 DEF New
    <3>5. node[c[i]].object \in Contents /\ i <= number
      BY <1>1, <1>2, <2>1
    <3> QED
      BY <3>1, <3>2, <3>3, <3>4, <3>5
  <2>2. ASSUME NEW j \in 1..m, i = n + j
        PROVE  /\ node'[d[i]] = New(At(d, n + m, i + 1), At(d, n + m, i - 1), node'[d[i]].object)
               /\ node'[d[i]].object = s[j] /\ ~(i <= number) /\ i - number = j
    <3>1. d[i] = ns[j] /\ node'[d[i]] = New(nextOf(j), prevOf(j), s[j])
      <4> HIDE DEF nextOf, prevOf
      <4>1. d[i] = ns[j]
        BY <1>0, <1>10, <2>2
      <4> QED
        BY <1>9, <4>1
    <3>2. At(d, n + m, i + 1) = nextOf(j)
      <4>1. CASE j = m
        BY <1>0, <1>1, <1>4, <2>2, <4>1 DEF At
      <4>2. CASE j # m
        <5>1. j + 1 \in 1..m /\ i + 1 = n + (j + 1)
          BY <1>0, <1>1, <2>2, <4>2
        <5> QED
          BY <1>0, <1>4, <1>10, <4>2, <5>1 DEF At
      <4> QED
        BY <4>1, <4>2
    <3>3. At(d, n + m, i - 1) = prevOf(j)
      <4>1. CASE j = 1
        BY <1>0, <1>1, <1>10, <2>2, <4>1 DEF At
      <4>2. CASE j # 1
        <5>1. j - 1 \in 1..m /\ i - 1 = n + (j - 1)
          BY <1>0, <1>1, <2>2, <4>2
        <5> QED
          BY <1>0, <1>10, <4>2, <5>1 DEF At
      <4> QED
        BY <4>1, <4>2
    <3>4. node'[d[i]].object = s[j]
      BY <3>1 DEF New
    <3>5. ~(i <= number) /\ i - number = j
      BY <1>0, <1>1, <2>2
    <3> HIDE DEF nextOf, prevOf
    <3> QED
      BY <3>1, <3>2, <3>3, <3>4, <3>5
  <2> QED
    BY <1>3, <1>10, <2>1, <2>2
<1>15. Linked(node', d, n + m)
  <2>1. n + m \in Nat /\ node' = [a \in DOMAIN node' |-> node'[a]]
    BY <1>0, <1>1, <1>9
  <2> QED
    BY <1>11, <1>12, <1>13, <1>14, <2>1 DEF Linked
<1>16. head' = At(d, n + m, 1) /\ tail' = At(d, n + m, n + m)
  <2>1. tail' = At(d, n + m, n + m)
    BY <1>0, <1>1, <1>8, <1>10 DEF At
  <2>2. CASE n = 0
    BY <1>0, <1>1, <1>8, <1>10, <2>2 DEF At
  <2>3. CASE n # 0
    <3>1. 1 \in 1..n /\ n \in 1..n /\ tail = c[n] /\ head = c[1] /\ tail # Null
      BY <1>0, <1>1, <2>3 DEF At
    <3> QED
      BY <1>0, <1>1, <1>8, <1>10, <2>1, <3>1 DEF At
  <2> QED
    BY <2>1, <2>2, <2>3
<1> QED
  BY <1>0, <1>8, <1>14, <1>15, <1>16

(* The sequence of an ordered list. *)
LEMMA ItemsAre ==
    ASSUME NEW c, Ordered(c)
    PROVE  /\ AsSequence \in Seq(Contents) /\ Len(AsSequence) = number /\ number \in Nat
           /\ \A i \in 1..number : AsSequence[i] = node[c[i]].object /\ AsSequence[i] \in Contents
           /\ AsSequence = <<>> <=> number = 0
<1>1. number \in Nat /\ AsSequence = [i \in 1..number |-> node[c[i]].object]
  BY Represented
<1>2. \A i \in 1..number : node[c[i]].object \in Contents
  BY DEF Ordered, Linked
<1>3. AsSequence \in [1..number -> Contents]
  BY <1>1, <1>2
<1>4. AsSequence \in Seq(Contents) /\ Len(AsSequence) = number
  BY <1>1, <1>3, FunctionIsSeq
<1> QED
  BY <1>1, <1>2, <1>4, EmptySeq

(* Appending leaves the traversal where it is. *)
LEMMA AppendedIs ==
    ASSUME NEW c, Ordered(c), NEW m, NEW ns, NEW s, Appends(m, ns, s),
           current' = current, currentIndex' \in {currentIndex, -1}
    PROVE  /\ ListInv'
           /\ AsSequence' = Longer(AsSequence, number, s, m)
           /\ Standing' = Standing
<1>0. m \in Nat \ {0}
  BY DEF Appends
<1>1. PICK d : d = Longer(c, number, ns, m)
  OBVIOUS
<1>2. /\ Linked(node', d, number') /\ number' = number + m
      /\ head' = At(d, number', 1) /\ tail' = At(d, number', number')
      /\ \A i \in 1..number + m :
            node'[d[i]].object = IF i <= number THEN node[c[i]].object ELSE s[i - number]
  BY <1>1, Appended
<1>3. number \in Nat /\ \A i \in 1..number : i \in 1..number' /\ d[i] = c[i]
  BY <1>0, <1>1, <1>2 DEF Ordered, Linked, Longer
<1>4. current' = Null \/ \E i \in 1..number' : current' = d[i]
  BY <1>3 DEF Ordered
<1>5. currentIndex' # -1 => /\ currentIndex' \in Nat /\ currentIndex' < number'
                            /\ current' = d[currentIndex' + 1]
  <2> SUFFICES ASSUME currentIndex' # -1
               PROVE  /\ currentIndex' \in Nat /\ currentIndex' < number'
                      /\ current' = d[currentIndex' + 1]
    OBVIOUS
  <2>1. currentIndex' = currentIndex /\ currentIndex \in Nat /\ currentIndex < number
        /\ current = c[currentIndex + 1]
    BY DEF Ordered
  <2>2. currentIndex + 1 \in 1..number
    BY <1>3, <2>1
  <2> QED
    BY <1>2, <1>3, <2>1, <2>2
<1>6. Ordered(d)'
  BY <1>2, <1>4, <1>5 DEF Ordered, Linked, At
<1>7. AsSequence' = Longer(AsSequence, number, s, m)
  <2>1. AsSequence' = [i \in 1..number' |-> node'[d[i]].object]
    BY <1>6, RepresentedNext
  <2>2. \A i \in 1..number : AsSequence[i] = node[c[i]].object
    BY ItemsAre
  <2>3. \A i \in 1..number + m :
           node'[d[i]].object = IF i <= number THEN AsSequence[i] ELSE s[i - number]
    <3>1. \A i \in 1..number + m : i <= number => i \in 1..number
      BY <1>3
    <3> QED
      BY <1>2, <2>2, <3>1
  <2> QED
    BY <1>2, <2>1, <2>3 DEF Longer
<1>8. Standing' = Standing
  <2>1. CASE current = Null
    BY <1>6, <2>1, Represented, RepresentedNext
  <2>2. CASE current # Null
    <3>1. PICK i \in 1..number : current = c[i]
      BY <2>2 DEF Ordered
    <3>2. Standing = i
      BY <3>1, Represented
    <3>3. i \in 1..number' /\ current' = d[i]
      BY <1>3, <3>1
    <3>4. Standing' = i
      BY <1>6, <3>3, RepresentedNext
    <3> QED
      BY <3>2, <3>4
  <2> QED
    BY <2>1, <2>2
<1> QED
  BY <1>6, <1>7, <1>8 DEF ListInv

(* The operators on sequences that Sequence is built from. *)
LEMMA SameOperators ==
    /\ \A s, i, o : Promised!InsertAt(s, i, o) = InsertAt(s, i, o)
    /\ \A s, i : Promised!RemoveAt(s, i) = RemoveAt(s, i)
    /\ \A s : Promised!ToSet(s) = ToSet(s)
    /\ \A S : Promised!Min(S) = Min(S)
BY DEF Promised!InsertAt, InsertAt, Promised!RemoveAt, RemoveAt, Promised!ToSet, ToSet,
       Promised!Min, Min

(* An object added. *)
LEMMA ListAdds ==
    ASSUME NEW c, Ordered(c), NEW o \in Objects, AddObject(o)
    PROVE  ListInv' /\ Promised!SeqNext
<1>1. PICK n \in Free : AppendAll(<<n>>, <<o>>)
  BY DEF AddObject
<1>2. Appends(1, <<n>>, <<o>>)
  <2>1. <<n>> \in [1..1 -> Free] /\ <<o>> \in [1..1 -> Contents]
    BY DEF Contents
  <2> QED
    BY <1>1, <2>1 DEF Appends
<1>3. current' = current /\ currentIndex' = currentIndex /\ returned' = returned /\ call' = <<"Add", o>>
  BY DEF AddObject
<1>4. /\ ListInv'
      /\ AsSequence' = Longer(AsSequence, number, <<o>>, 1)
      /\ Standing' = Standing
  BY <1>2, <1>3, AppendedIs
<1>5. AsSequence' = Append(AsSequence, o)
  <2>1. AsSequence \in Seq(Contents) /\ Len(AsSequence) = number /\ number \in Nat
    BY ItemsAre
  <2>2. \A i \in 1..number + 1 : ~(i <= number) => <<o>>[i - number] = o
    BY <2>1
  <2>3. o \in Contents
    BY DEF Contents
  <2>4. PICK t : t = Append(AsSequence, o)
    OBVIOUS
  <2>5. /\ t \in Seq(Contents) /\ Len(t) = number + 1 /\ t[number + 1] = o
        /\ \A i \in 1..number : t[i] = AsSequence[i]
    BY <2>1, <2>3, <2>4, AppendProperties
  <2>6. DOMAIN t = 1..number + 1 /\ t = [i \in DOMAIN t |-> t[i]]
    BY <2>5, LenProperties
  <2>7. \A i \in 1..number + 1 : t[i] = IF i <= number THEN AsSequence[i] ELSE <<o>>[i - number]
    <3> SUFFICES ASSUME NEW i \in 1..number + 1
                 PROVE  t[i] = IF i <= number THEN AsSequence[i] ELSE <<o>>[i - number]
      OBVIOUS
    <3>1. i \in 1..number <=> i <= number
      BY <2>1
    <3>2. ~(i <= number) => i = number + 1
      BY <2>1
    <3> QED
      BY <2>2, <2>5, <3>1, <3>2
  <2>8. t = [i \in 1..number + 1 |-> t[i]]
    BY <2>6
  <2>9. t = [i \in 1..number + 1 |-> IF i <= number THEN AsSequence[i] ELSE <<o>>[i - number]]
    BY <2>7, <2>8
  <2> QED
    BY <1>4, <2>4, <2>9 DEF Longer
<1>6. Promised!Changed(o) /\ UNCHANGED returned
  BY <1>3, <1>4, <1>5 DEF Promised!Changed
<1> QED
  BY <1>4, <1>6 DEF Promised!SeqNext

(* The links of a node. *)
LEMMA LinksOf ==
    ASSUME NEW c, Ordered(c), NEW i \in 1..number
    PROVE  node[c[i]].next = At(c, number, i + 1) /\ node[c[i]].prev = At(c, number, i - 1)
<1>1. node[c[i]] = New(At(c, number, i + 1), At(c, number, i - 1), node[c[i]].object)
  BY DEF Ordered, Linked
<1> QED
  BY <1>1 DEF New

-----------------------------------------------------------------------------
(* A node before the p-th one. *)
LongerAt(c, n, p, x) == [i \in 1..n + 1 |-> IF i < p THEN c[i] ELSE IF i = p THEN x ELSE c[i - 1]]

(* The links after it was inserted. *)
LEMMA InsertLinks ==
    ASSUME NEW c, Ordered(c), NEW p \in 1..number, NEW n \in Free, NEW o, InsertBefore(c[p], n, o)
    PROVE  /\ DOMAIN node' = DOMAIN node \cup {n} /\ node' = [a \in DOMAIN node' |-> node'[a]]
           /\ node'[n] = New(c[p], At(c, number, p - 1), o)
           /\ \A i \in 1..number :
                 node'[c[i]] = New(IF i + 1 = p THEN n ELSE At(c, number, i + 1),
                                   IF i = p THEN n ELSE At(c, number, i - 1), node[c[i]].object)
           /\ head' = IF p = 1 THEN n ELSE head
           /\ tail' = tail /\ number' = number + 1
<1>1. /\ number \in Nat /\ Linked(node, c, number) /\ head = c[1]
      /\ \A i \in 1..number : c[i] # Null /\ c[i] \in DOMAIN node
      /\ \A i, j \in 1..number : c[i] = c[j] => i = j
      /\ DOMAIN node = {c[i] : i \in 1..number}
      /\ node = [a \in DOMAIN node |-> node[a]]
  BY ListAssumption DEF Ordered, Linked, At
<1>2. \A i \in 1..number : node[c[i]] = New(At(c, number, i + 1), At(c, number, i - 1), node[c[i]].object)
  BY <1>1 DEF Linked
<1>3. c[p] = head <=> p = 1
  BY <1>1
<1>4. n \notin DOMAIN node
  BY DEF Free
<1>5. head' = (IF p = 1 THEN n ELSE head) /\ tail' = tail /\ number' = number + 1
  BY <1>3 DEF InsertBefore
<1>6. CASE p = 1
  <2>1. PICK f : f = With(node, n, New(head, Null, o))
    OBVIOUS
  <2>2. /\ DOMAIN f = DOMAIN node \cup {n} /\ f = [a \in DOMAIN f |-> f[a]]
        /\ f[n] = New(c[1], Null, o) /\ \A a \in DOMAIN node : f[a] = node[a]
    BY <1>1, <1>4, <2>1 DEF With
  <2>3. node' = SetPrev(f, head, n)
    BY <1>3, <1>6, <2>1 DEF InsertBefore
  <2>4. f[head] = New(At(c, number, 2), At(c, number, 0), node[c[1]].object)
    BY <1>1, <1>2, <1>6, <2>2
  <2>5. head \in DOMAIN f /\ head # Null /\ head \in DOMAIN node
    BY <1>1, <1>6, <2>2
  <2>6. /\ DOMAIN node' = DOMAIN f /\ node' = [a \in DOMAIN f |-> node'[a]]
        /\ node'[head] = New(At(c, number, 2), n, node[c[1]].object)
        /\ \A a \in DOMAIN f : a # head => node'[a] = f[a]
    BY <2>2, <2>3, <2>4, <2>5, PrevSet
  <2>7. At(c, number, p - 1) = Null /\ head # n
    BY <1>4, <1>6, <2>5 DEF At
  <2>8. node'[n] = New(c[p], At(c, number, p - 1), o)
    BY <1>6, <2>2, <2>6, <2>7
  <2>9. ASSUME NEW i \in 1..number
        PROVE  node'[c[i]] = New(IF i + 1 = p THEN n ELSE At(c, number, i + 1),
                                 IF i = p THEN n ELSE At(c, number, i - 1), node[c[i]].object)
    <3>1. i + 1 # p /\ (i = p => i + 1 = 2)
      BY <1>1, <1>6
    <3>2. CASE i = p
      <4>1. node'[c[i]] = New(At(c, number, i + 1), n, node[c[i]].object)
        BY <1>1, <1>6, <2>6, <3>1, <3>2
      <4> QED
        BY <3>1, <3>2, <4>1
    <3>3. CASE i # p
      <4>1. c[i] # head /\ c[i] \in DOMAIN node
        BY <1>1, <1>6, <3>3
      <4>2. node'[c[i]] = node[c[i]]
        BY <2>2, <2>6, <4>1
      <4> QED
        BY <1>2, <3>1, <3>3, <4>2
    <3> QED
      BY <3>2, <3>3
  <2> QED
    BY <1>5, <2>2, <2>6, <2>8, <2>9
<1>7. CASE p # 1
  <2>1. PICK f : f = With(node, n, New(c[p], c[p - 1], o))
    OBVIOUS
  <2>2. /\ DOMAIN f = DOMAIN node \cup {n} /\ f = [a \in DOMAIN f |-> f[a]]
        /\ f[n] = New(c[p], c[p - 1], o) /\ \A a \in DOMAIN node : f[a] = node[a]
    BY <1>1, <1>4, <2>1 DEF With
  <2>3. p - 1 \in 1..number /\ p - 1 + 1 = p /\ p - 1 # p
    BY <1>1, <1>7
  <2>4. At(c, number, p - 1) = c[p - 1] /\ node[c[p]].prev = c[p - 1]
    <3>1. At(c, number, p - 1) = c[p - 1]
      BY <2>3 DEF At
    <3> QED
      BY <3>1, LinksOf
  <2>5. PICK g : g = SetNext(f, c[p - 1], n)
    OBVIOUS
  <2>6. node' = SetPrev(g, c[p], n)
    BY <1>3, <1>7, <2>1, <2>4, <2>5 DEF InsertBefore
  <2>7. f[c[p - 1]] = New(At(c, number, p), At(c, number, p - 2), node[c[p - 1]].object)
    <3>1. node[c[p - 1]] = New(At(c, number, p - 1 + 1), At(c, number, p - 1 - 1), node[c[p - 1]].object)
      BY <1>2, <2>3
    <3>2. p - 1 + 1 = p /\ p - 1 - 1 = p - 2
      BY <1>1
    <3> QED
      BY <1>1, <2>2, <2>3, <3>1, <3>2
  <2>8. c[p - 1] \in DOMAIN f /\ c[p - 1] # Null /\ c[p] \in DOMAIN f /\ c[p] # Null /\ c[p] # c[p - 1]
    BY <1>1, <2>2, <2>3
  <2>9. /\ DOMAIN g = DOMAIN f /\ g = [a \in DOMAIN f |-> g[a]]
        /\ g[c[p - 1]] = New(n, At(c, number, p - 2), node[c[p - 1]].object)
        /\ \A a \in DOMAIN f : a # c[p - 1] => g[a] = f[a]
    BY <2>2, <2>5, <2>7, <2>8, NextSet
  <2>10. g[c[p]] = New(At(c, number, p + 1), At(c, number, p - 1), node[c[p]].object)
    BY <1>1, <1>2, <2>2, <2>8, <2>9
  <2>11. /\ DOMAIN node' = DOMAIN g /\ node' = [a \in DOMAIN g |-> node'[a]]
         /\ node'[c[p]] = New(At(c, number, p + 1), n, node[c[p]].object)
         /\ \A a \in DOMAIN g : a # c[p] => node'[a] = g[a]
    BY <2>6, <2>8, <2>9, <2>10, PrevSet
  <2>12. node'[n] = New(c[p], At(c, number, p - 1), o)
    <3>1. n # c[p] /\ n # c[p - 1] /\ n \in DOMAIN f
      BY <1>1, <1>4, <2>2, <2>3
    <3> QED
      BY <2>2, <2>4, <2>9, <2>11, <3>1
  <2>13. ASSUME NEW i \in 1..number
         PROVE  node'[c[i]] = New(IF i + 1 = p THEN n ELSE At(c, number, i + 1),
                                  IF i = p THEN n ELSE At(c, number, i - 1), node[c[i]].object)
    <3>1. CASE i = p
      <4>1. i + 1 # p
        BY <1>1, <3>1
      <4> QED
        BY <2>11, <3>1, <4>1
    <3>2. CASE i = p - 1
      <4>1. i # p /\ i + 1 = p /\ i - 1 = p - 2
        BY <1>1, <3>2
      <4>2. node'[c[i]] = New(n, At(c, number, p - 2), node[c[i]].object)
        BY <2>8, <2>9, <2>11, <3>2
      <4> QED
        BY <4>1, <4>2
    <3>3. CASE i # p /\ i # p - 1
      <4>1. c[i] # c[p] /\ c[i] # c[p - 1] /\ c[i] \in DOMAIN node /\ i + 1 # p
        BY <1>1, <2>3, <3>3
      <4>2. node'[c[i]] = node[c[i]]
        BY <2>2, <2>9, <2>11, <4>1
      <4> QED
        BY <1>2, <3>3, <4>1, <4>2
    <3> QED
      BY <3>1, <3>2, <3>3
  <2> QED
    BY <1>5, <2>2, <2>9, <2>11, <2>12, <2>13
<1> QED
  BY <1>6, <1>7

(* The chain with a node more. *)
LEMMA InsertChain ==
    ASSUME NEW c, Ordered(c), NEW p \in 1..number, NEW n \in Free, NEW o \in Contents,
           InsertBefore(c[p], n, o), NEW d, d = LongerAt(c, number, p, n)
    PROVE  /\ Linked(node', d, number') /\ number' = number + 1 /\ number \in Nat
           /\ head' = At(d, number', 1) /\ tail' = At(d, number', number')
           /\ d[p] = n /\ node'[n].object = o
           /\ \A i \in 1..number : LET j == IF i < p THEN i ELSE i + 1
                                   IN /\ j \in 1..number' /\ d[j] = c[i]
                                      /\ node'[c[i]].object = node[c[i]].object
<1> DEFINE m == number + 1
           Up(i) == IF i < p THEN i ELSE i + 1
<1>1. /\ number \in Nat /\ Linked(node, c, number) /\ head = c[1] /\ tail = c[number]
      /\ \A i \in 1..number : c[i] \in Addresses /\ c[i] # Null /\ c[i] \in DOMAIN node
      /\ \A i, j \in 1..number : c[i] = c[j] => i = j
      /\ DOMAIN node = {c[i] : i \in 1..number}
      /\ \A i \in 1..number : node[c[i]].object \in Contents
  BY ListAssumption DEF Ordered, Linked, At
<1>2. /\ DOMAIN node' = DOMAIN node \cup {n} /\ node' = [a \in DOMAIN node' |-> node'[a]]
      /\ node'[n] = New(c[p], At(c, number, p - 1), o)
      /\ \A i \in 1..number :
            node'[c[i]] = New(IF i + 1 = p THEN n ELSE At(c, number, i + 1),
                              IF i = p THEN n ELSE At(c, number, i - 1), node[c[i]].object)
      /\ head' = IF p = 1 THEN n ELSE head
      /\ tail' = tail /\ number' = m
  BY InsertLinks
<1>3. n \in Addresses /\ n \notin DOMAIN node
  BY DEF Free
<1>4. \A k \in 1..m : d[k] = IF k < p THEN c[k] ELSE IF k = p THEN n ELSE c[k - 1]
  BY DEF LongerAt
<1>5. \A i \in 1..number : Up(i) \in 1..m /\ d[Up(i)] = c[i] /\ Up(i) # p
  <2> SUFFICES ASSUME NEW i \in 1..number PROVE Up(i) \in 1..m /\ d[Up(i)] = c[i] /\ Up(i) # p
    OBVIOUS
  <2>1. PICK k : k = Up(i)
    OBVIOUS
  <2>2. k \in 1..m /\ k # p /\ (k < p => k = i) /\ (~(k < p) => k - 1 = i)
    BY <1>1, <2>1
  <2>3. d[k] = c[i]
    BY <1>4, <2>2
  <2> QED
    BY <2>1, <2>2, <2>3
<1>6. \A k \in 1..m : k = p \/ \E i \in 1..number : k = Up(i)
  <2>1. \A k \in 1..m : k < p => k \in 1..number /\ k = Up(k)
    BY <1>1
  <2>2. \A k \in 1..m : k > p => k - 1 \in 1..number /\ k = Up(k - 1)
    BY <1>1
  <2>3. \A k \in 1..m : k < p \/ k = p \/ k > p
    BY <1>1
  <2> QED
    BY <2>1, <2>2, <2>3
<1>7. d[p] = n /\ p \in 1..m
  BY <1>1, <1>4
<1>8. d \in [1..m -> Addresses]
  <2>1. \A k \in 1..m : d[k] \in Addresses
    <3> HIDE DEF Up
    <3> QED
      BY <1>1, <1>3, <1>5, <1>6, <1>7
  <2>2. d = [k \in 1..m |-> d[k]]
    BY DEF LongerAt
  <2> QED
    BY <2>1, <2>2
<1>9. ASSUME NEW k \in 1..m, NEW l \in 1..m, d[k] = d[l] PROVE k = l
  <2>1. (k = p /\ d[k] = n) \/ \E i \in 1..number : k = Up(i) /\ d[k] = c[i] /\ c[i] # n
    <3> HIDE DEF Up
    <3> QED
      BY <1>1, <1>3, <1>5, <1>6, <1>7
  <2>2. (l = p /\ d[l] = n) \/ \E i \in 1..number : l = Up(i) /\ d[l] = c[i] /\ c[i] # n
    <3> HIDE DEF Up
    <3> QED
      BY <1>1, <1>3, <1>5, <1>6, <1>7
  <2> HIDE DEF Up
  <2> QED
    BY <1>1, <1>9, <2>1, <2>2
<1>10. DOMAIN node' = {d[k] : k \in 1..m}
  <2>1. PICK D : D = DOMAIN node'
    OBVIOUS
  <2>2. PICK N : N = 1..m
    OBVIOUS
  <2>3. \A k \in N : d[k] \in D
    <3> SUFFICES ASSUME NEW k \in N PROVE d[k] \in D
      OBVIOUS
    <3> HIDE DEF Up
    <3>1. CASE k = p
      BY <1>2, <1>7, <2>1, <3>1
    <3>2. CASE k # p
      <4>1. PICK i \in 1..number : k = Up(i)
        BY <1>6, <2>2, <3>2
      <4>2. c[i] \in D
        BY <1>1, <1>2, <2>1
      <4> QED
        BY <1>5, <4>1, <4>2
    <3> QED
      BY <3>1, <3>2
  <2>4. \A a \in D : \E k \in N : a = d[k]
    <3> SUFFICES ASSUME NEW a \in D PROVE \E k \in N : a = d[k]
      OBVIOUS
    <3>1. CASE a = n
      BY <1>7, <2>2, <3>1
    <3>2. CASE a # n
      <4>1. PICK i \in 1..number : a = c[i]
        BY <1>1, <1>2, <2>1, <3>2
      <4> QED
        BY <1>5, <2>2, <4>1
    <3> QED
      BY <3>1, <3>2
  <2>5. D = {d[k] : k \in N}
    BY <2>3, <2>4
  <2> QED
    BY <2>1, <2>2, <2>5
<1>11. ASSUME NEW i \in 1..number
       PROVE  /\ node'[c[i]] = New(At(d, m, Up(i) + 1), At(d, m, Up(i) - 1), node[c[i]].object)
              /\ node'[c[i]].object = node[c[i]].object
  <2>1. node'[c[i]] = New(IF i + 1 = p THEN n ELSE At(c, number, i + 1),
                          IF i = p THEN n ELSE At(c, number, i - 1), node[c[i]].object)
    BY <1>2
  <2>2. At(d, m, Up(i) + 1) = IF i + 1 = p THEN n ELSE At(c, number, i + 1)
    <3>1. CASE i + 1 = p
      <4>1. Up(i) + 1 = p
        BY <1>1, <3>1
      <4> QED
        BY <1>7, <3>1, <4>1 DEF At
    <3>2. CASE i + 1 # p /\ i + 1 \in 1..number
      <4>1. Up(i) + 1 = Up(i + 1)
        BY <1>1, <3>2
      <4>2. At(d, m, Up(i + 1)) = c[i + 1]
        <5> HIDE DEF Up
        <5> QED
          BY <1>5, <3>2 DEF At
      <4> QED
        BY <3>2, <4>1, <4>2 DEF At
    <3>3. CASE i + 1 # p /\ i + 1 \notin 1..number
      <4>1. Up(i) + 1 \notin 1..m /\ i + 1 # p
        BY <1>1, <3>3
      <4> QED
        BY <3>3, <4>1 DEF At
    <3> QED
      BY <3>1, <3>2, <3>3
  <2>3. At(d, m, Up(i) - 1) = IF i = p THEN n ELSE At(c, number, i - 1)
    <3>1. CASE i = p
      <4>1. Up(i) - 1 = p
        BY <1>1, <3>1
      <4> QED
        BY <1>7, <3>1, <4>1 DEF At
    <3>2. CASE i # p /\ i - 1 \in 1..number
      <4>1. Up(i) - 1 = Up(i - 1)
        BY <1>1, <3>2
      <4>2. At(d, m, Up(i - 1)) = c[i - 1]
        <5> HIDE DEF Up
        <5> QED
          BY <1>5, <3>2 DEF At
      <4> QED
        BY <3>2, <4>1, <4>2 DEF At
    <3>3. CASE i # p /\ i - 1 \notin 1..number
      <4>1. Up(i) - 1 \notin 1..m /\ i # p
        BY <1>1, <3>3
      <4> QED
        BY <3>3, <4>1 DEF At
    <3> QED
      BY <3>1, <3>2, <3>3
  <2>4. node'[c[i]].object = node[c[i]].object
    BY <2>1 DEF New
  <2> HIDE DEF Up
  <2> QED
    BY <2>1, <2>2, <2>3, <2>4
<1>12. node'[n] = New(At(d, m, p + 1), At(d, m, p - 1), o)
  <2>1. At(d, m, p + 1) = c[p]
    <3>1. Up(p) = p + 1
      BY <1>1
    <3>2. p + 1 \in 1..m /\ d[p + 1] = c[p]
      BY <1>5, <3>1
    <3> QED
      BY <3>2 DEF At
  <2>2. At(d, m, p - 1) = At(c, number, p - 1)
    <3>1. CASE p - 1 \in 1..number
      <4>1. Up(p - 1) = p - 1
        BY <1>1
      <4>2. p - 1 \in 1..m /\ d[p - 1] = c[p - 1]
        BY <1>5, <3>1, <4>1
      <4> QED
        BY <3>1, <4>2 DEF At
    <3>2. CASE p - 1 \notin 1..number
      <4>1. p - 1 \notin 1..m
        BY <1>1, <3>2
      <4> QED
        BY <3>2, <4>1 DEF At
    <3> QED
      BY <3>1, <3>2
  <2> QED
    BY <1>2, <2>1, <2>2
<1>13. node'[n].object = o
  BY <1>12 DEF New
<1>14. ASSUME NEW k \in 1..m
       PROVE  /\ node'[d[k]].object \in Contents
              /\ node'[d[k]] = New(At(d, m, k + 1), At(d, m, k - 1), node'[d[k]].object)
  <2>1. CASE k = p
    BY <1>7, <1>12, <1>13, <2>1
  <2>2. ASSUME NEW i \in 1..number, k = Up(i)
        PROVE  /\ node'[d[k]].object \in Contents
               /\ node'[d[k]] = New(At(d, m, k + 1), At(d, m, k - 1), node'[d[k]].object)
    <3> HIDE DEF Up
    <3>1. d[k] = c[i]
      BY <1>5, <2>2
    <3> QED
      BY <1>1, <1>11, <2>2, <3>1
  <2> HIDE DEF Up
  <2> QED
    BY <1>6, <2>1, <2>2
<1>15. Linked(node', d, m)
  <2>1. m \in Nat /\ node' = [a \in DOMAIN node' |-> node'[a]]
    BY <1>1, <1>2
  <2>2. \A k, l \in 1..m : d[k] = d[l] => k = l
    BY <1>9
  <2> HIDE DEF m
  <2> QED
    BY <1>8, <1>10, <1>14, <2>1, <2>2 DEF Linked
<1>16. head' = At(d, m, 1)
  <2>1. CASE p = 1
    BY <1>1, <1>2, <1>7, <2>1 DEF At
  <2>2. CASE p # 1
    <3>1. 1 \in 1..m /\ 1 < p
      BY <1>1, <2>2
    <3> QED
      BY <1>1, <1>2, <1>4, <2>2, <3>1 DEF At
  <2> QED
    BY <2>1, <2>2
<1>17. tail' = At(d, m, m)
  <2>1. Up(number) = m /\ number \in 1..number
    BY <1>1
  <2>2. d[m] = c[number] /\ m \in 1..m
    BY <1>5, <2>1
  <2> QED
    BY <1>1, <1>2, <2>2 DEF At
<1> QED
  BY <1>1, <1>2, <1>5, <1>7, <1>11, <1>13, <1>15, <1>16, <1>17

(* A node inserted before another one is an object inserted; the traversal *)
(* stands where it stood. *)
LEMMA InsertedIs ==
    ASSUME NEW c, Ordered(c), NEW p \in 1..number, NEW n \in Free, NEW o \in Contents,
           InsertBefore(c[p], n, o), current' = current, currentIndex' = -1
    PROVE  /\ ListInv' /\ AsSequence' = InsertAt(AsSequence, p, o)
           /\ Standing' = IF Standing >= p THEN Standing + 1 ELSE Standing
<1>1. PICK d : d = LongerAt(c, number, p, n)
  OBVIOUS
<1>2. /\ Linked(node', d, number') /\ number' = number + 1 /\ number \in Nat
      /\ head' = At(d, number', 1) /\ tail' = At(d, number', number')
      /\ d[p] = n /\ node'[n].object = o
      /\ \A i \in 1..number : LET j == IF i < p THEN i ELSE i + 1
                              IN /\ j \in 1..number' /\ d[j] = c[i]
                                 /\ node'[c[i]].object = node[c[i]].object
  BY <1>1, InsertChain
<1>3. \A i \in 1..number : /\ i < p => i \in 1..number' /\ d[i] = c[i]
                           /\ ~(i < p) => i + 1 \in 1..number' /\ d[i + 1] = c[i]
                           /\ node'[c[i]].object = node[c[i]].object
  BY <1>2
<1>4. current' = Null \/ \E i \in 1..number' : current' = d[i]
  BY <1>3 DEF Ordered
<1>5. Ordered(d)'
  BY <1>2, <1>4 DEF Ordered, Linked, At
<1>6. AsSequence' = InsertAt(AsSequence, p, o)
  <2>1. AsSequence' = [i \in 1..number + 1 |-> node'[d[i]].object]
    BY <1>2, <1>5, RepresentedNext
  <2>2. /\ AsSequence \in Seq(Contents) /\ Len(AsSequence) = number
        /\ \A i \in 1..number : AsSequence[i] = node[c[i]].object
    BY ItemsAre
  <2>3. p \in 1..Len(AsSequence) + 1
    BY <1>2, <2>2
  <2>4. InsertAt(AsSequence, p, o)
           = [i \in 1..number + 1 |-> IF i < p THEN AsSequence[i] ELSE IF i = p THEN o ELSE AsSequence[i - 1]]
    BY <2>2, <2>3, InsertedAt
  <2>5. ASSUME NEW i \in 1..number + 1
        PROVE  node'[d[i]].object = IF i < p THEN AsSequence[i] ELSE IF i = p THEN o ELSE AsSequence[i - 1]
    <3>1. CASE i < p
      <4>1. i \in 1..number
        BY <1>2, <3>1
      <4> QED
        BY <1>3, <2>2, <3>1, <4>1
    <3>2. CASE i = p
      BY <1>2, <3>2
    <3>3. CASE i > p
      <4>1. PICK j : j = i - 1
        OBVIOUS
      <4>2. j \in 1..number /\ ~(j < p) /\ i = j + 1
        BY <1>2, <3>3, <4>1
      <4>3. d[i] = c[j] /\ node'[c[j]].object = AsSequence[j]
        BY <1>3, <2>2, <4>2
      <4> QED
        BY <3>3, <4>1, <4>3
    <3> QED
      BY <1>2, <3>1, <3>2, <3>3
  <2> QED
    BY <2>1, <2>4, <2>5
<1>7. Standing' = IF Standing >= p THEN Standing + 1 ELSE Standing
  <2>1. CASE current = Null
    <3>1. Standing = 0 /\ Standing' = 0
      BY <1>5, <2>1, Represented, RepresentedNext
    <3>2. p \in Nat /\ p > 0
      BY <1>2
    <3> QED
      BY <3>1, <3>2
  <2>2. CASE current # Null
    <3>1. PICK i \in 1..number : current = c[i]
      BY <2>2 DEF Ordered
    <3>2. Standing = i
      BY <3>1, Represented
    <3>3. CASE i < p
      <4>1. i \in 1..number' /\ current' = d[i]
        BY <1>3, <3>1, <3>3
      <4>2. Standing' = i
        BY <1>5, <4>1, RepresentedNext
      <4> QED
        BY <1>2, <3>2, <3>3, <4>2
    <3>4. CASE ~(i < p)
      <4>1. i + 1 \in 1..number' /\ current' = d[i + 1]
        BY <1>3, <3>1, <3>4
      <4>2. Standing' = i + 1
        BY <1>5, <4>1, RepresentedNext
      <4> QED
        BY <1>2, <3>2, <3>4, <4>2
    <3> QED
      BY <3>3, <3>4
  <2> QED
    BY <2>1, <2>2
<1> QED
  BY <1>5, <1>6, <1>7 DEF ListInv

(* The traversal stands at a place of the sequence or at the end. *)
LEMMA StandingIs ==
    ASSUME NEW c, Ordered(c)
    PROVE  /\ Standing \in 0..number /\ (Standing = 0 <=> current = Null)
           /\ Standing # 0 => current = c[Standing]
<1>1. CASE current = Null
  BY <1>1, Represented
<1>2. CASE current # Null
  <2>1. PICK i \in 1..number : current = c[i]
    BY <1>2 DEF Ordered
  <2>2. Standing = i /\ number \in Nat
    BY <2>1, Represented
  <2> QED
    BY <1>2, <2>1, <2>2
<1> QED
  BY <1>1, <1>2

(* Insert: the chain with the node in it is what the sequence becomes. *)
LEMMA ListInserts ==
    ASSUME NEW c, Ordered(c), NEW o \in Objects, NEW position \in Positions,
           InsertObject(o, position)
    PROVE  ListInv' /\ Promised!SeqNext
<1> DEFINE p == Min({position, Len(AsSequence)}) + 1
<1>1. /\ AsSequence \in Seq(Contents) /\ Len(AsSequence) = number /\ number \in Nat
      /\ position \in Nat /\ o \in Contents
  BY ItemsAre, ListAssumption DEF Contents
<1>2. /\ call' = <<"Insert", o, position>> /\ returned' = returned
      /\ current' = current /\ currentIndex' = -1
  BY DEF InsertObject
<1>3. PICK ln : ln = NodeAt(node, head, position)
  OBVIOUS
<1>4. PICK n \in Free : IF ln = Null THEN AppendAll(<<n>>, <<o>>) ELSE InsertBefore(ln, n, o)
  BY <1>3 DEF InsertObject
<1>5. ln = At(c, number, position + 1)
  BY <1>1, <1>3, StepsLead DEF Ordered
<1>6. p = IF position < number THEN position + 1 ELSE number + 1
  <2>1. Min({position, number}) = IF position < number THEN position ELSE number
    BY <1>1 DEF Min
  <2> QED
    BY <1>1, <2>1
<1> HIDE DEF p
<1>7. /\ ListInv' /\ AsSequence' = InsertAt(AsSequence, p, o)
      /\ Standing' = IF Standing >= p THEN Standing + 1 ELSE Standing
  <2>1. CASE position < number
    <3>1. position + 1 \in 1..number /\ p = position + 1
      BY <1>1, <1>6, <2>1
    <3>2. ln = c[p] /\ ln # Null
      BY <1>5, <3>1, Represented DEF At
    <3>3. InsertBefore(c[p], n, o)
      BY <1>4, <3>2
    <3> QED
      BY <1>1, <1>2, <3>1, <3>3, InsertedIs
  <2>2. CASE ~(position < number)
    <3>1. p = number + 1 /\ position + 1 \notin 1..number
      BY <1>1, <1>6, <2>2
    <3>2. AppendAll(<<n>>, <<o>>)
      BY <1>4, <1>5, <3>1 DEF At
    <3>3. Appends(1, <<n>>, <<o>>)
      <4>1. <<n>> \in [1..1 -> Free] /\ <<o>> \in [1..1 -> Contents]
        BY <1>1
      <4> QED
        BY <3>2, <4>1 DEF Appends
    <3>4. ListInv' /\ AsSequence' = Longer(AsSequence, number, <<o>>, 1) /\ Standing' = Standing
      BY <1>2, <3>3, AppendedIs
    <3>5. InsertAt(AsSequence, p, o)
             = [i \in 1..number + 1 |-> IF i < p THEN AsSequence[i]
                                        ELSE IF i = p THEN o ELSE AsSequence[i - 1]]
      <4>1. p \in 1..Len(AsSequence) + 1
        BY <1>1, <3>1
      <4>2. InsertAt(AsSequence, p, o)
               = [i \in 1..Len(AsSequence) + 1 |->
                    IF i < p THEN AsSequence[i] ELSE IF i = p THEN o ELSE AsSequence[i - 1]]
        BY <1>1, <4>1, InsertedAt
      <4>3. Len(AsSequence) = number
        BY <1>1
      <4> QED
        BY <4>2, <4>3, Zenon
    <3>6. \A i \in 1..number + 1 :
             (IF i <= number THEN AsSequence[i] ELSE <<o>>[i - number])
                = (IF i < p THEN AsSequence[i] ELSE IF i = p THEN o ELSE AsSequence[i - 1])
      BY <1>1, <3>1
    <3>7. AsSequence' = InsertAt(AsSequence, p, o)
      BY <3>4, <3>5, <3>6 DEF Longer
    <3>8. ~(Standing >= p)
      BY <1>1, <3>1, StandingIs
    <3> QED
      BY <3>4, <3>7, <3>8
  <2> QED
    BY <2>1, <2>2
<1>8. Promised!Changed(o) /\ UNCHANGED returned
  <2>1. p = Promised!Min({position, Len(AsSequence)}) + 1
    BY SameOperators DEF p
  <2>2. AsSequence' = Promised!InsertAt(AsSequence, p, o)
    BY <1>7, SameOperators
  <2> QED
    BY <1>2, <1>7, <2>1, <2>2 DEF Promised!Changed
<1> QED
  BY <1>7, <1>8 DEF Promised!SeqNext

(* A sequence that is filled up to a place. *)
LEMMA FilledIs ==
    ASSUME NEW n \in Nat
    PROVE  Promised!Filled(n + 1) = AsSequence \o [i \in 1..((n + 1) - Len(AsSequence)) |-> Nil]
  BY Zenon DEF Promised!Filled

(* The sequence that Assign leaves, place by place. *)
LEMMA AssignedAt ==
    ASSUME NEW c, Ordered(c), NEW o \in Contents, NEW n \in Nat
    PROVE  LET more == IF number < n + 1 THEN n + 1 - number ELSE 0
           IN [Promised!Filled(n + 1) EXCEPT ![n + 1] = o]
                 = [i \in 1..number + more |-> IF i = n + 1 THEN o
                                               ELSE IF i <= number THEN AsSequence[i] ELSE Nil]
<1> DEFINE more == IF number < n + 1 THEN n + 1 - number ELSE 0
<1>1. /\ AsSequence \in Seq(Contents) /\ Len(AsSequence) = number /\ number \in Nat
      /\ more \in Nat /\ n + 1 \in 1..number + more
  BY ItemsAre
<1>2. PICK t : t = [i \in 1..(n + 1 - number) |-> Nil]
  OBVIOUS
<1>3. t \in [1..more -> Contents] /\ \A i \in 1..more : t[i] = Nil
  <2>1. 1..(n + 1 - number) = 1..more
    BY <1>1
  <2>2. t = [i \in 1..more |-> Nil]
    BY <1>2, <2>1
  <2> HIDE DEF more
  <2> QED
    BY <2>2 DEF Contents
<1> HIDE DEF more
<1>4. t \in Seq(Contents) /\ Len(t) = more
  BY <1>1, <1>3, FunctionIsSeq
<1>5. PICK u : u = AsSequence \o t
  OBVIOUS
<1>6. /\ u \in Seq(Contents) /\ Len(u) = number + more
      /\ \A i \in 1..number + more : u[i] = IF i <= number THEN AsSequence[i] ELSE t[i - number]
  BY <1>1, <1>4, <1>5, ConcatProperties
<1>7. DOMAIN u = 1..number + more /\ u = [i \in DOMAIN u |-> u[i]]
  BY <1>6, LenProperties
<1>8. \A i \in 1..number + more : u[i] = IF i <= number THEN AsSequence[i] ELSE Nil
  <2>1. \A i \in 1..number + more : ~(i <= number) => i - number \in 1..more
    BY <1>1
  <2> QED
    BY <1>3, <1>6, <2>1
<1>9. Promised!Filled(n + 1) = u
  <2>1. Promised!Filled(n + 1) = AsSequence \o [i \in 1..((n + 1) - Len(AsSequence)) |-> Nil]
    BY FilledIs
  <2>2. [i \in 1..((n + 1) - Len(AsSequence)) |-> Nil] = t
    BY <1>1, <1>2
  <2> QED
    BY <1>5, <2>1, <2>2
<1>10. [u EXCEPT ![n + 1] = o]
          = [i \in 1..number + more |-> IF i = n + 1 THEN o ELSE IF i <= number THEN AsSequence[i] ELSE Nil]
  BY <1>7, <1>8
<1> QED
  BY <1>9, <1>10 DEF more

(* Assign, with null pointers appended first or at a node that there is. *)
LEMMA ListAssigns ==
    ASSUME NEW c, Ordered(c), NEW o \in Objects, NEW position \in Positions,
           AssignObject(o, position)
    PROVE  ListInv' /\ Promised!SeqNext
<1> DEFINE more == IF number < position + 1 THEN position + 1 - number ELSE 0
           assigned == [i \in 1..number + more |-> IF i = position + 1 THEN o
                                                   ELSE IF i <= number THEN AsSequence[i] ELSE Nil]
<1>1. /\ AsSequence \in Seq(Contents) /\ Len(AsSequence) = number /\ number \in Nat
      /\ position \in Nat /\ o \in Contents /\ more \in Nat
      /\ \A i \in 1..number : AsSequence[i] = node[c[i]].object
  BY ItemsAre, ListAssumption DEF Contents
<1>2. /\ call' = <<"Assign", o, position>> /\ returned' = returned
      /\ current' = current /\ currentIndex' = -1
  BY DEF AssignObject
<1>3. ASSUME more > 0
      PROVE  ListInv' /\ AsSequence' = assigned /\ Standing' = Standing
  <2>1. PICK s : s = [i \in 1..more |-> IF i = more THEN o ELSE Nil]
    OBVIOUS
  <2>2. PICK ns \in [1..more -> Free] : IsInjective(ns) /\ AppendAll(ns, s)
    BY <1>3, <2>1, Zenon DEF AssignObject
  <2>3. number + more = position + 1
    BY <1>1, <1>3
  <2>4. more \in Nat \ {0}
    BY <1>1, <1>3
  <2> HIDE DEF more
  <2>5. s \in [1..more -> Contents]
    BY <1>1, <2>1 DEF Contents
  <2>6. \A i, j \in 1..more : ns[i] = ns[j] => i = j
    BY <2>2 DEF IsInjective
  <2>7. Appends(more, ns, s)
    BY <2>2, <2>4, <2>5, <2>6 DEF Appends
  <2>8. ListInv' /\ AsSequence' = Longer(AsSequence, number, s, more) /\ Standing' = Standing
    BY <1>2, <2>7, AppendedIs
  <2>9. Longer(AsSequence, number, s, more) = assigned
    <3>1. ASSUME NEW i \in 1..number + more
          PROVE  (IF i <= number THEN AsSequence[i] ELSE s[i - number])
                    = IF i = position + 1 THEN o ELSE IF i <= number THEN AsSequence[i] ELSE Nil
      <4>1. i <= number => i # position + 1
        BY <1>1, <2>3, <2>4
      <4>2. ~(i <= number) => i - number \in 1..more
        BY <1>1, <2>4
      <4>3. ~(i <= number) => s[i - number] = IF i - number = more THEN o ELSE Nil
        BY <2>1, <4>2
      <4>4. i - number = more <=> i = position + 1
        BY <1>1, <2>3, <2>4
      <4> QED
        BY <4>1, <4>3, <4>4
    <3> QED
      BY <3>1 DEF Longer
  <2> HIDE DEF assigned
  <2>10. ListInv' /\ AsSequence' = assigned /\ Standing' = Standing
    BY <2>8, <2>9
  <2> QED
    BY <2>10
<1>4. ASSUME ~(more > 0)
      PROVE  ListInv' /\ AsSequence' = assigned /\ Standing' = Standing
  <2>1. position + 1 \in 1..number /\ more = 0 /\ number + more = number
    BY <1>1, <1>4
  <2>2. PICK a : a = c[position + 1]
    OBVIOUS
  <2>3. NodeAt(node, head, position) = a
    BY <1>1, <2>1, <2>2, StepsLead DEF Ordered, At
  <2>4. /\ node' = [node EXCEPT ![a].object = o]
        /\ head' = head /\ tail' = tail /\ number' = number
    BY <1>4, <2>3, Zenon DEF AssignObject
  <2>5. /\ DOMAIN node = {c[i] : i \in 1..number} /\ node = [b \in DOMAIN node |-> node[b]]
        /\ \A i, j \in 1..number : c[i] = c[j] => i = j
        /\ \A i \in 1..number : /\ node[c[i]].object \in Contents
                                /\ node[c[i]] = New(At(c, number, i + 1), At(c, number, i - 1), node[c[i]].object)
    BY DEF Ordered, Linked
  <2>6. node' = [node EXCEPT ![a] = [node[a] EXCEPT !.object = o]]
    BY <2>4
  <2>7. [node[a] EXCEPT !.object = o] = New(At(c, number, position + 2), At(c, number, position), o)
    <3>1. position + 1 + 1 = position + 2 /\ position + 1 - 1 = position
      BY <1>1
    <3>3. PICK k : k = position + 1
      OBVIOUS
    <3>4. node[c[k]] = New(At(c, number, k + 1), At(c, number, k - 1), node[c[k]].object)
      BY <2>1, <2>5, <3>3
    <3>5. c[k] = a /\ k + 1 = position + 2 /\ k - 1 = position
      BY <1>1, <2>2, <3>3
    <3>2. node[a] = New(At(c, number, position + 2), At(c, number, position), node[a].object)
      BY <3>4, <3>5
    <3> QED
      BY <3>2 DEF New
  <2>8. /\ DOMAIN node' = DOMAIN node /\ node' = [b \in DOMAIN node' |-> node'[b]]
        /\ a \in DOMAIN node
        /\ node'[a] = New(At(c, number, position + 2), At(c, number, position), o)
        /\ \A b \in DOMAIN node : b # a => node'[b] = node[b]
    BY <2>1, <2>2, <2>5, <2>6, <2>7
  <2>9. ASSUME NEW i \in 1..number
        PROVE  /\ node'[c[i]] = New(At(c, number, i + 1), At(c, number, i - 1), node'[c[i]].object)
               /\ node'[c[i]].object = IF i = position + 1 THEN o ELSE node[c[i]].object
    <3>1. CASE i = position + 1
      <4>1. i + 1 = position + 2 /\ i - 1 = position /\ c[i] = a
        BY <1>1, <2>2, <3>1
      <4>2. node'[c[i]] = New(At(c, number, i + 1), At(c, number, i - 1), o)
        BY <2>8, <4>1
      <4>3. node'[c[i]].object = o
        BY <4>2 DEF New
      <4> QED
        BY <3>1, <4>2, <4>3
    <3>2. CASE i # position + 1
      <4>1. c[i] # a /\ c[i] \in DOMAIN node
        BY <2>1, <2>2, <2>5, <3>2
      <4> QED
        BY <2>5, <2>8, <3>2, <4>1
    <3> QED
      BY <3>1, <3>2
  <2>10. Linked(node', c, number)
    <3>1. number \in Nat /\ c \in [1..number -> Addresses]
      BY DEF Ordered, Linked
    <3> QED
      BY <1>1, <2>5, <2>8, <2>9, <3>1 DEF Linked
  <2>11. Ordered(c)'
    BY <1>2, <2>4, <2>10 DEF Ordered, Linked, At
  <2>12. AsSequence' = assigned
    <3>1. AsSequence' = [i \in 1..number |-> node'[c[i]].object]
      BY <2>4, <2>11, RepresentedNext
    <3>2. \A i \in 1..number : node'[c[i]].object = IF i = position + 1 THEN o
                                                    ELSE IF i <= number THEN AsSequence[i] ELSE Nil
      <4>1. \A i \in 1..number : i <= number
        BY <1>1
      <4>2. \A i \in 1..number : AsSequence[i] = node[c[i]].object
        BY <1>1
      <4> QED
        BY <2>9, <4>1, <4>2
    <3> QED
      BY <2>1, <3>1, <3>2
  <2>13. Standing' = Standing
    BY <1>2, <2>4, <2>11, Represented, RepresentedNext DEF Ordered
  <2> HIDE DEF assigned
  <2> QED
    BY <2>11, <2>12, <2>13 DEF ListInv
<1>5. assigned = [Promised!Filled(position + 1) EXCEPT ![position + 1] = o]
  BY <1>1, AssignedAt
<1> HIDE DEF assigned
<1>6. ListInv' /\ AsSequence' = assigned /\ Standing' = Standing
  <2> HIDE DEF more
  <2> QED
    BY <1>3, <1>4
<1>7. Promised!Changed(o) /\ UNCHANGED returned
  BY <1>2, <1>5, <1>6 DEF Promised!Changed
<1> QED
  BY <1>6, <1>7 DEF Promised!SeqNext

-----------------------------------------------------------------------------
(* The first node with an object, and the first place of it. *)
LEMMA FirstPlace ==
    ASSUME NEW c, Ordered(c), NEW o
    PROVE  /\ Holds(o) <=> o \in ToSet(AsSequence)
           /\ Holds(o) => \E p \in 1..number :
                             /\ AsSequence[p] = o /\ \A q \in 1..p - 1 : AsSequence[q] # o
                             /\ Promised!First(o) = p /\ FromHead(o) = c[p]
<1>1. /\ AsSequence \in Seq(Contents) /\ Len(AsSequence) = number /\ number \in Nat
      /\ \A i \in 1..number : AsSequence[i] = node[c[i]].object
  BY ItemsAre
<1>2. DOMAIN AsSequence = 1..number
  BY <1>1, LenProperties
<1>3. DOMAIN node = {c[i] : i \in 1..number}
  BY DEF Ordered, Linked
<1>4. Holds(o) <=> \E i \in 1..number : AsSequence[i] = o
  BY <1>1, <1>3 DEF Holds
<1>5. o \in ToSet(AsSequence) <=> \E i \in 1..number : AsSequence[i] = o
  BY <1>2 DEF ToSet
<1>6. ASSUME Holds(o)
      PROVE  \E p \in 1..number :
                /\ AsSequence[p] = o /\ \A q \in 1..p - 1 : AsSequence[q] # o
                /\ Promised!First(o) = p /\ FromHead(o) = c[p]
  <2> DEFINE S == {i \in 1..number : AsSequence[i] = o}
  <2>1. S \subseteq Nat /\ S # {}
    BY <1>4, <1>6
  <2>2. PICK p \in S : \A q \in S : p <= q
    <3> HIDE DEF S
    <3> QED
      BY <2>1, LeastOf
  <2>3. p \in 1..number /\ AsSequence[p] = o /\ \A q \in 1..p - 1 : AsSequence[q] # o
    <3>1. \A q \in 1..p - 1 : q \in 1..number /\ ~(p <= q)
      BY <1>1, <2>2
    <3> QED
      BY <2>2, <3>1
  <2>4. Promised!First(o) = p
    <3>1. \A r \in 1..number : AsSequence[r] = o /\ (\A q \in 1..r - 1 : AsSequence[q] # o) => r = p
      <4> SUFFICES ASSUME NEW r \in 1..number, AsSequence[r] = o,
                          \A q \in 1..r - 1 : AsSequence[q] # o
                   PROVE  r = p
        OBVIOUS
      <4>1. ~(r < p) /\ ~(p < r)
        BY <1>1, <2>3
      <4> QED
        BY <1>1, <2>3, <4>1
    <3>2. Promised!SeqPlaces = 1..number
      BY <1>1 DEF Promised!SeqPlaces
    <3> QED
      BY <2>3, <3>1, <3>2 DEF Promised!First
  <2>5. FromHead(o) = c[p]
    <3>1. \A k \in 0..number - 1 : NodeAt(node, head, k) = c[k + 1]
      BY <1>1, StepsLead DEF Ordered, At
    <3>2. \A k \in 0..number - 1 : node[NodeAt(node, head, k)].object = AsSequence[k + 1]
      BY <1>1, <3>1
    <3> DEFINE P(k) == /\ node[NodeAt(node, head, k)].object = o
                       /\ \A j \in 0..k - 1 : node[NodeAt(node, head, j)].object # o
    <3>3. p - 1 \in 0..number - 1 /\ P(p - 1)
      <4>1. p - 1 \in 0..number - 1 /\ p - 1 + 1 = p
        BY <1>1, <2>3
      <4>2. \A j \in 0..p - 1 - 1 : j \in 0..number - 1 /\ j + 1 \in 1..p - 1
        BY <1>1, <2>3
      <4> QED
        BY <2>3, <3>2, <4>1, <4>2
    <3>4. ASSUME NEW k \in 0..number - 1, P(k) PROVE k = p - 1
      <4>1. ~(k < p - 1)
        BY <1>1, <2>3, <3>2, <3>4
      <4>2. ~(p - 1 < k)
        BY <1>1, <2>3, <3>3, <3>4
      <4> QED
        BY <1>1, <2>3, <4>1, <4>2
    <3>5. (CHOOSE k \in 0..number - 1 : P(k)) = p - 1
      <4> HIDE DEF P
      <4> QED
        BY <3>3, <3>4
    <3>6. FromHead(o) = NodeAt(node, head, p - 1)
      BY <3>5 DEF FromHead
    <3> QED
      BY <1>1, <2>3, <3>1, <3>3, <3>6
  <2> QED
    BY <2>3, <2>4, <2>5
<1> QED
  BY <1>4, <1>5, <1>6

ShorterAt(c, n, p) == [i \in 1..n - 1 |-> IF i < p THEN c[i] ELSE c[i + 1]]

(* The links after the p-th node was taken out. *)
LEMMA UnlinkLinks ==
    ASSUME NEW c, Ordered(c), NEW p \in 1..number, Unlink(c[p])
    PROVE  /\ DOMAIN node' = DOMAIN node \ {c[p]} /\ node' = [a \in DOMAIN node' |-> node'[a]]
           /\ \A i \in 1..number :
                 i # p => node'[c[i]] = New(IF i + 1 = p THEN At(c, number, p + 1) ELSE At(c, number, i + 1),
                                            IF i - 1 = p THEN At(c, number, p - 1) ELSE At(c, number, i - 1),
                                            node[c[i]].object)
           /\ head' = IF p = 1 THEN At(c, number, 2) ELSE head
           /\ tail' = IF p = number THEN At(c, number, number - 1) ELSE tail
           /\ number' = number - 1
<1>1. /\ number \in Nat /\ Linked(node, c, number) /\ head = c[1] /\ tail = c[number]
      /\ \A i \in 1..number : c[i] # Null /\ c[i] \in DOMAIN node
      /\ \A i, j \in 1..number : c[i] = c[j] => i = j
      /\ DOMAIN node = {c[i] : i \in 1..number}
      /\ node = [a \in DOMAIN node |-> node[a]]
      /\ 1 \in 1..number /\ number \in 1..number
  BY ListAssumption DEF Ordered, Linked, At
<1>2. \A i \in 1..number : node[c[i]] = New(At(c, number, i + 1), At(c, number, i - 1), node[c[i]].object)
  BY <1>1 DEF Linked
<1>3. /\ c[p] = head <=> p = 1
      /\ c[p] = tail <=> p = number
      /\ head = tail <=> number = 1
  BY <1>1
<1>4. node[c[p]].next = At(c, number, p + 1) /\ node[c[p]].prev = At(c, number, p - 1)
  <2>1. node[c[p]] = New(At(c, number, p + 1), At(c, number, p - 1), node[c[p]].object)
    BY <1>2
  <2> QED
    BY <2>1 DEF New
<1>5. PICK f : f = Deleted(c[p])
  OBVIOUS
<1>6. /\ DOMAIN f = DOMAIN node \ {c[p]} /\ f = [a \in DOMAIN f |-> f[a]]
      /\ \A i \in 1..number : i # p => c[i] \in DOMAIN f /\ f[c[i]] = node[c[i]]
  BY <1>1, <1>5 DEF Deleted
<1> DEFINE Good(i) == node'[c[i]] = New(IF i + 1 = p THEN At(c, number, p + 1) ELSE At(c, number, i + 1),
                                        IF i - 1 = p THEN At(c, number, p - 1) ELSE At(c, number, i - 1),
                                        node[c[i]].object)
<1>7. CASE number = 1
  <2>1. p = 1 /\ At(c, number, 2) = Null /\ At(c, number, number - 1) = Null
    BY <1>7 DEF At
  <2>2. head' = Null /\ tail' = Null /\ node' = f /\ number' = number - 1
    BY <1>3, <1>5, <1>7 DEF Unlink
  <2>3. \A i \in 1..number : i = p
    BY <1>7, <2>1
  <2> QED
    BY <1>6, <1>7, <2>1, <2>2, <2>3
<1>8. CASE number # 1 /\ p = 1
  <2>1. At(c, number, 2) = c[2] /\ 2 \in 1..number /\ At(c, number, p + 1) = c[2] /\ At(c, number, p - 1) = Null
    BY <1>1, <1>8 DEF At
  <2>2. head' = c[2] /\ node' = SetPrev(f, c[2], Null) /\ tail' = tail /\ number' = number - 1
    BY <1>3, <1>4, <1>5, <1>8, <2>1 DEF Unlink
  <2>3. c[2] \in DOMAIN f /\ c[2] # Null
        /\ f[c[2]] = New(At(c, number, 3), At(c, number, 1), node[c[2]].object)
    BY <1>1, <1>2, <1>6, <1>8, <2>1
  <2>4. /\ DOMAIN node' = DOMAIN f /\ node' = [a \in DOMAIN f |-> node'[a]]
        /\ node'[c[2]] = New(At(c, number, 3), Null, node[c[2]].object)
        /\ \A a \in DOMAIN f : a # c[2] => node'[a] = f[a]
    BY <1>6, <2>2, <2>3, PrevSet
  <2>5. ASSUME NEW i \in 1..number, i # p PROVE Good(i)
    <3>1. CASE i = 2
      <4>1. i + 1 = 3 /\ i + 1 # p /\ i - 1 = p
        BY <1>8, <3>1
      <4> QED
        BY <2>1, <2>4, <3>1, <4>1
    <3>2. CASE i # 2
      <4>1. i + 1 # p /\ i - 1 # p /\ c[i] # c[2] /\ c[i] \in DOMAIN f
        BY <1>1, <1>6, <1>8, <2>1, <2>5, <3>2
      <4> QED
        BY <1>2, <1>6, <2>4, <2>5, <4>1
    <3> QED
      BY <3>1, <3>2
  <2> HIDE DEF Good
  <2>6. p # number
    BY <1>8
  <2>7. /\ head' = IF p = 1 THEN At(c, number, 2) ELSE head
        /\ tail' = IF p = number THEN At(c, number, number - 1) ELSE tail
    BY <1>8, <2>1, <2>2, <2>6
  <2> QED
    BY <1>6, <2>2, <2>4, <2>5, <2>7 DEF Good
<1>9. CASE number # 1 /\ p # 1 /\ p = number
  <2> DEFINE l == number - 1
  <2>1. /\ l \in 1..number /\ l # p /\ At(c, number, p - 1) = c[l] /\ At(c, number, p + 1) = Null
        /\ l + 1 = p
    BY <1>1, <1>9 DEF At
  <2>2. tail' = c[l] /\ node' = SetNext(f, c[l], Null) /\ head' = head /\ number' = number - 1
    BY <1>3, <1>4, <1>5, <1>9, <2>1 DEF Unlink
  <2> HIDE DEF l
  <2>3. c[l] \in DOMAIN f /\ c[l] # Null
        /\ f[c[l]] = New(At(c, number, p), At(c, number, l - 1), node[c[l]].object)
    BY <1>1, <1>2, <1>6, <2>1
  <2>4. /\ DOMAIN node' = DOMAIN f /\ node' = [a \in DOMAIN f |-> node'[a]]
        /\ node'[c[l]] = New(Null, At(c, number, l - 1), node[c[l]].object)
        /\ \A a \in DOMAIN f : a # c[l] => node'[a] = f[a]
    BY <1>6, <2>2, <2>3, NextSet
  <2>5. ASSUME NEW i \in 1..number, i # p PROVE Good(i)
    <3>1. i - 1 # p
      BY <1>1, <1>9
    <3>2. CASE i = l
      BY <2>1, <2>4, <3>1, <3>2
    <3>3. CASE i # l
      <4>1. i + 1 # p /\ c[i] # c[l] /\ c[i] \in DOMAIN f
        BY <1>1, <1>6, <2>1, <2>5, <3>3
      <4> QED
        BY <1>2, <1>6, <2>4, <2>5, <3>1, <4>1
    <3> QED
      BY <3>2, <3>3
  <2> HIDE DEF Good
  <2>7. /\ head' = IF p = 1 THEN At(c, number, 2) ELSE head
        /\ tail' = IF p = number THEN At(c, number, number - 1) ELSE tail
    BY <1>9, <2>1, <2>2 DEF l
  <2> QED
    BY <1>6, <2>2, <2>4, <2>5, <2>7 DEF Good
<1>10. CASE p # 1 /\ p # number
  <2>1. PICK l, r : l = p - 1 /\ r = p + 1
    OBVIOUS
  <2>2. /\ l \in 1..number /\ r \in 1..number /\ l # p /\ r # p /\ l # r /\ l + 1 = p /\ r - 1 = p
        /\ At(c, number, p - 1) = c[l] /\ At(c, number, p + 1) = c[r] /\ number # 1
    BY <1>1, <1>10, <2>1 DEF At
  <2>3. PICK g : g = SetNext(f, c[l], c[r])
    OBVIOUS
  <2>4. node' = SetPrev(g, c[r], c[l]) /\ head' = head /\ tail' = tail /\ number' = number - 1
    BY <1>3, <1>4, <1>5, <1>10, <2>2, <2>3 DEF Unlink
  <2>5. c[l] \in DOMAIN f /\ c[l] # Null
        /\ f[c[l]] = New(At(c, number, p), At(c, number, l - 1), node[c[l]].object)
    BY <1>1, <1>2, <1>6, <2>2
  <2>6. /\ DOMAIN g = DOMAIN f /\ g = [a \in DOMAIN f |-> g[a]]
        /\ g[c[l]] = New(c[r], At(c, number, l - 1), node[c[l]].object)
        /\ \A a \in DOMAIN f : a # c[l] => g[a] = f[a]
    BY <1>6, <2>3, <2>5, NextSet
  <2>7. c[r] \in DOMAIN g /\ c[r] # Null /\ c[r] # c[l]
        /\ g[c[r]] = New(At(c, number, r + 1), At(c, number, p), node[c[r]].object)
    <3>1. c[r] \in DOMAIN f /\ f[c[r]] = node[c[r]] /\ c[r] # Null /\ c[r] # c[l]
      BY <1>1, <1>6, <2>2
    <3>2. node[c[r]] = New(At(c, number, r + 1), At(c, number, r - 1), node[c[r]].object)
      BY <1>2, <2>2
    <3> QED
      BY <2>2, <2>6, <3>1, <3>2
  <2>8. /\ DOMAIN node' = DOMAIN g /\ node' = [a \in DOMAIN g |-> node'[a]]
        /\ node'[c[r]] = New(At(c, number, r + 1), c[l], node[c[r]].object)
        /\ \A a \in DOMAIN g : a # c[r] => node'[a] = g[a]
    BY <2>4, <2>6, <2>7, PrevSet
  <2>9. ASSUME NEW i \in 1..number, i # p PROVE Good(i)
    <3>1. CASE i = l
      <4>1. i + 1 = p /\ i - 1 # p
        BY <1>1, <2>2, <3>1
      <4>2. node'[c[i]] = New(c[r], At(c, number, i - 1), node[c[i]].object)
        BY <2>5, <2>6, <2>7, <2>8, <3>1
      <4> QED
        BY <2>2, <4>1, <4>2
    <3>2. CASE i = r
      <4>1. i - 1 = p /\ i + 1 # p
        BY <1>1, <2>2, <3>2
      <4>2. node'[c[i]] = New(At(c, number, i + 1), c[l], node[c[i]].object)
        BY <2>8, <3>2
      <4> QED
        BY <2>2, <4>1, <4>2
    <3>3. CASE i # l /\ i # r
      <4>1. i + 1 # p /\ i - 1 # p /\ c[i] # c[l] /\ c[i] # c[r] /\ c[i] \in DOMAIN f
        BY <1>1, <1>6, <2>1, <2>2, <2>9, <3>3
      <4>2. node'[c[i]] = node[c[i]]
        BY <1>6, <2>6, <2>8, <2>9, <4>1
      <4> QED
        BY <1>2, <4>1, <4>2
    <3> QED
      BY <3>1, <3>2, <3>3
  <2> HIDE DEF Good
  <2> QED
    BY <1>6, <1>10, <2>4, <2>6, <2>8, <2>9 DEF Good
<1> QED
  BY <1>7, <1>8, <1>9, <1>10

(* The chain with a node less. *)
LEMMA RemoveChain ==
    ASSUME NEW c, Ordered(c), NEW p \in 1..number, Unlink(c[p]),
           NEW d, d = ShorterAt(c, number, p)
    PROVE  /\ Linked(node', d, number') /\ number' = number - 1 /\ number \in Nat
           /\ head' = At(d, number', 1) /\ tail' = At(d, number', number')
           /\ \A k \in 1..number' : LET i == IF k < p THEN k ELSE k + 1
                                    IN /\ i \in 1..number /\ d[k] = c[i]
                                       /\ node'[c[i]].object = node[c[i]].object
<1> DEFINE m == number - 1
           Up(k) == IF k < p THEN k ELSE k + 1
<1>1. /\ number \in Nat /\ m \in Nat /\ Linked(node, c, number) /\ head = c[1] /\ tail = c[number]
      /\ \A i \in 1..number : c[i] \in Addresses /\ c[i] # Null /\ c[i] \in DOMAIN node
      /\ \A i, j \in 1..number : c[i] = c[j] => i = j
      /\ DOMAIN node = {c[i] : i \in 1..number}
      /\ \A i \in 1..number : node[c[i]].object \in Contents
  BY ListAssumption DEF Ordered, Linked, At
<1>2. /\ DOMAIN node' = DOMAIN node \ {c[p]} /\ node' = [a \in DOMAIN node' |-> node'[a]]
      /\ \A i \in 1..number :
            i # p => node'[c[i]] = New(IF i + 1 = p THEN At(c, number, p + 1) ELSE At(c, number, i + 1),
                                       IF i - 1 = p THEN At(c, number, p - 1) ELSE At(c, number, i - 1),
                                       node[c[i]].object)
      /\ head' = IF p = 1 THEN At(c, number, 2) ELSE head
      /\ tail' = IF p = number THEN At(c, number, number - 1) ELSE tail
      /\ number' = m
  BY UnlinkLinks
<1>3. \A k \in 1..m : d[k] = IF k < p THEN c[k] ELSE c[k + 1]
  BY DEF ShorterAt
<1>4. \A k \in 1..m : Up(k) \in 1..number /\ d[k] = c[Up(k)] /\ Up(k) # p
  BY <1>1, <1>3
<1>5. \A i \in 1..number : i = p \/ \E k \in 1..m : i = Up(k)
  <2>1. \A i \in 1..number : i < p => i \in 1..m /\ i = Up(i)
    BY <1>1
  <2>2. \A i \in 1..number : i > p => i - 1 \in 1..m /\ i = Up(i - 1)
    BY <1>1
  <2>3. \A i \in 1..number : i < p \/ i = p \/ i > p
    BY <1>1
  <2> QED
    BY <2>1, <2>2, <2>3
<1>6. d \in [1..m -> Addresses]
  <2>1. \A k \in 1..m : d[k] \in Addresses
    BY <1>1, <1>4
  <2>2. d = [k \in 1..m |-> d[k]]
    BY DEF ShorterAt
  <2> QED
    BY <2>1, <2>2
<1>7. ASSUME NEW k \in 1..m, NEW l \in 1..m, d[k] = d[l] PROVE k = l
  <2>1. Up(k) = Up(l)
    <3> HIDE DEF Up
    <3> QED
      BY <1>1, <1>4, <1>7
  <2> QED
    BY <1>1, <2>1
<1>8. DOMAIN node' = {d[k] : k \in 1..m}
  <2>1. PICK D : D = DOMAIN node'
    OBVIOUS
  <2>2. PICK N : N = 1..m
    OBVIOUS
  <2>3. \A k \in N : d[k] \in D
    <3> HIDE DEF Up
    <3> QED
      BY <1>1, <1>2, <1>4, <2>1, <2>2
  <2>4. \A a \in D : \E k \in N : a = d[k]
    <3> SUFFICES ASSUME NEW a \in D PROVE \E k \in N : a = d[k]
      OBVIOUS
    <3>1. PICK i \in 1..number : a = c[i] /\ i # p
      BY <1>1, <1>2, <2>1
    <3> HIDE DEF Up
    <3> QED
      BY <1>4, <1>5, <2>2, <3>1
  <2>5. D = {d[k] : k \in N}
    BY <2>3, <2>4
  <2> QED
    BY <2>1, <2>2, <2>5
<1>9. ASSUME NEW k \in 1..m
      PROVE  /\ node'[d[k]] = New(At(d, m, k + 1), At(d, m, k - 1), node'[d[k]].object)
             /\ node'[d[k]].object = node[c[Up(k)]].object
             /\ node'[d[k]].object \in Contents
  <2>1. PICK i : i = Up(k)
    OBVIOUS
  <2>2. i \in 1..number /\ d[k] = c[i] /\ i # p /\ (k < p => i = k) /\ (~(k < p) => i = k + 1)
    BY <1>4, <2>1
  <2>3. node'[d[k]] = New(IF i + 1 = p THEN At(c, number, p + 1) ELSE At(c, number, i + 1),
                          IF i - 1 = p THEN At(c, number, p - 1) ELSE At(c, number, i - 1),
                          node[c[i]].object)
    BY <1>2, <2>2
  <2>4. At(d, m, k + 1) = IF i + 1 = p THEN At(c, number, p + 1) ELSE At(c, number, i + 1)
    <3>1. CASE k + 1 \in 1..m
      <4>1. Up(k + 1) = IF i + 1 = p THEN p + 1 ELSE i + 1
        BY <1>1, <2>2
      <4>2. At(d, m, k + 1) = c[Up(k + 1)] /\ Up(k + 1) \in 1..number
        <5> HIDE DEF Up
        <5> QED
          BY <1>4, <3>1 DEF At
      <4> HIDE DEF Up
      <4>3. At(c, number, Up(k + 1)) = c[Up(k + 1)]
        BY <4>2 DEF At
      <4> QED
        BY <4>1, <4>2, <4>3
    <3>2. CASE k + 1 \notin 1..m
      <4>1. /\ i + 1 = p => p + 1 \notin 1..number
            /\ i + 1 # p => i + 1 \notin 1..number
        BY <1>1, <2>2, <3>2
      <4> QED
        BY <3>2, <4>1 DEF At
    <3> QED
      BY <3>1, <3>2
  <2>5. At(d, m, k - 1) = IF i - 1 = p THEN At(c, number, p - 1) ELSE At(c, number, i - 1)
    <3>1. CASE k - 1 \in 1..m
      <4>1. Up(k - 1) = IF i - 1 = p THEN p - 1 ELSE i - 1
        BY <1>1, <2>2
      <4>2. At(d, m, k - 1) = c[Up(k - 1)] /\ Up(k - 1) \in 1..number
        <5> HIDE DEF Up
        <5> QED
          BY <1>4, <3>1 DEF At
      <4> HIDE DEF Up
      <4>3. At(c, number, Up(k - 1)) = c[Up(k - 1)]
        BY <4>2 DEF At
      <4> QED
        BY <4>1, <4>2, <4>3
    <3>2. CASE k - 1 \notin 1..m
      <4>1. /\ i - 1 = p => p - 1 \notin 1..number
            /\ i - 1 # p => i - 1 \notin 1..number
        BY <1>1, <2>2, <3>2
      <4> QED
        BY <3>2, <4>1 DEF At
    <3> QED
      BY <3>1, <3>2
  <2>6. node'[d[k]].object = node[c[i]].object
    BY <2>3 DEF New
  <2> HIDE DEF Up
  <2> QED
    BY <1>1, <2>1, <2>2, <2>3, <2>4, <2>5, <2>6
<1>10. Linked(node', d, m)
  BY <1>1, <1>2, <1>6, <1>7, <1>8, <1>9 DEF Linked
<1>11. head' = At(d, m, 1)
  <2>1. CASE p = 1
    <3>1. m = 0 => At(c, number, 2) = Null /\ At(d, m, 1) = Null
      BY <1>1 DEF At
    <3>2. m # 0 => At(c, number, 2) = c[2] /\ At(d, m, 1) = c[2]
      BY <1>1, <1>3, <2>1 DEF At
    <3> QED
      BY <1>2, <2>1, <3>1, <3>2
  <2>2. CASE p # 1
    <3>1. 1 \in 1..m /\ 1 < p
      BY <1>1, <2>2
    <3> QED
      BY <1>1, <1>2, <1>3, <2>2, <3>1 DEF At
  <2> QED
    BY <2>1, <2>2
<1>12. tail' = At(d, m, m)
  <2>1. CASE m = 0
    <3>1. p = number /\ At(c, number, number - 1) = Null /\ At(d, m, m) = Null
      BY <1>1, <2>1 DEF At
    <3> QED
      BY <1>2, <3>1
  <2>2. CASE m # 0 /\ p = number
    <3>1. m \in 1..m /\ m < p /\ At(c, number, number - 1) = c[m]
      BY <1>1, <2>2 DEF At
    <3> QED
      BY <1>2, <1>3, <2>2, <3>1 DEF At
  <2>3. CASE m # 0 /\ p # number
    <3>1. m \in 1..m /\ ~(m < p) /\ m + 1 = number
      BY <1>1, <2>3
    <3>2. d[m] = c[m + 1]
      BY <1>3, <3>1
    <3> QED
      BY <1>1, <1>2, <2>3, <3>1, <3>2 DEF At
  <2> QED
    BY <2>1, <2>2, <2>3
<1>13. \A k \in 1..m : node'[c[Up(k)]].object = node[c[Up(k)]].object
  <2> HIDE DEF Up
  <2> QED
    BY <1>4, <1>9
<1> QED
  BY <1>1, <1>2, <1>4, <1>10, <1>11, <1>12, <1>13

(* Remove: the first node with the object leaves the chain, and a          *)
(* traversal that stands at it goes on behind it. *)
LEMMA ListRemoves ==
    ASSUME NEW c, Ordered(c), NEW o \in Objects, RemoveObject(o)
    PROVE  ListInv' /\ Promised!SeqNext
<1>1. call' = <<"Remove", o>> /\ returned' = returned
  BY DEF RemoveObject
<1>2. CASE ~Holds(o)
  <2>1. UNCHANGED <<linkVars, current, currentIndex>> /\ o \notin ToSet(AsSequence)
    BY <1>2, FirstPlace DEF RemoveObject
  <2>2. UNCHANGED <<node, head, tail, number, current, currentIndex>>
    BY <2>1 DEF linkVars
  <2>3. Ordered(c)'
    BY <2>2 DEF Ordered, Linked, At
  <2>4. AsSequence' = AsSequence /\ Standing' = Standing
    BY <2>2 DEF AsSequence, Standing, NodeAt
  <2>5. Promised!Changed(o)
    <3>1. o \notin Promised!ToSet(AsSequence)
      BY <2>1, SameOperators
    <3> QED
      BY <1>1, <2>4, <3>1 DEF Promised!Changed
  <2> QED
    BY <1>1, <2>3, <2>5 DEF ListInv, Promised!SeqNext
<1>3. CASE Holds(o)
  <2>1. PICK p \in 1..number :
           /\ AsSequence[p] = o /\ \A q \in 1..p - 1 : AsSequence[q] # o
           /\ Promised!First(o) = p /\ FromHead(o) = c[p] /\ o \in ToSet(AsSequence)
    BY <1>3, FirstPlace
  <2>2. Unlink(c[p]) /\ current' = MovesOn(c[p]) /\ currentIndex' = -1
    BY <1>3, <2>1 DEF RemoveObject
  <2>3. PICK d : d = ShorterAt(c, number, p)
    OBVIOUS
  <2>4. /\ Linked(node', d, number') /\ number' = number - 1 /\ number \in Nat
        /\ head' = At(d, number', 1) /\ tail' = At(d, number', number')
        /\ \A k \in 1..number' : LET i == IF k < p THEN k ELSE k + 1
                                 IN /\ i \in 1..number /\ d[k] = c[i]
                                    /\ node'[c[i]].object = node[c[i]].object
    BY <2>2, <2>3, RemoveChain
  <2>5. \A k \in 1..number' : /\ k < p => k \in 1..number /\ d[k] = c[k]
                              /\ ~(k < p) => k + 1 \in 1..number /\ d[k] = c[k + 1]
    BY <2>4
  <2>6. /\ AsSequence \in Seq(Contents) /\ Len(AsSequence) = number
        /\ \A i \in 1..number : AsSequence[i] = node[c[i]].object
    BY ItemsAre
  <2>7. /\ Standing \in 0..number /\ (Standing = 0 <=> current = Null)
        /\ Standing # 0 => current = c[Standing]
    BY StandingIs
  <2> DEFINE next == CASE Standing > p -> Standing - 1
                       [] Standing = p /\ p = number -> 0
                       [] OTHER -> Standing
  <2>8. /\ next \in 0..number' /\ (next = 0 => current' = Null)
        /\ next # 0 => current' = d[next]
    <3>1. node[c[p]].next = At(c, number, p + 1)
      <4>1. node[c[p]] = New(At(c, number, p + 1), At(c, number, p - 1), node[c[p]].object)
        BY DEF Ordered, Linked
      <4> QED
        BY <4>1 DEF New
    <3>2. \A i, j \in 1..number : c[i] = c[j] => i = j
      BY DEF Ordered, Linked
    <3>3. \A i \in 1..number : c[i] # Null
      BY Represented
    <3>4. CASE Standing = 0
      <4>1. current' = Null
        BY <2>2, <2>7, <3>3, <3>4 DEF MovesOn
      <4>2. next = 0
        BY <2>4, <3>4
      <4> QED
        BY <2>4, <4>1, <4>2
    <3>5. CASE Standing = p
      <4>1. current' = At(c, number, p + 1)
        BY <2>2, <2>4, <2>7, <3>1, <3>5 DEF MovesOn
      <4>2. CASE p = number
        <5>1. next = 0 /\ p + 1 \notin 1..number
          BY <2>4, <3>5, <4>2
        <5> QED
          BY <2>4, <4>1, <5>1 DEF At
      <4>3. CASE p # number
        <5>1. next = p /\ p + 1 \in 1..number /\ p \in 1..number' /\ ~(p < p)
          BY <2>4, <3>5, <4>3
        <5>2. current' = c[p + 1]
          BY <4>1, <5>1 DEF At
        <5>3. d[p] = c[p + 1]
          BY <2>5, <5>1
        <5> QED
          BY <2>4, <5>1, <5>2, <5>3
      <4> QED
        BY <4>2, <4>3
    <3>6. CASE Standing # 0 /\ Standing # p
      <4>1. Standing \in 1..number /\ current = c[Standing] /\ current # c[p]
        BY <2>4, <2>7, <3>2, <3>6
      <4>2. current' = c[Standing]
        BY <2>2, <4>1 DEF MovesOn
      <4>3. CASE Standing > p
        <5>1. next = Standing - 1
          BY <4>3
        <5>2. PICK k : k = Standing - 1
          OBVIOUS
        <5>3. k \in 1..number' /\ ~(k < p) /\ k + 1 = Standing
          BY <2>4, <4>1, <4>3, <5>2
        <5>4. d[k] = c[Standing]
          BY <2>5, <5>3
        <5> QED
          BY <2>4, <4>2, <5>1, <5>2, <5>3, <5>4
      <4>4. CASE ~(Standing > p)
        <5>1. next = Standing /\ Standing < p /\ Standing \in 1..number'
          BY <2>4, <3>6, <4>1, <4>4
        <5>2. d[Standing] = c[Standing]
          BY <2>5, <5>1
        <5> QED
          BY <2>4, <4>2, <5>1, <5>2
      <4> QED
        BY <4>3, <4>4
    <3> QED
      BY <3>4, <3>5, <3>6
  <2> HIDE DEF next
  <2>9. Ordered(d)'
    <3>1. current' = Null \/ \E i \in 1..number' : current' = d[i]
      BY <2>4, <2>8
    <3> QED
      BY <2>2, <2>4, <3>1 DEF Ordered, Linked, At
  <2>10. Standing' = next
    <3>1. CASE next = 0
      BY <2>8, <2>9, <3>1, RepresentedNext
    <3>2. CASE next # 0
      <4>1. next \in 1..number' /\ current' = d[next]
        BY <2>4, <2>8, <3>2
      <4> QED
        BY <2>9, <4>1, RepresentedNext
    <3> QED
      BY <3>1, <3>2
  <2>11. AsSequence' = RemoveAt(AsSequence, p)
    <3>1. AsSequence' = [i \in 1..number - 1 |-> node'[d[i]].object]
      BY <2>4, <2>9, RepresentedNext
    <3>2. RemoveAt(AsSequence, p) = [i \in 1..number - 1 |-> IF i < p THEN AsSequence[i] ELSE AsSequence[i + 1]]
      <4>1. p \in 1..Len(AsSequence)
        BY <2>6
      <4> QED
        BY <2>6, <4>1, RemovedAt
    <3>3. \A i \in 1..number - 1 : node'[d[i]].object = IF i < p THEN AsSequence[i] ELSE AsSequence[i + 1]
      BY <2>4, <2>6
    <3> QED
      BY <3>1, <3>2, <3>3
  <2>12. Promised!Changed(o)
    <3>1. o \in Promised!ToSet(AsSequence) /\ AsSequence' = Promised!RemoveAt(AsSequence, p)
      BY <2>1, <2>11, SameOperators
    <3>2. Standing' = CASE Standing > p -> Standing - 1
                        [] Standing = p /\ p = Len(AsSequence) -> 0
                        [] OTHER -> Standing
      BY <2>6, <2>10 DEF next
    <3> QED
      BY <1>1, <2>1, <3>1, <3>2 DEF Promised!Changed
  <2> QED
    BY <1>1, <2>9, <2>12 DEF ListInv, Promised!SeqNext
<1> QED
  BY <1>2, <1>3

-----------------------------------------------------------------------------
(* Going back from the last node of a chain. *)
LEMMA StepsBack ==
    ASSUME NEW c, Ordered(c), NEW g,
           g = [k \in 0..number - 1 |-> IF k = 0 THEN tail ELSE node[g[k - 1]].prev]
    PROVE  \A k \in 0..number - 1 : g[k] = c[number - k]
<1> DEFINE D == {k \in 0..number - 1 : g[k] # c[number - k]}
<1>1. number \in Nat /\ tail = At(c, number, number)
  BY DEF Ordered, Linked
<1>2. SUFFICES ASSUME D # {} PROVE FALSE
  OBVIOUS
<1>3. PICK k \in D : \A j \in D : k <= j
  <2>1. D \subseteq Nat
    OBVIOUS
  <2> HIDE DEF D
  <2> QED
    BY <1>2, <2>1, LeastOf
<1>4. k \in 0..number - 1 /\ g[k] # c[number - k]
  BY <1>3
<1>5. g[k] = IF k = 0 THEN tail ELSE node[g[k - 1]].prev
  BY <1>4
<1>6. k # 0
  BY <1>1, <1>4, <1>5 DEF At
<1>7. k - 1 \in 0..number - 1 /\ ~(k <= k - 1)
  BY <1>1, <1>4, <1>6
<1>8. g[k - 1] = c[number - (k - 1)]
  <2>1. k - 1 \notin D
    BY <1>3, <1>7
  <2> QED
    BY <1>7, <2>1
<1>9. PICK i : i = number - (k - 1)
  OBVIOUS
<1>10. i \in 1..number /\ i - 1 = number - k /\ i - 1 \in 1..number
  BY <1>1, <1>4, <1>6, <1>9
<1>11. node[c[i]].prev = At(c, number, i - 1)
  <2>1. node[c[i]] = New(At(c, number, i + 1), At(c, number, i - 1), node[c[i]].object)
    BY <1>10 DEF Ordered, Linked
  <2> QED
    BY <2>1 DEF New
<1> QED
  BY <1>4, <1>5, <1>6, <1>8, <1>9, <1>10, <1>11 DEF At

(* The function that goes back exists. *)
LEMMA BackExists ==
    ASSUME NEW c, Ordered(c)
    PROVE  \E g : g = [k \in 0..number - 1 |-> IF k = 0 THEN tail ELSE node[g[k - 1]].prev]
<1> DEFINE w == [k \in 0..number - 1 |-> c[number - k]]
<1>1. number \in Nat /\ tail = At(c, number, number)
  BY DEF Ordered, Linked
<1>2. ASSUME NEW k \in 0..number - 1
      PROVE  c[number - k] = IF k = 0 THEN tail ELSE node[w[k - 1]].prev
  <2>1. CASE k = 0
    BY <1>1, <2>1 DEF At
  <2>2. CASE k # 0
    <3>1. PICK i : i = number - (k - 1)
      OBVIOUS
    <3>2. i \in 1..number /\ i - 1 = number - k /\ i - 1 \in 1..number /\ k - 1 \in 0..number - 1
      BY <1>1, <2>2, <3>1
    <3>3. w[k - 1] = c[i]
      BY <3>1, <3>2
    <3>4. node[c[i]] = New(At(c, number, i + 1), At(c, number, i - 1), node[c[i]].object)
      BY <3>2 DEF Ordered, Linked
    <3>5. node[c[i]].prev = c[i - 1]
      BY <3>2, <3>4 DEF New, At
    <3> HIDE DEF w
    <3> QED
      BY <2>2, <3>2, <3>3, <3>5
  <2> QED
    BY <2>1, <2>2
<1>3. w = [k \in 0..number - 1 |-> IF k = 0 THEN tail ELSE node[w[k - 1]].prev]
  BY <1>2
<1> QED
  BY <1>3

(* The last node with an object, and the last place of it. *)
LEMMA LastPlace ==
    ASSUME NEW c, Ordered(c), NEW o, Holds(o)
    PROVE  \E p \in 1..number : Promised!Final(o) = p /\ FromTail(o) = c[p]
<1>1. /\ AsSequence \in Seq(Contents) /\ Len(AsSequence) = number /\ number \in Nat
      /\ \A i \in 1..number : AsSequence[i] = node[c[i]].object
  BY ItemsAre
<1>2. \E i \in 1..number : AsSequence[i] = o
  BY <1>1 DEF Holds, Ordered, Linked
<1> DEFINE S == {k \in 0..number - 1 : AsSequence[number - k] = o}
<1>3. S \subseteq Nat /\ S # {}
  <2>1. PICK i \in 1..number : AsSequence[i] = o
    BY <1>2
  <2>2. number - i \in 0..number - 1 /\ number - (number - i) = i
    BY <1>1, <2>1
  <2>3. number - i \in S
    BY <2>1, <2>2
  <2> QED
    BY <2>3
<1>4. PICK k \in S : \A j \in S : k <= j
  <2> HIDE DEF S
  <2> QED
    BY <1>3, LeastOf
<1>5. PICK p : p = number - k
  OBVIOUS
<1>6. /\ p \in 1..number /\ k = number - p /\ AsSequence[p] = o
      /\ \A q \in p + 1..number : AsSequence[q] # o
  <2>1. p \in 1..number /\ k = number - p /\ AsSequence[p] = o
    BY <1>1, <1>4, <1>5
  <2>2. ASSUME NEW q \in p + 1..number, AsSequence[q] = o PROVE FALSE
    <3>1. number - q \in 0..number - 1 /\ number - (number - q) = q /\ ~(k <= number - q)
      BY <1>1, <2>1
    <3>2. number - q \in S
      BY <2>2, <3>1
    <3> QED
      BY <1>4, <3>1, <3>2
  <2> QED
    BY <2>1, <2>2
<1>7. Promised!Final(o) = p
  <2>1. \A r \in 1..number : AsSequence[r] = o /\ (\A q \in r + 1..number : AsSequence[q] # o) => r = p
    <3> SUFFICES ASSUME NEW r \in 1..number, AsSequence[r] = o,
                        \A q \in r + 1..number : AsSequence[q] # o
                 PROVE  r = p
      OBVIOUS
    <3>1. ~(r < p) /\ ~(p < r)
      BY <1>1, <1>6
    <3> QED
      BY <1>1, <1>6, <3>1
  <2>2. Promised!SeqPlaces = 1..number
    BY <1>1 DEF Promised!SeqPlaces
  <2> QED
    BY <1>1, <1>6, <2>1, <2>2 DEF Promised!Final
<1>8. FromTail(o) = c[p]
  <2>1. PICK back : back = CHOOSE g : g = [j \in 0..number - 1 |-> IF j = 0 THEN tail ELSE node[g[j - 1]].prev]
    OBVIOUS
  <2>2. back = [j \in 0..number - 1 |-> IF j = 0 THEN tail ELSE node[back[j - 1]].prev]
    BY <2>1, BackExists
  <2>3. \A j \in 0..number - 1 : back[j] = c[number - j]
    BY <2>2, StepsBack
  <2>4. \A j \in 0..number - 1 : node[back[j]].object = AsSequence[number - j]
    <3> SUFFICES ASSUME NEW j \in 0..number - 1
                 PROVE  node[back[j]].object = AsSequence[number - j]
      OBVIOUS
    <3>1. PICK r : r = number - j
      OBVIOUS
    <3>2. r \in 1..number /\ back[j] = c[r]
      BY <1>1, <2>3, <3>1
    <3> QED
      BY <1>1, <3>1, <3>2
  <2> DEFINE P(l) == node[back[l]].object = o /\ \A j \in 0..l - 1 : node[back[j]].object # o
  <2>5. k \in 0..number - 1 /\ P(k)
    <3>1. k \in 0..number - 1 /\ number - k = p
      BY <1>1, <1>5, <1>6
    <3>2. \A j \in 0..k - 1 : j \in 0..number - 1 /\ number - j \in p + 1..number
      BY <1>1, <1>6
    <3> QED
      BY <1>6, <2>4, <3>1, <3>2
  <2>6. ASSUME NEW l \in 0..number - 1, P(l) PROVE l = k
    <3>1. ~(l < k)
      BY <1>1, <2>5, <2>6
    <3>2. ~(k < l)
      BY <1>1, <2>5, <2>6
    <3> QED
      BY <1>1, <2>5, <3>1, <3>2
  <2>7. (CHOOSE l \in 0..number - 1 : P(l)) = k
    <3> HIDE DEF P
    <3> QED
      BY <2>5, <2>6
  <2>8. FromTail(o) = back[k]
    BY <2>1, <2>7, Zenon DEF FromTail
  <2> QED
    BY <1>1, <1>5, <2>3, <2>5, <2>8
<1> QED
  BY <1>6, <1>7, <1>8

-----------------------------------------------------------------------------
(* What leaves the nodes alone leaves the list in order, *)
LEMMA ListStays ==
    ASSUME NEW c, Ordered(c), UNCHANGED linkVars,
           current' = Null \/ \E i \in 1..number : current' = c[i],
           currentIndex' # -1 => /\ currentIndex' \in Nat /\ currentIndex' < number
                                 /\ current' = c[currentIndex' + 1]
    PROVE  /\ Ordered(c)' /\ AsSequence' = AsSequence
           /\ current' = Null => Standing' = 0
           /\ \A i \in 1..number : current' = c[i] => Standing' = i
<1>1. node' = node /\ head' = head /\ tail' = tail /\ number' = number
  BY DEF linkVars
<1>2. Ordered(c)'
  BY <1>1 DEF Ordered, Linked, At
<1>3. AsSequence' = AsSequence
  BY <1>1 DEF AsSequence, NodeAt
<1> QED
  BY <1>1, <1>2, <1>3, RepresentedNext

(* and what leaves the traversal alone, too. *)
LEMMA ListSame ==
    ASSUME NEW c, Ordered(c), UNCHANGED <<linkVars, current, currentIndex>>
    PROVE  Ordered(c)' /\ AsSequence' = AsSequence /\ Standing' = Standing
<1>1. UNCHANGED <<node, head, tail, number, current, currentIndex>>
  BY DEF linkVars
<1>2. Ordered(c)'
  BY <1>1 DEF Ordered, Linked, At
<1> QED
  BY <1>1, <1>2 DEF AsSequence, Standing, NodeAt

(* Release and Destroy leave the empty chain. *)
LEMMA ListReleases ==
    ASSUME Release
    PROVE  ListInv' /\ Promised!SeqNext
<1>1. /\ call' = <<"Release">> /\ returned' = returned
      /\ node' = [n \in {} |-> Null] /\ head' = Null /\ tail' = Null /\ number' = 0
      /\ current' = Null /\ currentIndex' = -1
  BY DEF Release
<1>2. PICK c : c = [i \in 1..0 |-> Null]
  OBVIOUS
<1>3. Linked(node', c, 0)
  <2>1. 1..0 = {}
    OBVIOUS
  <2>2. DOMAIN node' = {} /\ node' = [a \in DOMAIN node' |-> node'[a]]
    BY <1>1
  <2>3. c \in [1..0 -> Addresses]
    BY <1>2, <2>1
  <2> QED
    BY <2>1, <2>2, <2>3 DEF Linked
<1>4. Ordered(c)'
  BY <1>1, <1>3 DEF Ordered, Linked, At
<1>5. AsSequence' = <<>> /\ Standing' = 0
  <2>1. AsSequence' = [i \in 1..0 |-> node'[c[i]].object] /\ Standing' = 0
    BY <1>1, <1>4, RepresentedNext
  <2>2. AsSequence' \in [1..0 -> {}]
    BY <2>1
  <2>3. AsSequence' \in Seq({}) /\ Len(AsSequence') = 0
    BY <2>2, FunctionIsSeq
  <2> QED
    BY <2>1, <2>3, EmptySeq
<1> QED
  BY <1>1, <1>4, <1>5 DEF ListInv, Promised!SeqNext

(* Start_Get: the traversal stands at the first node. *)
LEMMA ListStarts ==
    ASSUME NEW c, Ordered(c), StartGet
    PROVE  ListInv' /\ Promised!SeqNext
<1>1. /\ call' = <<"Start_Get">> /\ returned' = returned /\ UNCHANGED linkVars
      /\ current' = head /\ currentIndex' = -1
  BY DEF StartGet
<1>2. head = At(c, number, 1) /\ number \in Nat /\ (AsSequence = <<>> <=> number = 0)
  BY ItemsAre DEF Ordered
<1>3. number = 0 => current' = Null
  BY <1>1, <1>2 DEF At
<1>4. number # 0 => current' = c[1] /\ 1 \in 1..number
  BY <1>1, <1>2 DEF At
<1>5. /\ Ordered(c)' /\ AsSequence' = AsSequence
      /\ current' = Null => Standing' = 0
      /\ \A i \in 1..number : current' = c[i] => Standing' = i
  <2>1. current' = Null \/ \E i \in 1..number : current' = c[i]
    BY <1>3, <1>4
  <2> QED
    BY <1>1, <2>1, ListStays
<1>6. Standing' = IF AsSequence = <<>> THEN 0 ELSE 1
  BY <1>2, <1>3, <1>4, <1>5
<1> QED
  BY <1>1, <1>5, <1>6 DEF ListInv, Promised!SeqNext

(* Get_Next: the object at the place, and the node that Nth remembers is   *)
(* still the one it remembers. *)
LEMMA ListGets ==
    ASSUME ~Mixed, NEW c, Ordered(c), GetNext
    PROVE  ListInv' /\ Promised!SeqNext
<1>1. call' = <<"Get_Next">> /\ UNCHANGED linkVars
  BY DEF GetNext
<1>2. /\ Standing \in 0..number /\ (Standing = 0 <=> current = Null)
      /\ Standing # 0 => current = c[Standing]
  BY StandingIs
<1>3. /\ number \in Nat /\ Len(AsSequence) = number
      /\ \A i \in 1..number : AsSequence[i] = node[c[i]].object
  BY ItemsAre
<1>4. /\ \A i \in 1..number : node[c[i]].next = At(c, number, i + 1)
      /\ \A i, j \in 1..number : c[i] = c[j] => i = j
      /\ \A i \in 1..number : c[i] # Null
      /\ currentIndex # -1 => /\ currentIndex \in Nat /\ currentIndex < number
                              /\ current = c[currentIndex + 1]
  <2>1. \A i \in 1..number : node[c[i]].next = At(c, number, i + 1)
    BY LinksOf
  <2> QED
    BY <2>1, Represented DEF Ordered, Linked
<1>5. CASE current = Null
  <2>1. returned' = Nil /\ current' = current /\ currentIndex' = currentIndex
    BY <1>5 DEF GetNext
  <2>2. Ordered(c)' /\ AsSequence' = AsSequence /\ Standing' = Standing
    BY <1>1, <2>1, ListSame
  <2> QED
    BY <1>1, <1>2, <1>5, <2>1, <2>2 DEF ListInv, Promised!SeqNext
<1>6. CASE current # Null
  <2>1. PICK i : i = Standing
    OBVIOUS
  <2>2. i \in 1..number /\ current = c[i]
    BY <1>2, <1>3, <1>6, <2>1
  <2>3. /\ returned' = AsSequence[i] /\ current' = At(c, number, i + 1)
        /\ currentIndex' = IF currentIndex >= 0 THEN currentIndex + 1 ELSE currentIndex
    BY <1>3, <1>4, <1>6, <2>2 DEF GetNext
  <2>4. currentIndex # -1 => currentIndex = i - 1 /\ i + 1 \in 1..number
    <3> SUFFICES ASSUME currentIndex # -1 PROVE currentIndex = i - 1 /\ i + 1 \in 1..number
      OBVIOUS
    <3>1. currentIndex \in Nat /\ currentIndex + 1 \in 1..number /\ current = c[currentIndex + 1]
      BY <1>3, <1>4
    <3>2. currentIndex + 1 = i
      BY <1>4, <2>2, <3>1
    <3>3. node[current].next # Null
      BY <3>1 DEF GetNext
    <3>4. i + 1 \in 1..number
      BY <1>4, <2>2, <3>3 DEF At
    <3> QED
      BY <3>1, <3>2, <3>4
  <2>5. /\ Ordered(c)' /\ AsSequence' = AsSequence
        /\ current' = Null => Standing' = 0
        /\ \A j \in 1..number : current' = c[j] => Standing' = j
    <3>1. current' = Null \/ \E j \in 1..number : current' = c[j]
      BY <2>3 DEF At
    <3>2. currentIndex' # -1 => /\ currentIndex' \in Nat /\ currentIndex' < number
                                /\ current' = c[currentIndex' + 1]
      BY <1>3, <2>2, <2>3, <2>4 DEF At
    <3> QED
      BY <1>1, <3>1, <3>2, ListStays
  <2>6. Standing' = IF i = number THEN 0 ELSE i + 1
    <3>1. CASE i = number
      <4>1. current' = Null
        BY <1>3, <2>3, <3>1 DEF At
      <4> QED
        BY <2>5, <3>1, <4>1
    <3>2. CASE i # number
      <4>1. i + 1 \in 1..number
        BY <1>3, <2>2, <3>2
      <4>2. current' = c[i + 1]
        BY <2>3, <4>1 DEF At
      <4> QED
        BY <2>5, <3>2, <4>1, <4>2
    <3> QED
      BY <3>1, <3>2
  <2>7. Standing # 0
    BY <1>2, <1>6
  <2> QED
    BY <1>1, <1>3, <2>1, <2>3, <2>5, <2>6, <2>7 DEF ListInv, Promised!SeqNext
<1> QED
  BY <1>5, <1>6

(* Next and Previous find what is next to the object on the circle. *)
LEMMA ListFinds ==
    ASSUME NEW c, Ordered(c), NEW o \in Objects, NextOf(o) \/ PreviousOf(o)
    PROVE  ListInv' /\ Promised!SeqNext
<1>1. Holds(o) /\ UNCHANGED <<linkVars, current, currentIndex>>
  BY DEF NextOf, PreviousOf
<1>2. Ordered(c)' /\ AsSequence' = AsSequence /\ Standing' = Standing
  BY <1>1, ListSame
<1>3. /\ number \in Nat /\ Len(AsSequence) = number
      /\ \A i \in 1..number : AsSequence[i] = node[c[i]].object
  BY ItemsAre
<1>4. /\ \A i \in 1..number : /\ node[c[i]].next = At(c, number, i + 1)
                              /\ node[c[i]].prev = At(c, number, i - 1)
                              /\ c[i] # Null
      /\ head = At(c, number, 1) /\ tail = At(c, number, number)
  <2>1. \A i \in 1..number : /\ node[c[i]].next = At(c, number, i + 1)
                             /\ node[c[i]].prev = At(c, number, i - 1)
    BY LinksOf
  <2> QED
    BY <2>1, Represented DEF Ordered
<1>5. o \in ToSet(AsSequence)
  BY <1>1, FirstPlace
<1>6. CASE NextOf(o)
  <2>1. PICK p \in 1..number : Promised!First(o) = p /\ FromHead(o) = c[p]
    BY <1>1, FirstPlace
  <2>2. PICK next : next = node[c[p]].next
    OBVIOUS
  <2>3. call' = <<"Next", o>> /\ returned' = node[IF next = Null THEN head ELSE next].object
    BY <1>6, <2>1, <2>2 DEF NextOf
  <2>4. returned' = AsSequence[IF p = number THEN 1 ELSE p + 1]
    <3>1. CASE p = number
      <4>1. next = Null /\ head = c[1] /\ 1 \in 1..number
        BY <1>3, <1>4, <2>2, <3>1 DEF At
      <4> QED
        BY <1>3, <2>3, <3>1, <4>1
    <3>2. CASE p # number
      <4>1. p + 1 \in 1..number
        BY <1>3, <3>2
      <4>2. next = c[p + 1] /\ next # Null
        BY <1>4, <2>2, <4>1 DEF At
      <4> QED
        BY <1>3, <2>3, <3>2, <4>1, <4>2
    <3> QED
      BY <3>1, <3>2
  <2>5. Promised!Found(o)
    <3>1. o \in Promised!ToSet(AsSequence)
      BY <1>5, SameOperators
    <3> QED
      BY <1>3, <2>1, <2>3, <2>4, <3>1 DEF Promised!Found
  <2> QED
    BY <1>2, <2>5 DEF ListInv, Promised!SeqNext
<1>7. CASE PreviousOf(o)
  <2>1. PICK p \in 1..number : Promised!Final(o) = p /\ FromTail(o) = c[p]
    BY <1>1, LastPlace
  <2>2. PICK prev : prev = node[c[p]].prev
    OBVIOUS
  <2>3. call' = <<"Previous", o>> /\ returned' = node[IF prev = Null THEN tail ELSE prev].object
    BY <1>7, <2>1, <2>2 DEF PreviousOf
  <2>4. returned' = AsSequence[IF p = 1 THEN number ELSE p - 1]
    <3>1. CASE p = 1
      <4>1. prev = Null /\ tail = c[number] /\ number \in 1..number
        BY <1>3, <1>4, <2>2, <3>1 DEF At
      <4> QED
        BY <1>3, <2>3, <3>1, <4>1
    <3>2. CASE p # 1
      <4>1. p - 1 \in 1..number
        BY <1>3, <3>2
      <4>2. prev = c[p - 1] /\ prev # Null
        BY <1>4, <2>2, <4>1 DEF At
      <4> QED
        BY <1>3, <2>3, <3>2, <4>1, <4>2
    <3> QED
      BY <3>1, <3>2
  <2>5. Promised!Found(o)
    <3>1. o \in Promised!ToSet(AsSequence)
      BY <1>5, SameOperators
    <3> QED
      BY <1>3, <2>1, <2>3, <2>4, <3>1 DEF Promised!Found
  <2> QED
    BY <1>2, <2>5 DEF ListInv, Promised!SeqNext
<1> QED
  BY <1>6, <1>7

(* Nth, from the head, from the node it remembers or at that node. *)
LEMMA ListCounts ==
    ASSUME NEW c, Ordered(c), NEW n \in Positions, NthObject(n)
    PROVE  ListInv' /\ Promised!SeqNext
<1>1. call' = <<"Nth", n>> /\ UNCHANGED linkVars /\ n \in Nat
  BY ListAssumption DEF NthObject
<1>2. /\ number \in Nat /\ Len(AsSequence) = number
      /\ \A i \in 1..number : AsSequence[i] = node[c[i]].object
  BY ItemsAre
<1>3. CASE n >= number
  <2>1. returned' = Nil /\ UNCHANGED <<linkVars, current, currentIndex>>
    BY <1>1, <1>3 DEF NthObject
  <2>2. Ordered(c)' /\ AsSequence' = AsSequence /\ Standing' = Standing
    BY <2>1, ListSame
  <2>3. ~(n < Len(AsSequence))
    BY <1>1, <1>2, <1>3
  <2> QED
    BY <1>1, <2>1, <2>2, <2>3 DEF ListInv, Promised!SeqNext
<1>4. CASE ~(n >= number)
  <2>1. n + 1 \in 1..number /\ n < Len(AsSequence)
    BY <1>1, <1>2, <1>4
  <2>2. c[n + 1] # Null
    BY <2>1, Represented
  <2>3. NodeAt(node, head, n) = c[n + 1]
    BY <1>1, <2>1, StepsLead DEF Ordered, At
  <2>4. returned' = node[c[n + 1]].object /\ current' = c[n + 1] /\ currentIndex' = n
    <3>1. CASE currentIndex = n
      <4>1. current = c[n + 1]
        BY <1>1, <3>1 DEF Ordered
      <4> QED
        BY <1>4, <2>2, <3>1, <4>1 DEF NthObject, ObjectAt
    <3>2. CASE currentIndex # n /\ current # Null /\ currentIndex >= 0 /\ n = currentIndex + 1
      <4>1. currentIndex # -1
        BY <3>2
      <4>2. current = c[n] /\ n \in 1..number
        <5>1. currentIndex \in Nat /\ currentIndex < number /\ current = c[currentIndex + 1]
          BY <4>1 DEF Ordered
        <5> QED
          BY <1>1, <1>2, <3>2, <5>1
      <4>3. node[c[n]].next = c[n + 1]
        BY <2>1, <4>2, LinksOf DEF At
      <4> QED
        BY <1>4, <2>2, <3>2, <4>2, <4>3 DEF NthObject
    <3>3. CASE currentIndex # n /\ ~(current # Null /\ currentIndex >= 0 /\ n = currentIndex + 1)
      BY <1>4, <2>2, <2>3, <3>3 DEF NthObject, ObjectAt
    <3> QED
      BY <3>1, <3>2, <3>3
  <2>5. Ordered(c)' /\ AsSequence' = AsSequence /\ Standing' = n + 1
    <3>1. \E i \in 1..number : current' = c[i]
      BY <2>1, <2>4
    <3>2. currentIndex' # -1 => /\ currentIndex' \in Nat /\ currentIndex' < number
                                /\ current' = c[currentIndex' + 1]
      BY <1>1, <1>2, <2>1, <2>4
    <3> QED
      BY <1>1, <2>1, <2>4, <3>1, <3>2, ListStays
  <2>6. returned' = AsSequence[n + 1]
    BY <1>2, <2>1, <2>4
  <2> QED
    BY <1>1, <2>1, <2>5, <2>6 DEF ListInv, Promised!SeqNext
<1> QED
  BY <1>3, <1>4

(* Every call keeps the chain and is a step of the sequence. *)
LEMMA ListStep ==
    ASSUME ~Mixed, ListInv, [ListNext]_listVars
    PROVE  ListInv' /\ [Promised!SeqNext]_(Promised!seqVars)
<1>1. PICK c : Ordered(c)
  BY DEF ListInv
<1>2. ASSUME NEW o \in Objects,
             \/ AddObject(o) \/ RemoveObject(o) \/ NextOf(o) \/ PreviousOf(o)
             \/ \E p \in Positions : InsertObject(o, p) \/ AssignObject(o, p)
      PROVE  ListInv' /\ Promised!SeqNext
  BY <1>1, <1>2, ListAdds, ListRemoves, ListFinds, ListInserts, ListAssigns
<1>3. CASE Release \/ StartGet \/ GetNext
  BY <1>1, <1>3, ListReleases, ListStarts, ListGets
<1>4. ASSUME NEW n \in Positions, NthObject(n)
      PROVE  ListInv' /\ Promised!SeqNext
  BY <1>1, <1>4, ListCounts
<1>5. CASE UNCHANGED listVars
  <2>1. UNCHANGED <<linkVars, current, currentIndex>> /\ call' = call /\ returned' = returned
    BY <1>5 DEF listVars
  <2>2. Ordered(c)' /\ AsSequence' = AsSequence /\ Standing' = Standing
    BY <1>1, <2>1, ListSame
  <2> QED
    BY <2>1, <2>2 DEF ListInv, Promised!seqVars
<1> QED
  BY <1>2, <1>3, <1>4, <1>5 DEF ListNext

(* For every sequence of calls, unless Get_Next is called for the last     *)
(* object when Nth has reached it: however objects are inserted, assigned  *)
(* and removed in the course of a traversal, and whatever Nth remembers, a *)
(* List is the sequence that List.h promises (List.cc). *)
THEOREM ListImplementsSequence ==
    ASSUME ~Mixed
    PROVE  ListSpec => ListIsSequence
<1>1. ListInit => ListInv /\ Promised!SeqInit
  <2> SUFFICES ASSUME ListInit PROVE ListInv /\ Promised!SeqInit
    OBVIOUS
  <2>1. /\ node = [n \in {} |-> Null] /\ head = Null /\ tail = Null /\ number = 0
        /\ current = Null /\ currentIndex = -1 /\ call = <<"List">> /\ returned = Nil
    BY DEF ListInit
  <2>2. PICK c : c = [i \in 1..0 |-> Null]
    OBVIOUS
  <2>3. Linked(node, c, 0)
    <3>1. 1..0 = {}
      OBVIOUS
    <3>2. DOMAIN node = {} /\ node = [a \in DOMAIN node |-> node[a]]
      BY <2>1
    <3>3. c \in [1..0 -> Addresses]
      BY <2>2, <3>1
    <3> QED
      BY <3>1, <3>2, <3>3 DEF Linked
  <2>4. Ordered(c)
    BY <2>1, <2>3 DEF Ordered, At
  <2>5. AsSequence = <<>> /\ Standing = 0
    BY <2>1, <2>4, ItemsAre, Represented
  <2> QED
    BY <2>1, <2>4, <2>5 DEF ListInv, Promised!SeqInit
<1>2. ListInv /\ [ListNext]_listVars => ListInv' /\ [Promised!SeqNext]_(Promised!seqVars)
  BY ListStep
<1> QED
  BY <1>1, <1>2, PTL DEF ListSpec, ListIsSequence, Promised!SeqSpec

=============================================================================
