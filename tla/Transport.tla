----------------------------- MODULE Transport -----------------------------
(***************************************************************************)
(* One request of htdig to a web server: Document::RetrieveHTTP and        *)
(* readHeader over Connection and io.  The server sends its answer unit by *)
(* unit, may be slow, fall silent or close the connection at any point,    *)
(* and a signal (SIGINT, SIGTERM, ...) may interrupt a blocking call.      *)
(***************************************************************************)
EXTENDS Integers, FiniteSets, Sequences, SequencesExt

CONSTANTS
    Timeout,     \* timeout
    MaxDoc,      \* max_doc_size, in pieces of a document
    BufSize,     \* the pieces that fit docBuffer
    RetryValue,  \* retry_value of a Connection, 1 unless somebody calls retries()
    Answers,     \* the answers servers may give
    MaxSilence   \* bound: how long a server may take to accept a connection

ASSUME TransportAssumption ==
    /\ Timeout \in Nat \ {0} /\ MaxSilence \in Nat
    /\ MaxDoc \in Nat /\ BufSize \in Nat \ {0} /\ RetryValue \in Nat \ {0}

VARIABLES
    answer,   \* what the server answers
    sent,     \* units of it that have arrived
    closed,   \* the server has closed the connection
    got,      \* units of it that the program has read
    pc,       \* connect | header | body | done
    tries,    \* retries
    waited,   \* how long connect() or select() has been blocking
    line,     \* read_line's string
    part,     \* what the current call of io::read has got
    header,   \* what readHeader has recognised
    contents,
    result,   \* the DocStatus returned
    silence,  \* history: time since something arrived
    trouble   \* history: what went wrong on the way

serverVars == <<answer, sent, closed>>
progVars == <<got, pc, tries, waited, line, part, header, contents, result>>
transportVars == <<answer, sent, closed, got, pc, tries, waited, line, part,
                   header, contents, result, silence, trouble>>

-----------------------------------------------------------------------------
(* A unit is half of the text of a header line, the end of a line, or a    *)
(* piece of the document. *)
NL == <<"nl", 0>>
Text(field) == <<<<field, 1>>, <<field, 2>>>>
Half(field) == <<<<field, 1>>>>

Fields == {"status", "date", "location", "type", "length"}

(* A line of the header, if the answer has it; the order is that in which  *)
(* servers send them. *)
Line(f, a) == IF f \in a.fields THEN Append(Text(f), NL) ELSE <<>>

Lines(a) ==
    Line("status", a) \o Line("date", a) \o Line("location", a) \o Line("type", a)
      \o Line("length", a)

Body(a) == [i \in 1..a.body |-> <<"body", i>>]

Stream(a) == Lines(a) \o <<NL>> \o Body(a)

(* An answer has a status line; it tells its length in a header line or    *)
(* not at all. *)
ASSUME AnswersAssumption ==
    \A a \in Answers :
        /\ "status" \in a.fields
        /\ a.body \in Nat /\ a.length \in Nat \cup {-1}
        /\ "length" \notin a.fields => a.length = -1

Pending == got < sent

Exhausted == ~Pending /\ closed

(* returnStatus, and what modtime, redirected_to and contentType were set  *)
(* to: nothing, what the server told, or a part of it. *)
NoHeader == [status |-> "not_found", date |-> "none", location |-> "none",
             type |-> "none", length |-> -1]

TransportInit ==
    /\ answer \in Answers
    /\ sent = 0 /\ closed = FALSE
    /\ got = 0
    /\ pc = "connect" /\ tries = RetryValue
    /\ waited = 0 /\ silence = 0
    /\ line = <<>> /\ part = <<>>
    /\ header = NoHeader
    /\ contents = <<>>
    /\ result = "none"
    /\ trouble = {}

-----------------------------------------------------------------------------
(* connect() has no alarm: RetrieveHTTP sets the timeout of the connection *)
(* after it has connected, and alarm(0) is none. *)
ConnectTimeout == 0

Connected ==
    /\ pc = "connect"
    /\ pc' = "header"
    /\ waited' = 0 /\ silence' = 0
    /\ UNCHANGED <<serverVars, got, tries, line, part, header, contents, result, trouble>>

NoServer ==
    /\ pc' = "done"
    /\ result' = "no_server"
    /\ UNCHANGED <<got, tries, waited, line, part, header, contents>>

Refused ==
    /\ pc = "connect"
    /\ trouble' = trouble \cup {"refused"}
    /\ NoServer
    /\ UNCHANGED <<serverVars, silence>>

(* EINTR and EAGAIN: another try on a new socket, if there is one left. *)
TryAgain(why) ==
    /\ pc = "connect" /\ why \notin trouble
    /\ trouble' = trouble \cup {why}
    /\ \/ /\ tries > 1
          /\ tries' = tries - 1
          /\ waited' = 0
          /\ UNCHANGED <<got, pc, line, part, header, contents, result>>
       \/ tries <= 1 /\ NoServer
    /\ UNCHANGED <<serverVars, silence>>

-----------------------------------------------------------------------------
(* The server. *)
Arrive ==
    /\ pc \in {"header", "body"} /\ ~closed
    /\ sent < Len(Stream(answer))
    /\ sent' = sent + 1
    /\ silence' = 0
    /\ UNCHANGED <<answer, closed, progVars, trouble>>

Close ==
    /\ pc \in {"header", "body"} /\ ~closed
    /\ closed' = TRUE
    /\ trouble' = IF sent < Len(Stream(answer)) THEN trouble \cup {"cut"} ELSE trouble
    /\ UNCHANGED <<answer, sent, progVars, silence>>

(* Time counts only while a call blocks; select() returns after Timeout. *)
Tick ==
    /\ ~Pending /\ ~closed
    /\ \/ pc = "connect" /\ waited < MaxSilence
       \/ pc \in {"header", "body"} /\ waited < Timeout
    /\ waited' = waited + 1
    /\ silence' = silence + 1
    /\ UNCHANGED <<serverVars, got, pc, tries, line, part, header, contents, result, trouble>>

-----------------------------------------------------------------------------
StatusOf(code) ==
    CASE code = 200 -> "ok"
      [] code = 304 -> "not_changed"
      [] code \in 300..309 \ {304} -> "redirect"
      [] code = 401 -> "not_authorized"
      [] OTHER -> "not_found"

(* When a timeout, a signal or the end of the input tears a line apart,    *)
(* its first half is read for what it seems to say; the other half begins  *)
(* like no line that readHeader knows.  Half a code is none, or for it     *)
(* "30" is enough. *)
StatusRead(l) ==
    CASE l = Text("status") -> {StatusOf(answer.code)}
      [] l = Half("status") ->
             {header.status, StatusOf(answer.code)}
               \cup (IF answer.code \in 300..309 THEN {"redirect"} ELSE {})
      [] OTHER -> {header.status}

LengthRead(l) ==
    CASE l = Text("length") -> {answer.length}
      [] l = Half("length") -> -1..answer.length
      [] OTHER -> {header.length}

ValueRead(l, field, old) ==
    CASE l = Text(field) -> {"told"}
      [] l = Half(field) -> {old, "told", "cut"}
      [] OTHER -> {old}

(* Another type than text is not looked for in what is no document.        *)
TypeMatters == header.status \in {"ok", "not_found"}

TypeRead(l) ==
    IF answer.type = "other" /\ TypeMatters THEN {header.type}
    ELSE ValueRead(l, "type", header.type)

Recognised(l) ==
    {[status |-> st, date |-> d, location |-> u, type |-> t, length |-> n] :
        st \in StatusRead(l), d \in ValueRead(l, "date", header.date),
        u \in ValueRead(l, "location", header.location),
        t \in TypeRead(l), n \in LengthRead(l)}

(* A type nobody can parse ends the header, unless the answer has none;    *)
(* half a type may look like one. *)
NotText(l) == l = Text("type") /\ answer.type = "other" /\ TypeMatters
LooksOther(l) == l = Half("type") /\ TypeMatters

(* Mutant: the length is trusted. *)
TrustedGoal(len) == IF len < 0 THEN MaxDoc ELSE len

(* bytesToGo at first. *)
Goal(len) == IF len < 0 \/ len > MaxDoc THEN MaxDoc ELSE len

Finish(status) ==
    /\ pc' = "done"
    /\ result' = status

(* read_line returns: an empty line, whatever it is due to, ends the       *)
(* header. *)
EndLine ==
    /\ line' = <<>>
    /\ IF line = <<>>
       THEN /\ IF header.status = "ok" /\ Goal(header.length) > 0
               THEN pc' = "body" /\ UNCHANGED result
               ELSE Finish(header.status)
            /\ UNCHANGED header
       ELSE \/ /\ NotText(line) \/ LooksOther(line)
               /\ Finish("not_html") /\ UNCHANGED header
            \/ /\ ~NotText(line)
               /\ header' \in Recognised(line) /\ UNCHANGED <<pc, result>>
    /\ UNCHANGED <<tries, part, contents>>

ReadHeader ==
    /\ pc = "header" /\ Pending
    /\ got' = got + 1
    /\ waited' = 0
    /\ LET unit == Stream(answer)[got + 1]
       IN IF unit = NL
          THEN EndLine
          ELSE /\ line' = Append(line, unit)
               /\ UNCHANGED <<pc, tries, part, header, contents, result>>
    /\ UNCHANGED <<serverVars, silence, trouble>>

(* read_char fails: at the end of the input, *)
HeaderEnds ==
    /\ pc = "header" /\ Exhausted
    /\ EndLine
    /\ UNCHANGED <<serverVars, got, waited, silence, trouble>>

(* after Timeout, or when a signal interrupts select(), which read_partial *)
(* takes for a timeout. *)
HeaderStops(why) ==
    /\ pc = "header" /\ ~Pending /\ ~closed
    /\ trouble' = trouble \cup {why}
    /\ waited' = 0
    /\ EndLine
    /\ UNCHANGED <<serverVars, got, silence>>

-----------------------------------------------------------------------------
ToGo == Goal(header.length) - Len(contents)

(* The length of the current call of io::read. *)
Asked == IF ToGo < BufSize THEN ToGo ELSE BufSize

ReadBody ==
    /\ pc = "body" /\ Pending
    /\ got' = got + 1
    /\ waited' = 0
    /\ LET more == Append(part, Stream(answer)[got + 1])
       IN IF Len(more) < Asked
          THEN part' = more /\ UNCHANGED <<contents, pc, result>>
          ELSE /\ contents' = contents \o more
               /\ part' = <<>>
               /\ IF Len(more) = ToGo THEN Finish("ok") ELSE UNCHANGED <<pc, result>>
    /\ UNCHANGED <<serverVars, tries, line, header, silence, trouble>>

(* At the end of the input io::read returns what it has. *)
BodyEnds ==
    /\ pc = "body" /\ Exhausted
    /\ contents' = contents \o part
    /\ part' = <<>>
    /\ Finish("ok")
    /\ UNCHANGED <<serverVars, got, tries, waited, line, header, silence, trouble>>

(* Mutants: the call that timed out is repeated; what it had got is        *)
(* skipped. *)
BodyPatient ==
    /\ pc = "body" /\ ~Pending /\ ~closed /\ waited = Timeout
    /\ trouble' = trouble \cup {"timeout"}
    /\ waited' = 0
    /\ UNCHANGED <<serverVars, got, pc, tries, line, part, header, contents, result, silence>>

BodySkips ==
    /\ pc = "body" /\ ~Pending /\ ~closed /\ waited = Timeout
    /\ trouble' = trouble \cup {"timeout"}
    /\ waited' = 0
    /\ part' = <<>>
    /\ UNCHANGED <<serverVars, got, pc, tries, line, header, contents, result, silence>>

(* After a timeout it returns -1 and what it had got is lost. *)
BodyStops ==
    /\ pc = "body" /\ ~Pending /\ ~closed /\ waited = Timeout
    /\ trouble' = trouble \cup {"timeout"}
    /\ part' = <<>>
    /\ Finish("ok")
    /\ UNCHANGED <<serverVars, got, tries, waited, line, header, contents, silence>>

(* But io::read goes on after a signal: errno is EINTR. *)
BodyInterrupted ==
    /\ pc = "body" /\ ~Pending /\ ~closed /\ "signal" \notin trouble
    /\ trouble' = trouble \cup {"signal"}
    /\ waited' = 0
    /\ UNCHANGED <<serverVars, got, pc, tries, line, part, header, contents, result, silence>>

TransportNext ==
    \/ Connected \/ Refused
    \/ \E why \in {"signal", "again"} : TryAgain(why)
    \/ Arrive \/ Close \/ Tick
    \/ ReadHeader \/ HeaderEnds
    \/ waited = Timeout /\ HeaderStops("timeout")
    \/ "signal" \notin trouble /\ HeaderStops("signal")
    \/ ReadBody \/ BodyEnds \/ BodyStops \/ BodyInterrupted

TransportSpec == TransportInit /\ [][TransportNext]_transportVars

-----------------------------------------------------------------------------
TransportTypeOK ==
    /\ answer \in Answers
    /\ sent \in 0..Len(Stream(answer)) /\ got \in 0..sent
    /\ closed \in BOOLEAN
    /\ pc \in {"connect", "header", "body", "done"}
    /\ tries \in 1..RetryValue
    /\ waited \in Nat /\ silence \in Nat
    /\ Len(line) <= 2 /\ Len(part) < BufSize
    /\ Len(contents) <= MaxDoc
    /\ header \in [status : {"ok", "not_changed", "redirect", "not_authorized", "not_found"},
                   date : {"none", "told", "cut"}, location : {"none", "told", "cut"},
                   type : {"none", "told", "cut"}, length : Int]
    /\ trouble \subseteq {"refused", "signal", "again", "cut", "timeout"}

(* What an answer means. *)
Expected(a) ==
    IF StatusOf(a.code) \in {"ok", "not_found"} /\ "type" \in a.fields /\ a.type = "other"
    THEN "not_html" ELSE StatusOf(a.code)

(* However slowly the answer comes, if no call timed out or was interrupted*)
(* and the server did not break off, the retriever gets the status, the    *)
(* date, the target, the type and the document that the server sent, up to *)
(* max_doc_size. *)
Given(field) == IF field \in answer.fields THEN "told" ELSE "none"

Undisturbed ==
    pc = "done" /\ trouble = {} =>
        /\ result = Expected(answer)
        /\ result # "not_html" =>
              /\ header.date = Given("date") /\ header.location = Given("location")
              /\ header.type = Given("type")
        /\ result = "ok" =>
              /\ contents = SubSeq(Body(answer), 1, Len(contents))
              /\ Len(contents) = Min({answer.body, MaxDoc, answer.length} \ {-1})

(* Whatever goes wrong, a page is taken for retrieved, unchanged or        *)
(* protected only if the server said so, and for moved only if its code    *)
(* begins like that of a redirect: half a 304 is one, and any redirect may *)
(* have lost its target, or a part of it (readHeader). *)
OnlyAsTold ==
    /\ result = "ok" => answer.code = 200
    /\ result = "not_changed" => answer.code = 304
    /\ result = "redirect" => answer.code \in 300..309
    /\ result = "not_authorized" => answer.code = 401

(* Both: no page is stored as one that the server did not send, and all of *)
(* the answer is learned when nothing goes wrong. *)
TrueToServer == Undisturbed /\ OnlyAsTold

(* A document may be cut short, or begin with header lines that came too   *)
(* late, but nothing is missing at its start or in its middle. *)
NoGaps ==
    \E i \in 0..(Len(Stream(answer)) - answer.body) :
        contents = SubSeq(Stream(answer), i + 1, i + Len(contents))

(* A server that falls silent holds the dig up for three timeouts at most: *)
(* one ends a line, one the header, one the document; a signal adds one.   *)
ThreeTimeouts ==
    pc \in {"header", "body"} =>
        silence <= (IF "signal" \in trouble THEN 4 ELSE 3) * Timeout

(* "Set an alarm to make sure the connect() call times out appropriately"  *)
(* (Connection.cc:259-261). *)
ConnectTimes == pc = "connect" => waited <= Timeout

=============================================================================
