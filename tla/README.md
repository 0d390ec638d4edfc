# ht://Dig 3.1.6: a TLA+ verification project

ht://Dig crawls web pages (`htdig`), turns what it found into a searchable
index (`htmerge`), and answers queries (`htsearch`).  The programs are run one
after the other by scripts and communicate through files only.  This project
models the crawl, the merge and the files between them as one system, and the
parts below and beside it (a request, the parsing of a page, the libraries, a
query and its answer) each for itself.  TLC checks the models on small
instances, and TLAPS proves the central facts for all instances.  All source
paths below are relative to `src/htdig-3.1.6/`.

## 1. Inventory

| component | state it keeps | operations | what makes it correct |
|---|---|---|---|
| retriever, `htdig/Retriever.cc`, `htdig.cc` | `visited`, the servers and their queues, the document being parsed, `noSignal`; `db.log` | start (`-i` or update), `Initial`, `Start`, `parse_url`, `got_href`, `got_redirect`, signals | every URL found is retrieved once, also when the dig is interrupted; hop counts and limits are kept; every run ends |
| servers, `htdig/Server.cc` | queue, document count, dead flag, time of the last connection, `disallow` | `push`, `pop`, `delay`, `robotstxt` | limits per server hold; connections are spaced; the robot keeps to its section of robots.txt |
| transport, `htdig/Document.cc`, `htlib/Connection.cc`, `htlib/io.cc` | a socket, its buffer, the alarm | connect with retries, header, body, timeouts | no hang, no false failure, no document with a hole in it |
| document parsers, `htdig/HTML.cc` and others | flags for sections, the open link, excerpt, title | `parse`, `do_tag` | what the author hid is not indexed; every link is reported once |
| document database, `htcommon/DocumentDB.cc`, `DocumentRef.cc` | records by encoded URL, `nextDocID` | `Add`, `Delete`, `[]`, `URLs`, `NextDocID`, `DumpDB`, `LoadDB`, `Serialize` | an ID belongs to one document and one content of it; a record is read as it was written |
| word list, `htcommon/WordList.cc` | `db.wordlist`: word lines and the markers `+id`, `-id`, `!id` | `Flush`, `MarkScanned`, `MarkGone`, `MarkModified` | words are filed under the ID of the version they come from, the words of a link under the ID of its target |
| htmerge, `htmerge/words.cc`, `docs.cc` | discard list (memory), `db.wordlist.new`, `db.words.db`, `db.docs.index` | `mergeWords`, `convertDocs` | what a search finds is current and can be displayed |
| htmerge -m, `htmerge/db.cc` | offset and duplicate lists | `mergeDB` | IDs of the two databases do not clash; the newer document wins |
| rundig, `installdir/rundig` | none | order of the programs, renaming of work files | the programs do not run into each other |
| search, `htsearch/htsearch.cc`, `parser.cc` | tokens, operator and value stacks | `setupWords`, `parse` | a query means what its grammar says |
| display, `htsearch/Display.cc` | list and window of matches, range of dates | `buildMatchList`, `display`, `setVariables` | paging shows every match once; dates are those that were asked for |
| patterns, `htlib/StringMatch.cc` | table of states | `Pattern`, `Compare`, `FindFirst`, `CompareWord`, `FindFirstWord` | finds what is there |
| URLs, `htlib/URL.cc`, `HtWordCodec.cc`, `HtURLCodec.cc` | service, host, port, path; lists of codes | `URL`, `parse`, `normalizePath`, `normalize`; `encode`, `decode` | a reference leads where it says; one URL for a document; what is encoded can be decoded |
| dictionary, `htlib/Dictionary.cc` | hash table and one built-in iterator | `Add`, `Remove`, `Find`, `Destroy`, `Start_Get`, `Get_Next` | it is a set of keys; an iteration meets each once |
| containers and configuration, `htlib/List.cc`, ... | nodes, one traversal, the node of the last `Nth` | `Add`, `Insert`, `Assign`, `Remove`, `Nth`, `Get_Next`, ... | a list is a sequence; a traversal survives removals |
| fuzzy searches, `htfuzzy/` | word databases | transformations of words | (spelling only) |
| notification, `htnotify/htnotify.cc` | `allNotifications` | one pass over the database, one mail to each address | authors of expired documents are told, and no others |
| database access, Berkeley DB, contributed scripts | - | - | - |

The programs interact through files: `htdig` appends to `db.wordlist` and
updates `db.docdb`; `htmerge` reads and rewrites both and creates `db.words.db`
and `db.docs.index` for `htsearch`; an interrupted `htdig` leaves `db.log` for
its next run.  There is no locking.  Inside htdig the retriever asks a server's
`Document` for a page, the parser calls the retriever back for each link, word
and tag, and the retriever writes to the database and to the word list.  What is
hard:

* restarts: a run is interrupted by a signal, killed, or ends, and the next run
  must go on from the files (`Retriever.cc:66-86, 296-320`);
* markers whose meaning depends on an order that the sort throws away
  (`words.cc:59-108`), and an algorithm over sorted lines that relies on a
  collating order (`words.cc:241`);
* knowledge that only a process has (the discard list, the visited set,
  `nextDocID`) and that its death loses;
* an iterator inside the container it iterates over (`Dictionary.cc`, `List.cc`);
* limits counted per process but promised per dig;
* a connection that stalls, breaks or is interrupted at any point, with three
  timeouts of different kinds (`Connection.cc:250-300, 430-460`);
* state machines over text: the sections of robots.txt, the flags of the HTML
  parser, the table of `StringMatch`, which has no way back;
* conversions that must be inverted by another program with other options.

`PROJECT.json` lists every component with its status and every hazard with its
line and the properties that look at it.

## 2. Modules

| module | models | built from |
|---|---|---|
| `Files` | `db.docdb` (as seen, and as last closed), `nextDocID` on disk, word list, markers, `db.log` | - |
| `Dig` | htdig: start, loading, rounds, retrieval, parsing, end of a run; the web and its changes | `Files`; instantiates `Crawl` |
| `Crawl` | abstract: the crawl a dig implements | - |
| `Merge` | htmerge without `-m` | `Files` |
| `Pipeline` | digs and merges over the same files | `Dig`, `Merge` |
| `MergeDB` | htmerge with `-m`, and the merge that follows it in the same process | `Merge` |
| `Words` | `mergeWords`, line by line | - |
| `Transport` | `Document::RetrieveHTTP`, `readHeader`, `Connection`, `io` and a server | - |
| `ServerDelay` | `Server::delay`, the clock, signals | - |
| `Robots` | the constructor of `Server` and `robotstxt` | - |
| `HTML` | `HTML::parse`, `do_tag` | - |
| `Dictionary` | the hash table and its iterator | - |
| `LoadDump` | htdump, htload and document IDs | - |
| `DocMap` | abstract: a map from URLs to documents | - |
| `DocRecord` | `DocumentRef`: the head and its compression, `Serialize`, `Deserialize` | - |
| `DocStore` | `DocumentDB`: keys, old keys, programs with different options | `Codec`, `DocRecord`; instantiates `DocMap` |
| `Codec` | `HtURLCodec`, `HtWordCodec` | - |
| `NormalPath` | `URL::normalizePath` | - |
| `URL` | the constructors of `URL`, `parse`, `normalize`; the way of a URL through the queue | `NormalPath` |
| `Notify` | htnotify: `main`, `parse_date`, the lists of the addresses | - |
| `Query` | `setupWords`, fuzzy groups, required words, `Parser` with its stack | - |
| `Display` | the list of matches, the window of a page, the links to pages | - |
| `DateRange` | the dates of `buildMatchList`, `mktime` | - |
| `Patterns` | `StringMatch`: the compiled table and its four searches | - |
| `Sequence` | abstract: a sequence with one traversal | - |
| `List` | class `List` | instantiates `Sequence` |
| `MCDig`, `MCPipeline` | webs, edits and servers for TLC | `Dig`, `Pipeline` |
| `MCParts`, `MCSearch` | sums of modules that share no state, with their instances | the modules above |
| `DigProofs` | theorems: types, IDs, descriptions; what is still to be visited; htdig implements `Crawl`; how far a dig goes | `Dig` |
| `MergeProofs` | lemmas about a merge, for the next two | `Merge` |
| `MergeDBProofs` | theorems: merging two databases | `MergeDB`, `MergeProofs` |
| `PipelineProofs` | theorems: digs and merges over the same files | `Pipeline`, `DigProofs`, `MergeProofs` |
| `ServerProofs` | theorems: requests, delays, robots.txt | `Transport`, `ServerDelay`, `Robots` |
| `ToolProofs` | theorems: htdump and htload, htnotify, the dictionary, mergeWords, the list | `LoadDump`, `Notify`, `Dictionary`, `Words`, `List` |
| `PageProofs` | theorems: what is indexed and followed of a page; records, `DocStore` implements `DocMap` and lists all | `HTML`, `DocStore` |
| `SearchProofs` | theorems: the range of dates, the pages of matches | `DateRange`, `Display` |

### State and actions of `Dig`

`phase` is where the process stands: `log`, `db`, `start` while the constructor
and `main` pass URLs to `Initial`; `dig` between two URLs of `Retriever::Start`;
`parse` inside `RetrievedDocument`; `down` when there is no process.

| variable | code |
|---|---|
| `docdb`, `disk` | the records of `db.docdb`: what this process sees, and what was there at the last `Close` |
| `nextID`, `nextOnDisk` | `DocumentDB::nextDocID` and its record in the file |
| `words`, `marks` | the lines of `db.wordlist` (closed after every append, hence durable) |
| `urlLog` | `db.log`, `{}` when there is none |
| `visited`, `known`, `bad`, `queue`, `pushed` | `visited`, the keys of `servers`, `_bad_server`, `_paths`, `_documents` |
| `turn`, `more` | the servers the iterator has still to reach in this round, `more` |
| `place` | the order of the buckets of `servers`: one order for all rounds of a run, chosen when the first begins and again only when the table grows |
| `noSignal` | the flag that `sigexit` clears |
| `restart` | the effect of `if (!from && visited.Count()) from = 3` |
| `cur` | `current_ref` and the part of the document not yet parsed |
| `web`, `down` | what the servers answer, and those that do not |
| `last`, `fetched`, `refused`, `cut` | history variables that only properties read; `cut` has the URLs whose retrieval a signal cut short |

| action | code |
|---|---|
| `Start` | `main` up to the constructor, with or without `-i` |
| `InitialLog`, `InitialDb`, `InitialStart` | the three callers of `Initial`: the log, the stored URLs, `start_url` |
| `LogRead`, `DbRead`, `Loaded` | the steps between them |
| `SkipServer`, `NewRound`, `Retrieve*` | the loops of `Start`, which take the servers in the order of `place`, and one outcome of `parse_url` each; `Hear` says what is heard of the page |
| `GotHref`, `Parsed` | one link of the page: the words of its text, the record of its target, the queue; the end of the page: words or marker, record |
| `Finish`, `DumpLog` | the two ways out of `Start`, with the destructors |
| `Signal` | `sigexit` between two retrievals, or at a link; during a retrieval it is a part of `Hear` |
| `Crash` | the end of the process without destructors |
| `Htdump` | htdump, whose Retriever reads and unlinks the log |
| `Publish`, `Outage` | the world |

Parsing is a sequence of steps because a signal may arrive, and the process may
die, between two links; the other outcomes of `parse_url` change the files in one
step each, the append to the word list and the `docs.Add` at the end together.

A signal in the middle of a retrieval does harm or does none (`Hear`).  While the body is
read it is only remembered, and the answer is whole (`WholeAnswer`).  While htdig waits for
`connect` or for the header it ends the wait, and what is heard is one of `CutAnswers`: a
server that is not there, no status or half a type (`Failures`); a `Location` that is cut and
may lead anywhere, or half of 304, a redirect without a target, which leads to the page itself
(`HalfRedirects`); a document without its date or its type (`HalfPages`), and one without a
type is plain text, without links or meta tags (`Plain`).  `Transport` shows in detail how
these come about.  The page has been popped, so it is in no log and no later run asks for it;
`cut` remembers it.  A server met for the first time may become bad likewise (`Connect`).

`Crash` keeps of every record either the version last closed or the last one
written, in any mixture: what the database library leaves of a file that was not
closed is not specified.  A redirect that leads to a new page is followed in the
same step in which it was answered, as in the code.

`Merge` has one step per call that changes a file: `BeginWords` (unlink the word
database), `MergeWords` (read, write, unlink the list), `LinkList`, `UnlinkNew`,
`BeginDocs`, one `ConvertURL` per document, `EndMerge`.

### The parts

A request (`Transport`) is a process of its own beside the server: the answer
arrives unit by unit, and every call of `connect`, `select` and `read` may
return, time out or be interrupted.  `pc` is `connect`, `header` (in
`read_line`) or `body` (in the loop of `RetrieveHTTP`); `line` is the string of
`read_line`, `part` what the current call of `io::read` has got, `trouble` the
history of what went wrong.  A header line is two halves and an end.  When a timeout, a
signal or the end of the input tears it, `read_line` returns the half it has and `readHeader`
acts on that, as it compares prefixes: `StatusRead`, `LengthRead`, `ValueRead` and
`LooksOther` give all that half a line may be read as (half of "302" or of "304" is "30", a
redirect; half of "text/html" is a type nobody can parse; half a length is a smaller
number; half a date or a target is a wrong one).  The other half begins like no line that
`readHeader` knows.

`Robots`, `Words`, `HTML`, `NormalPath`, `Notify` and `Patterns` are loops over input.
Their state is the place in the input and the local variables of the loop, and
their actions are the cases of its body, in the order of the code.  `Query` is
recursive: `calls` holds the calls of the parser that have not returned, the
innermost first, so that no operator is recursive.  `Codec`, `DocRecord` and
`DateRange` are functions, looked at over their inputs.

`MergeDB` extends `Merge` by the documents (`MergeURL`, one per URL of the other
database), the two word lists (`CopyOwn`, `CopyOther`) and the replacement of the
list (`UnlinkOwn`, `LinkMerged`), with `KillMergeDB` between any two of them;
`MergeOn` are the steps of the ordinary merge, which the same process does next.

`DocStore` is the database as several programs use it: each has the same codec
and compression, any operation may follow any other, and the file may begin with
records that an old version filed under the URLs themselves.  It implements
`DocMap`: a map from URLs to documents.  `List` has nodes with addresses, so that
a pointer to a deleted node can be told from a pointer to another one; it
implements `Sequence`.

`MCParts` and `MCSearch` are sums: a constant variable `component` says which
module makes steps in a behaviour, and the others stand in one state.  They
share no variable, so that nothing is lost, and one run has the instances of
seven or nine components.

### Abstractions

* A page is a status, a version, the list of its links, whether it asks not to be
  indexed, and whether it has text (`head`: what `DocHead` is made of).  Equal
  versions stand for equal modification times.
* The words of a page are one token that names the page and the version
  (`PageText`), the words of its links another (`LinkText`): both are filed by
  lines `[id, url, text]`.  Every link has a text, and `max_descriptions` is never
  reached, so that the descriptions of a record are all texts that
  `AddDescription` was given for it.
  Every page with status `ok` is assumed to have at least one word, and each
  version is stored under one modification time.
* The limits (`limit_urls_to`, `limit_normalized`, `exclude_urls`,
  `valid_extensions`, ...) are the set `Limits`; in `Dig` robots.txt is the set
  `Disallowed`, the same in all runs.
* The orders in which the log, the database and the servers are enumerated are
  arbitrary; that of the servers is one for a run, unless their dictionary grows.  The
  order of the URLs of one server is the code's.
* What a signal leaves of robots.txt is left out (the next run reads it again): it may make
  its server bad, and no more.
* `Transport`: an answer is its status, the header lines it has, and the number of
  pieces of its document; a line is torn in its middle or not at all.
* `HTML`: a document is a sequence of words and of well-formed tags, without
  attributes other than those the token names; a word is known by its place.
* `Words`: a word is its place in the order of `strcmp`, and the list is in any order,
  for sort may have used any collating sequence.  Half of `WordsMerged` has the premise
  that sort is given in return: markers first, lines of one word and document
  together.
* `URL`: a string is a sequence of characters, some of which stand for words
  (`http`, `index.html`, numbers); the pages are on http servers.
* `Notify`: a date is three numbers, cut short at the end; other documents are left
  out.
* `Query`: a word is the set of documents that have it; what the fuzzy algorithms
  make of a word is an input; scores are left out.
* `DateRange`: a day has three times (first second, one within, last second); the
  time zone is UTC.
* `DocRecord`: one number, one string and one list stand for all fields of their
  kinds; a string is its length.
* Left out: `local_urls`, `-m` of htdig and URLs given as arguments, backlinks,
  anchors, notification fields, the proxy.

## 3. Runs

Passing runs:

| run | instance | shows |
|---|---|---|
| `dig_restart` | 7 pages, 1 server, 2 start pages, 2 starts, web stands still | `DigTypeOK`; `NothingForgotten`, wherever the dig is stopped and started again; what is reached is exactly what is within `max_hop_count` (`ReachesExactly`) and stored hop counts are click distances (`HopsAreClicks`), if it was not stopped in the header of an answer or in `connect` |
| `dig_update` | 3 pages on 2 servers, 6 edits, one server flaky, 2 runs with `-i` or not, htdump | `UniqueIDs`, `OneContentPerID`: an ID belongs to one document, and the words of its own under it are those of one version; `DescriptionsFiled`: the texts of links that a record knows are filed under its ID |
| `dig_limits` | 4 pages on 2 servers, `server_max_docs` 1, one URL disallowed, 6 edits, one server flaky, the dictionary of servers grows, 2 runs, one kill | `Dig` implements `Crawl` (`OneCrawl`); `NoSecondVisit`; `RunsEnd` |
| `serve` | 3 pages, 5 edits, 2 digs and 2 merges, `remove_bad_urls` on or off | `IndexesAgree`, `AnswerKept`: what htsearch finds by a page's own words can be displayed, and what the last dig learnt is what is found |
| `merge_killed` | up to 2 digs before a merge, `-w` and `-d`, one merge killed, 3 merges, `remove_bad_urls` on or off | `IndexSound`, `NoStaleWords` after the first complete merge; `NoindexUnlisted`: what asks not to be indexed is not listed, also when a second dig before the merge was told that it has not changed |
| `parts` | the sum `MCParts` | see below |
| `search` | the sum `MCSearch` | see below |

`parts`:

| component | instance | shows |
|---|---|---|
| `Transport` | answers of up to 4 pieces with 1, 2 or 4 header lines, `timeout` 2, `max_doc_size` 3, buffer of 2, two tries | `TrueToServer`: when nothing goes wrong the retriever learns all that the server said, and when something does it takes a page for retrieved, unchanged or protected only if the server said so, and for moved only if the code begins with 30; `NoGaps`; `ThreeTimeouts`: the longest a silent server holds the dig up |
| `ServerDelay` | `server_wait_time` 3, 15 seconds, a signal | `EverySecondWaits` |
| `Robots` | all files of up to 4 lines, 2 paths | `OwnSectionRules` |
| `Dictionary` | 5 keys, 2 chains that become 5 | `FindsWhatWasAdded`, `IteratesOnce` |
| `LoadDump` | 3 URLs, IDs up to 4 | `RoundTrip` |
| `Words` | all lists of up to 5 of 8 lines (3 markers, 2 words, 2 documents) | `WordsMerged`: the new list and the word database say the same, and there is one record for a word and a document that is not discarded, with the sums of its lines |
| `MergeDB` | 2 URLs, lists as htmerge leaves them or with what a dig added, 2 tries, one kill | `IDsApart`, `MergedSound` (an entry of the index leads to the document whose words are filed under its ID, and words lead to entries, also after a second try), `NewestFound` |
| `Notify` | every date of three of nine numbers, whole or cut short, and three dates in another document, two addresses, both settings of `iso_8601` | `ToldOfExpired`: told once after the day that a page names, and not before it |

`search`:

| component | instance | shows |
|---|---|---|
| `Query` | all queries of up to 4 of 7 tokens, long ones with two operators and parentheses, a word that fuzzy search replaces by two or none, required words (with short queries only) | `MeansWhatItSays`: the syntax check accepts what the grammar generates, and the result is the meaning of the query |
| `Display` | up to 5 matches, 2 on a page, `maximum_pages` 2, each match present, excluded, outdated or absent | `EveryMatchShown`: whoever follows all links has seen every match there is room for, and, when no document is missing, once and under its number |
| `DateRange` | the fields of two dates: empty, relative, two or four digits, 29th and 31st, today 31 March 2001 | `RangeAsAsked` |
| `Patterns` | all lists of up to 5 characters, texts of up to 4 | `FindsWhatIsThere`, except where the text ends within a pattern |
| `Codec` | up to 2 aliases and 2 frequent parts, strings of up to 4 characters | `DecodesBack`, for codes that do not overlap |
| `DocStore` | 2 URLs, 4 documents whose fields lie around the lengths at which the encoding changes, `compression_level` 0 or 6, old records | `StoreIsMap`, `ListsAll` |
| `URL` | references of up to 4 of 8 characters, paths of up to 6, complete URLs, in two pages, one with a port and a query | `LeadsThere`: a reference means what RFC 1808 says, but for those listed under `Tame` and `Misread`; `SameURLAgain`: the URL in the queue is the one under which its record is stored |
| `HTML` | all documents of up to 3, 4 or 5 tokens of five families (overlapping sections; a link with text; links within links; comments; everything) | `HiddenNotIndexed`, `LinksOnce` |
| `List` | 3 nodes, 2 objects, positions 0 to 3 | `List` implements `Sequence` (`ListIsSequence`) |

The bounds are named constants: `MaxRuns`, `MaxCrashes`, `MaxMerges`,
`MaxMergeCrashes`, `DigsPerMerge`, `MaxTries`, `MaxKills`, `MaxTime`,
`MaxSilence`, `MaxLength`, `MaxID`.  They are enough for what the properties are
about: two runs have a file handed over once, three have it handed over by a run
that was itself a restart; the ladder of seven pages has a page beyond
`max_hop_count`, pages that two ways of different length lead to, a second
start page and a way back to it; with a limit of one document the second URL of
every server is refused.  `dig_restart` has one server, one restart, and start
pages that nothing near them links to because otherwise the hop counts are wrong:
that is what `hops_servers` and the first two of the further divergences below
show.  `ReachesExactly` and `HopsAreClicks` speak of digs that no signal cut (`cut = {}`), for
`dig_stopped` shows what it costs; `NoindexUnlisted` and `AnswerKept` except the page that was
cut, and all others hold whatever signals cut short.  A timeout of 2 can be told
from an answer that comes late but in time; a document of four pieces is longer
than `max_doc_size` and takes two calls of `io::read`; five lines of a word list
have a marker, two lines to be combined, and the next word; five documents on
pages of two have a full page, a page that is not full and pages beyond
`maximum_pages`; three nodes are a head, a tail and one between them.

Runs stop in the end because the bounds are used up or the input is read, which is
why deadlock is not checked; that htdig never stops by itself before its end is
`RunsEnd`.

**Fairness.**  `dig_limits` uses `FairDigSpec`, and only `RunsEnd` needs it: weak
fairness of `Work`, the steps htdig takes by itself.  It is the assumption that a
started process is scheduled; nothing is assumed about the world, signals or
kills.  Retrieval is one step of `Dig` because `Document` bounds it by `timeout`
and `max_retries`; how long it may take is `ThreeTimeouts` of `Transport`.
Everything else is safety.

### What the code does not do

Each of these runs checks one statement of a document or comment of the
repository and finds it violated; `PROJECT.json` quotes the statement.

* `hops_servers`: of two servers every round takes one URL each, so that the one with the
  shorter queue is ahead; a page is retrieved along a long way over that one before a
  shorter way lowers its hop count, and its links are not followed again.  The servers
  are taken in the same order in all rounds.
* `dig_stopped`: a signal while htdig waits for a header is taken for the end of the header
  (`Connection.cc:439`), and one during `connect` for a server that is not there.  The page
  counts as gone, its links are lost, and the restarted dig, which finds it neither in the
  log nor in a queue, ends without the pages behind it, although a dig "can be safely stopped
  and restarted" (`RELEASE.html:409`).
* `stale_minus`: a page failed once (`-`), then was unchanged (`+`), both before
  one merge: it is discarded although the last dig found it.
* `notify_today`: on the very day that a page names nobody is told, for `htnotify.cc:285`
  compares with `<` where the documents say "on or after".
* `date_open_end`: where `time_t` has 64 bits, `eternity` (a shift of an int) is
  -1, and a range of dates without an end checks nothing, not even its start
  (`Display.cc:1134, 1417-1420`).

Met while modelling, visible in the models, and avoided by the instances or
named premises of the passing runs:

*htdig*

* A start page that another start page links to gets its record at hop 1, and
  `parse_url` trusts the record (`Retriever.cc:361`); `attrs.html` says that a
  starting page has hop count 0.  `HopsAreClicks` fails if a link of `Ladder` leads
  from one start page to the other, and, since a log is read back in any order, after
  a restart also if one leads there from a page one click away.
* A dig that is stopped a second time goes on from a log whose pages may lie three
  clicks apart, in any order.  A page is then retrieved along a long way before a
  shorter one lowers its hop count, as with two servers, and its links are not
  followed again (`Retriever.cc:1350-1358`): `ReachesExactly` fails in `dig_restart`
  with `MaxRuns = 3`, where `d` is read as two clicks away before `b`, which links to
  it, and `f` is missed.
* The target of a redirect has the hop count of the page that names it and waits at the
  end of the queue (`got_redirect`).  One redirect is too few to matter, but three in
  a row delay the links of the last page until a longer way has led to what they name:
  `ReachesExactly` fails in a first dig of a web with such a chain.
* `htdig -i` reads the log of an interrupted run (`Retriever.cc:66-85`) and takes
  its URLs for start pages: `ReachesExactly` fails in `dig_restart` with
  `InitialFlags = {TRUE}`.
* htdump makes a `Retriever`, which unlinks the log of an interrupted run, and the
  dig begins anew: `OneCrawl` fails in `dig_limits` with `UsesHtdump = TRUE`.
* The text of a link to a page that has changed is filed under its old ID if the
  linking page is parsed first, and is discarded with that ID, for the new record
  begins without descriptions (`Retriever.cc:458-463`); it comes back only when the
  linking page itself changes.  The words of a link that is gone stay with an
  unchanged target.  Hence `DescriptionsFiled` is about what the record
  knows, not about what the web says.
* A line of the log longer than 1000 characters trips an assertion when it is read
  (`Retriever.cc:79`).
* `_documents` starts at 0 in every process, so `server_max_docs` is a limit per
  run and not per dig.
* After a delay of d seconds the next delay of that server is d seconds too short
  (`Server.cc:289-293`), and a signal ends a delay; hence `EverySecondWaits` and
  not more.
* `connect` has no timeout: the alarm that `Connection.cc:259-261` speaks of is
  `alarm(0)`, because `RetrieveHTTP` sets the timeout after it has connected
  (`ConnectTimes` fails).  It has one try, too, as nobody calls `retries()`; the run
  takes two.
* Half a header line is acted on: after a timeout or a broken connection, too, half of 304
  is a redirect without a target, a `Location` may be cut, and a page without its type is
  plain text.
* A document whose transfer broke off is stored as complete.
* A second `User-agent` line of one record of robots.txt ends our section
  (`Server.cc:158`); hence every such line begins a section in `OwnSectionRules`.
* HTML: the last `<a>` of a page that is not closed is never reported; a frame, area
  or link within `<a>` loses the link, and a refresh within it reports its URL
  twice; whether a link is followed is decided at `</a>` and not at `<a>`; a marker
  in a comment ends the comment and does not begin a section; descriptions of
  links take words that `<noindex follow>` hides.

*htmerge, database*

* With `remove_bad_urls` off, a page with a noindex tag that is unchanged in a
  second dig before the merge stays in the document index, without words: `parse_url` resets
  the mark on its record (`Retriever.cc:360`), and convertDocs looks at the marker in the
  list only with `remove_bad_urls`.  So it does after a merge of the words alone, or one
  that was killed, which uses the marker up.  These are the premises of `NoindexUnlisted`
  (`removeBad`, `~parted`), which fails without them.
* The words of links to a document that was never retrieved, or that convertDocs
  drops without a marker, stay in the word database and lead to no document; htsearch
  skips such matches.  `IndexesAgree` and `NoStaleWords` speak of a page's own
  words.
* After loading a record whose ID is the next one, the next new document shares its ID
  (`DocumentDB.cc:397`; `NextIsFree` of `LoadDump` fails).
* When every line is discarded, or the list is empty, the last record is written
  all the same: an uninitialised one, under the empty word (`words.cc:275`).
* `htmerge -m` copies the markers of a list that was not cleaned without adding the
  offset to their IDs (`db.cc:326`); `htmerge.html:85-90` wants both lists cleaned.
* `DocumentRef` cuts numbers below 0 (times before 1970) to one byte.
* A change of `compression_level` empties the heads of the documents that are
  there, and htmerge then drops them (`docs.cc`).
* Codes of `url_part_aliases` that overlap are not refused and are misread, where
  `HtWordCodec.cc:127` says "there will be no ambiguity" (`NoAmbiguity` fails).

*htsearch*

* A word that the fuzzy algorithms know nothing of leaves a gap that is not an
  expression (`htsearch.cc:654`; `StaysAnExpression` fails); the parser reports a
  syntax error that the user did not make.
* When documents of the list are missing in the database, `LASTDISPLAYED` is not the
  number of the last match on the page (`LastIsLast` fails), and a match may be
  shown on two pages; hence the two halves of `EveryMatchShown`.
* A range whose dates had to be swapped excludes both of its end days; the year
  "00" means that none is given; "one month ago" on 31 March is in March.  A range
  without any other reason to read the records is applied only if one of the
  factors is not zero (`backlink_factor` is 1000 by default).

*libraries*

* `FindFirst` of "aba|b" does not find "b" in "ab": the text ends within the longer pattern
  (`StringMatch.cc:252`; `FindsInAnyText` of `Patterns` fails).
* Growth of a dictionary during an iteration may return an entry twice or skip one;
  hence the premise `~grown` of `IteratesOnce` and the set `GrowAt` of `Dig`.  The
  dictionary of servers grows beyond 1010 servers.
* `normalizePath` goes through the path once for each kind of segment, though
  `URL.cc:334` says "minimal": "/./../" is taken for a step back from ".", and a
  last "/." or "/.." is missed behind a name that begins like it (`Misread`).
* References that are not understood (`Tame` in `URL`): "//host:port/...", and any
  "//" with a colon, for the colon is taken for that of the scheme (`URL.cc:255`);
  "?query" alone loses the file; ".//x" becomes "/x"; an empty port loses a
  part of the path ("http://a:/x", `URL.cc:291`); a host may be followed by a query only
  after a slash; "http:" alone is not the page itself.  Ports of other services than
  http are lost.
* Two `#` around a `?` leave an anchor in the URL (`URL.cc:95`), which is gone when
  `parse_url` parses it again: the document is stored under another name than the
  record of the link (`TwoAnchors`).
* `List`: after `Nth` of the last object, `Get_Next` and `Add`, `Nth` reads through
  a null pointer (`List.cc:348`).  No caller mixes them (`Mixed = FALSE`).
* `ToldOfExpired` promises nothing for dates that are ambiguous, nor does the comment
  at `htnotify.cc:523-525`, and nothing for the day itself (`notify_today`).

## 4. Proofs

TLAPS proves what follows for every value of the constants that satisfies the named
assumptions of the modules.  Each theorem rests on an inductive invariant: the
property alone is seldom kept by a step.  The proofs have one lemma per group of
actions.

**`Dig`** (`DigProofs`)

* `TypeCorrect`: `DigSpec => []DigTypeOK`.
* `IDsUnique`: with `MaxCrashes = 0`, `UniqueIDs` and `OneContentPerID` hold always.
  Neither is inductive: a page that is being parsed has left the database's view of
  its ID, and two documents could come to share words through it.  `IDInv` adds:
  the next free ID (in memory or, when no process runs, on disk) is above every ID
  of a record and of a word line; a document that was never retrieved has no words
  of its own under its ID; the page being parsed will be stored under an ID that no
  words of its own and no other record have.  `IDsAgree(db, lines, free)` states the
  part about the files for any database, so that the lemmas `PutKnown`, `PutNew`,
  `SkipID` and `PutRegistered` apply to the two or three writes of one step in turn.
  `MaxCrashes = 0` is needed: a killed run loses `nextDocID`, and then IDs are
  handed out twice (`DocumentDB.cc:97-104`).
* `DescriptionsAreFiled`: `DescriptionsFiled` holds always, with kills, too.
  `FiledInv` says the same of the database as last closed, to which a killed run may
  fall back, and of the record that is being filled in; lines are only appended
  while a run goes on, every text is filed in the step in which it is added, and a
  record that gets a new ID loses its descriptions.
* `VisitsOnce` and `KeepsAll`: `NoSecondVisit` and `NothingForgotten` hold always, for any
  number of runs, stops, kills and changes of the web.  `CrawlInv` is about
  where a URL can be: `QueueInv` (a queue has URLs of its server only, each once, none
  of them retrieved; what was visited is queued, retrieved or refused), `LogInv` (what
  a log promises the run that reads it), `LoadInv` (what the log, the database and
  the set of visited URLs have in common at every point of the loading), `StoreInv`
  (what was retrieved is stored, at the latest after parsing) and `RoundInv` (a round
  that took nothing has still to look at every server that has something, so that
  htdig cannot finish with URLs in a queue).
* `DigIsCrawl`: htdig implements `Crawl`, restarts included.  It has
  `InitialFlags \subseteq {FALSE}` (`-i` throws a crawl away) and `~UsesHtdump` (the
  htdump that unlinks the log, a hazard of section 3, throws away what is to be visited) as
  hypotheses, and is checked with them.  Each action is mapped to one of `Crawl` or a
  stutter, with `CrawlInv` for the loading.
* `NothingBeyond`: on a web that stands still (`Edits = {}`), nothing is asked for that is
  further away than `max_hop_count`, and a document is at most as far away as its record
  says; with redirects, servers that fail, stops, kills and restarts.  `BeyondInv` says this
  of the records, of the queues, of the page being parsed, and of the URLs that a log
  names and that will get their hop count from their record.  `LocationsWhole`: no signal cut
  the `Location` of a redirect, for half of one leads anywhere; other answers that are cut
  do no harm here.  `NoForcedRestart`: `-i` drops the
  records but not the log, whose URLs then come back with hop count 0 (`Retriever.cc:84-95`).
* `OneRestartReaches` and `OneRestartCounts`: `ReachesExactly` and `HopsAreClicks` for a dig of
  a `PlainWeb`, stopped and started again (`OneRestart`: nothing was killed or
  refused, and no signal cut a retrieval short; the first run, or the second if no limit of a server is set and the pages one
  click from the start link to no other start page).  They are a proof that htdig searches
  breadth first and that one restart does not spoil the search.  `BreadthInv` says, while the
  search goes on (`Searching`), that what waits is in two parts, the second one click further
  than the first, that what was retrieved is not further away than the first part,
  and that every link of a page that was parsed leads to a page that is known to be at most
  one click further (`Relaxed`).  In a first run each part has one hop count; what a stopped
  dig leaves has two, and comes back from the log in any order, so after a restart each part
  spans two (`Slack`): that is all the order the argument needs, and after a second stop
  it is gone, as the second of the divergences of htdig in section 3 shows.
  When nothing waits the search is `Settled`, and stays so in the next run; induction
  on the number of clicks (`Clicks`) gives both properties.
  `Within(n)` is stated with the least set closed under redirects, so that it needs no
  induction over sets.
  The hypotheses are needed, or needed for this argument: the target of a redirect waits at
  the end of the queue behind URLs that are further away; a start page that another page
  links to before it is retrieved keeps the hop count that the link gave it; the queues of
  several servers are not sorted together.  `NothingBeyond` holds for several servers,
  redirects and any number of restarts, too.

**`MergeDB` and `Pipeline`** (`MergeProofs` has what they share: what mergeWords and
convertDocs do to words, documents and the index)

* `MergeDBTypeCorrect`, and `IDsStayApart`: `IDsApart`.  The records of a merge that was killed
  may lie at or above the next ID; `IDsInv` says that they are then just those that the next
  merge will give to the same documents.
* `MergedLeadsRight`: `MergedIndexSound`, kills included.  `MovedInv` says how the documents
  and words of the two databases can be told apart by their IDs while the lists are
  copied; `Sound(db, lines)`, the fact itself for any database and list, is followed from
  the two lists into the new one and the words of the index.
* `MergeIsSound`: `MergedSound`, with `NoGhostsBefore` (in the two databases every word
  belongs to a document that a merge keeps, or to one that a marker gives up; what
  htmerge leaves is like this) as a hypothesis: where it fails the merge inherits
  words that lead nowhere.  `HomeInv` follows such words through the discard list,
  the duplicates and the URLs that were not looked at yet.
* `NewestIsFound`: `NewestFound`, kills included.  The hypothesis `WholeBefore`: of every
  document the text is in its list and convertDocs keeps it, and every line of a list is
  the only one of its document, or a marker gives it up (a document that is not found
  before the merge is not found after it).  `OriginInv`: a document is the own one or the
  other one's under a new ID, in every mixture that a kill leaves.  `TakenInv` says how
  `db_dup_ids` and `merge_dup_ids` tell which, `NewestInv` that the choice is the right one
  and `TextInv` where its text is at each step; `SingleInv`, that there is but one
  line of it, holds until a merge dies and forgets `db_dup_ids`.
* `PipelineTypes`, and `IDsOutlastMerges`: `IDsUnique` carries over to digs and merges in
  any order (`MaxCrashes = 0`: digs are not killed; merges may be).
* `FoundIsRight`: `IndexSound` for every web, all edits and all jobs, with the same
  hypothesis: a killed dig hands out IDs twice, and then words lead to the wrong
  document.  `TextInv` ties words to the version of the page
  they are from, while htdig parses it, too; `RestInv` says that the files a killed merge
  leaves fit together; `FoundInv` is about the words of a merge that is under way.
* `NoStaleFound`: `NoStaleWords` for every web, edits and jobs, with merges that are killed
  (`MaxCrashes = 0` and `Headed`).  `LiveInv`: words under the ID of a document that is gone
  are on the way to being discarded (`Superseded`, the discard list), all others belong to
  the stored document; so a URL has words under one ID only, and by `TextInv` from one version.
  `Headed` (every page has a text) is needed: convertDocs drops a document without one,
  mergeWords keeps its words, and the next dig takes up its URL under a new ID.
* `IndexesMatch`: `IndexesAgree`, with `MaxMergeCrashes = 0` and `Together` in addition (no merge
  of the words alone; the documents with a noindex tag are dropped, or there are none).
  `AgreeInv` says that every document with a text has a word in the list or
  in the index, or its ID is about to be discarded; `DigAgree` is this while htdig holds a
  page and its marker back.  Each hypothesis is one without which TLC finds
  `IndexesAgree` violated: a killed merge, or one of the words alone, forgets which IDs it
  discarded, and the record of a page with a noindex tag becomes a normal one when
  it is asked for again.
* `HiddenUnlisted`: `NoindexUnlisted`, with the same hypotheses and `VersionsTell` (a page whose
  noindex tag comes or goes has changed).  `OpenInv`: all words are from versions that
  may be indexed, or of pages that a signal cut; the rest follows from `IndexesAgree` and
  `IndexSound`, so it does not matter how many digs ask for a page before the merge.
* `AnswersAreKept`: `AnswerKept` for every web, edits, outages, signals and settings of
  `remove_bad_urls`, with the hypothesis `InTurn`: nothing is killed, every merge does the words,
  and one dig at most comes before each.  All are needed: what a killed dig had retrieved is
  lost, and with markers that no merge has read when the next dig begins, that dig can find again
  a document whose ID is given up (`stale_minus`).  `MarkInv` says when there are no markers,
  `OrderInv` that no URL waits twice, `OnceInv` that a document that a marker gives up is one of a
  URL that this run has done with; so the answer that counts was the last to write a
  marker, and `AllStay` says that its record is one that convertDocs lists.

**`Transport`, `ServerDelay`, `Robots`** (`ServerProofs`)

* `SilenceBounded`: `ThreeTimeouts`.  `SilenceInv` counts how many timeouts the silence
  has used up: one that ended a line, one that ended the header, one more for a signal.
* `NothingInvented`: `OnlyAsTold`, the half of `TrueToServer` about answers that are cut: what
  may be reported of them is the status that the whole code stands for, or that of half of it.
* `NothingMissing`: `NoGaps`.  `GapsInv` places the buffer and the contents in the answer.
* `ToldAsItIs`: `TrueToServer`.  While nothing goes wrong, no line is torn, `ReadSoFar` says which header line
  the reader is in (`LineAt`), what the lines before it have told it (`HeaderAt`) and that
  the contents and the buffer are the first units of the document.  `StreamShape`
  says where the lines of an answer are in what the server sends.  `AnswersAssumption`: an
  answer has a status line, and tells a length in its header line or not at all.
* `DelayInductive`, `SecondWaits`: `_last_connection` lies between the last two
  connections, hence `EverySecondWaits`.
* `OwnSectionWins`: `OwnSectionRules`, for every robots.txt.  The invariant compares the
  flags and patterns after n lines with the sections of those n lines.

**`LoadDump`, `Notify`, `Dictionary`, `Words`, `List`** (`ToolProofs`)

* `LoadTypes`, and `DumpRestores`: `RoundTrip`.  `DumpInv` says that while a dump is loaded
  the database lies between what it was and the dump, and the lines to come make up
  the difference.
* `ToldOnce`: `ToldOfExpired`.  `NotesInv` says of every page that was looked at in whose list
  it is; the lemmas about `parse_date` say that a date that is not ambiguous is read as meant.
* `AddedIsFound`: `FindsWhatWasAdded`; `EachKeyOnce`: `IteratesOnce`; `DictTypes`: for every
  set of keys, hash function, capacity and load factor.  `IsTable(t, n, some)` says that
  the i-th of n chains has the keys of a set with that hash, each once.  `InsertTable`,
  `RemoveTable` and `RehashedTable` say what `Add`, `Remove` and `rehash` make of it;
  `Insert` is applied to one entry after the other in `rehash`, hence `FromZero` and the lemmas
  `MoveTable` and `RehashedTable`.  `IterInv` says which keys the iterator has passed: those
  of the chains before its entry's and those up to it in its own (`PassedIn`).
  Adding puts a key at the front and removing takes one out, so that the order of the others
  stays (`SameOrder`); growth changes it, hence `~grown`.
* `WordsAddUp`: `WordsMerged`, for every list of lines and every order of them.  `StoreAppends`
  says that whichever of its branches `Store` takes, the line held back becomes the next record
  of its word, in `out` or in the database; from it follows `FiledInv`, that the new list
  and the records agree after every line.  In a list in order `SumsInv` says that the
  records and the line held back are the sums of the lines read (`Is`, kept by `FirstIs`, `MoreIs`
  and `StaysIs`), that a record once written is `Final`, and that no line was missed.
* `ListImplementsSequence`: `ListIsSequence`, for every sequence of calls on lists of any length,
  with the hypothesis that nobody calls `Get_Next` for the last object when `Nth` has
  reached it (`~Mixed`; no caller does, and `Nth` then reads through a null pointer).  `ListInv`: the
  nodes in use are a chain `c`, linked in both directions, each once (`Linked`); `head` and `tail` are
  its ends, the traversal stands at one of its nodes or is at the end, and the node that `Nth`
  remembers is the one with that number (`Ordered`).  For every call the chain that it leaves is
  named (`Longer`, `LongerAt` and `ShorterAt` of the one before), and the places of the sequence are
  read off it.  `StepsLead` and `StepsBack` say that going from node to node leads along it.

**`HTML`** (`PageProofs`)

* `OnlyTheVisible`: `HiddenNotIndexed`, for every document.  The first pass is a function on
  the numbers of tokens; `FromZero`, induction for sets of numbers, carries
  `IsState` and `KeepsTheRest` (what is kept are the tokens that no marker encloses) along
  it.  `TextInv` says after n tokens what the property says at the end: the flags are
  those that `OffAt` finds among the n tokens, and words, title and excerpt have
  what is visible of them.
* `EveryLinkOnce`: `LinksOnce`, for every document and every `max_description_length`.
  `LinkAt` follows the m-th token, an `<a>`: as long as nothing disturbs it, it is open and
  its description shows its words so far, or it was cut and given once; from its end
  on it was given once, or not at all if it must not be followed.

**`DocRecord`, `DocStore`** (`PageProofs`)

* `RecordsReadBack`: `Serialize` and `Deserialize` are inverse, for numbers of any size,
  heads compressed or not and lists of any length.
* `StoreImplementsMap`: `StoreIsMap`.  Its hypothesis is `KeysApart`: no URL has the key of another,
  or is it (`url_part_aliases` and `common_url_parts` can be chosen so that this fails; where the
  codes are apart TLC checks it as a part of `ListsAll`).
* `DocumentsListed`: `ListsAll`.  Its hypothesis is `KeysDecode`: every key is decoded to its URL, and a
  URL that an older version filed as it is to itself.  That is what the codec promises where the codes are
  apart (`DecodesBack`, model-checked), and TLC finds it in every state of `search` in which they are.
  `KeysApart` follows from it (`DecodedApart`).  `UnderKeys` is the inductive
  invariant: every record is under the key of a URL or, old ones, under the URL, and never
  is there one under each, which would be listed twice; `Add` keeps that because it removes the old
  record first.

**`DateRange`, `Display`** (`SearchProofs`)

* `RangeIsAsAsked`: `RangeAsAsked`, for every form and every day it is filled in.  The lemmas about
  the calendar say that the days the code computes for two dates are in the order of the
  dates (`DatesInOrder`, from the lengths of months and years, leap years by their rule and
  not one by one) and that every day has a date (`DateOfDay`, by induction); `DatesAsAsked` that
  the code makes of the two fields of the form the dates the property speaks of (not relative,
  real, and in order), whichever of their parts are missing.  `EndsIn2038`: `time_t` has 32 bits (with 64 the property
  fails, `date_open_end`).  `SaneForms`: months up to 12, and no start after 2037, for then
  `mktime` fails, and what the code makes of that selects everything.
* `EveryMatchIsShown`: `EveryMatchShown`.  `Ranks` says that the sorted list has every match once.
  `PageInv` places the loop in the list: it still skips what earlier pages show, or the
  page has all that is there between its begin and the place.  `WindowShown` follows: a page that is
  done has shown its window (`PageDone`), and with missing documents the windows overlap and
  never leave a gap.  That every page is reached is an induction over the links
  (`AllPagesSeen`), that every place of the list is on one is arithmetic (`PageOfPlace`).

Only model-checked, and why:

* `RunsEnd` (liveness), and `DecodesBack`,
  `MeansWhatItSays` and `FindsWhatIsThere`: they speak of what recursive
  definitions and folds compute (codes, matches), or of a text read by a parser.  The
  library's induction theorems are out of the provers' reach, and each of these needs
  an induction made by hand, as in `PageProofs` and for `rehash`, `mergeWords` and the nodes of
  a list in `ToolProofs`.
* `ReachesExactly` and `HopsAreClicks` are not stated beyond the hypotheses of their theorems:
  with several servers, chains of redirects, start pages that are linked to and after a
  second restart they fail, as section 3 shows.
* `LeadsThere` compares what the rewriting of a path ends in with a walk through its parts, which is
  a fold: an induction as above, over the characters of the path.
* `SameURLAgain` needs no such induction.  It would need assumptions on the hosts and
  ports of `Parents` (that their strings are parsed as they are), and lemmas about
  `strtok` and about each removal that say which of the patterns a shorter path still has.  They
  are not written.
* `IndexesAgree` where pages have a noindex tag and `remove_bad_urls` is off, which holds when
  every dig is followed by its merge (`serve`) and not otherwise; `NoindexUnlisted` when
  merges of the words alone are possible but have not happened yet, or `remove_bad_urls`
  changes from one merge to the next (`merge_killed`).

No module declares a RECURSIVE operator, so that all can be proved about.

## 5. Not modelled

* Berkeley DB (`db/`) is vendored code, two thirds of the repository's C: it is a map
  from keys to records, and what a process that dies leaves of it is any mixture
  (`Crash`).  The same holds for `regex.c`, the matcher of the C library that is
  also vendored, for the classes that wrap them, and for `String`, `Configuration`,
  `Queue` and `Stack`: TLA+ has their values.
* `htfuzzy/` transforms the spelling of words (soundex, metaphone, endings, ...),
  character by character, without state that outlives a word.  `Query` takes its
  result as an input.
* The scores and the sort by them, the excerpts, the templates and the HTML of
  `Display.cc`: formatting, with arithmetic in floating point.
* The text below the tokens of `HTML.cc`, `Server.cc`, `htsearch.cc` and
  `Document.cc`: entities, attributes, dates, mail addresses, the splitting of
  lines.  Of `HTML.cc` also `<base>`, anchors and meta descriptions.  The other
  parsers (`Plaintext`, `PDF`, `ExternalParser`) pass words on or run a program.
* The names of hosts in `URL.cc` (looking them up, `server_aliases`), `URLTrans`
  and `HtURLRewriter`.
* `rundig -a` renames the work files one by one while htsearch may open some of
  them old and some new, and two digs may run over the same files: there is no
  locking, `htdoc/running.html` says so, and nothing is promised that a property
  could state.
* The text of the mails of htnotify.
* `contrib/`: scripts that are not part of the programs.

Hence the share of the repository's lines that the models stand for is small: of
the lines of htdig, htmerge, htsearch, htcommon and htlib most are text, and most
lines of the repository are those of the database library.

## 6. What is left

1. Proofs: `LeadsThere` and `SameURLAgain`.
2. Larger webs for `Pipeline`, and `MergeDB` over the databases that `Dig` leaves
   rather than over a set of them.
