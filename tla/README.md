# FCPP: a TLA+ model of the search engine

This directory holds TLA+ specifications of the program in `src/SearchEngine/src`
and of the parts of libpqxx 7.9.2 in `src/SearchEngine/libs` that keep state or
turn values into text, TLC configurations that model-check them, and proofs that
TLAPS checks. The program is a crawler ("spider"), a PostgreSQL index and an HTTP search page in
one C++ process on Windows. It has no tests of its own; the only statement of
what it should do is the assignment in `src/README.md` (in Russian), which is
quoted here by line. libpqxx, the library through which it talks to PostgreSQL, is
kept in the same repository as source and makes up most of it; what its headers
promise is quoted the same way.

## 1. The system

### Components

| Component | Source | State | Operations | Talks to |
|---|---|---|---|---|
| Spider | `Spider/Spider.cpp` | `taskQueue`, `activeWorkers`, `visitedUrls`, `stopWorkers`, two mutexes, a condition variable, the pool | `run`, `worker` on every thread, `addLinksToQueue` | URLParser, HTTPUtils, Indexer, Database (blocking calls, outside its locks) |
| Database | `Database/Database.cpp` | tables `documents`, `words`; no connection outlives a call | `initializeDatabase`, `insertDocument`, `insertWords`, `getRankedDocuments` | PostgreSQL; called by every worker and by the io thread at once |
| HTTP server | `SearchEngine/SearchEngine.cpp` | one `acceptor`, `socket_`, `buffer_`, `request_`, `response_`, `deadline_` for the whole server | `run`, `doAccept`, `checkDeadline`, `readRequest`, `processRequest`, `writeResponse` and their completion handlers; `stop` from another thread | Boost.Asio, Database |
| Search page | `SearchEngine.cpp:164-267`, `search_form.html` | none | decode, lower case, split, query, fill the form | Database |
| Indexer | `Indexer/Indexer.cpp` | none | HTML to words and their frequencies | called by the spider |
| URLParser | `Utils/URLParser.cpp` | none | `parse`, `extractLinks` | called by the spider |
| HTTPUtils | `Utils/HTTPUtils.cpp` | none | `fetchPage`, blocking, "" on any failure | called by the spider |
| Config | `Utils/Config.cpp` | the settings | parse, `get`, `validateConfig` | read by Application |
| Application, main | `Application/Application.cpp`, `main.cpp` | the objects, two threads | construction, `run` / `ConsoleSearch` / `HTMLSearch` | all of the above |
| Logger | `Utils/Logger.cpp` | one mutex | `log`, `logInfo`, `logError` | leaf |
| libpqxx: transactions | `transaction_base.cxx`, `transaction.cxx`, `robusttransaction.cxx`, `subtransaction.cxx` | status, focus, pending error, registration with the connection or the parent | begin, exec, commit, abort, destructor; `perform` around them | Connection, the session of the server |
| libpqxx: pipeline | `pipeline.cxx` | `m_queries`, `m_issuedrange`, `m_num_waiting`, `m_dummy_pending`, `m_error`, `m_retain` | insert, retain, resume, flush, complete, cancel, retrieve, is_finished | its transaction |
| libpqxx: cursors | `sql_cursor.cxx`, `cursor.cxx` | the library's account of where the server's cursor stands; a stream and its iterators | fetch, move, retrieve; read, ignore, the iterator's calls | its transaction |
| libpqxx: COPY, encodings | `stream_to.*`, `stream_from.*`, `stream_query*`, `encodings.*` | none that outlives a line | write a row, read a row, find the next special character | |
| libpqxx: arrays, composites, ranges, numbers | `array.*`, `composite.hxx`, `range.hxx`, `strconv.cxx`, `time.cxx`, `util.cxx` | position in the text | to text and from text | |
| libpqxx: large objects | `blob.*`, `largeobject.*` | a descriptor; two buffers | open, read, write, seek, resize, whole objects; stream buffers | its transaction |
| libpqxx: connection | `connection.cxx`, `notification.cxx`, `errorhandler.cxx` | receivers by channel, error handlers, the transaction | add and remove, get_notifs, process_notice, close | the session of the server |
| libpqxx: results, errors | `result.cxx`, `row.cxx`, `except.*` | none | rows, slices, columns; which exception an SQLSTATE becomes | |

`Application::run` starts one thread that runs the spider, which starts the pool
(`hardware_concurrency()` threads), and one thread that runs the HTTP server; it
joins the spider, waits for Enter, calls `SearchEngine::stop` and joins the
server. The other two executables only search.

### What is hard in it, and what makes it correct

* **Spider.** Termination detection: a worker declares the crawl over from a
  counter and a queue that all the others change, at five exits of its loop.
  *No work may be left when the flag comes up; the flag must come up; everybody
  must notice.* The check of `visitedUrls` and the insert must be one step: *no
  page is downloaded twice.* `addLinksToQueue` searches `visitedUrls` under the
  other mutex: *no link may be lost by it.* The depth is cut off in two places
  and a page's depth is whatever path was the first: *the pages within the
  depth, and no others, are indexed.* Every call in the loop can throw.
* **Database.** A page is written by two transactions on two connections, and
  searched by a third at any moment. *The words of a page are those of its
  stored content; a search counts one content, not a mixture; a failure between
  the transactions is repaired by the next crawl; writers do not wait for each
  other in a circle.*
* **HTTP server.** One socket, buffer, request and response serve whoever is
  connected, while handlers of an earlier connection may still be queued, and
  `doAccept` is called again while the socket is in use. *One accept is on its
  way at any time; a handler ends the connection it belongs to; what a client
  gets is the answer to its own request; a silent client is dropped; a waiting
  one is accepted; `stop` ends it all.*
* **Application.** Order of construction and shutdown; end of input.
  *The prompt comes up when the index is complete, no thread outlives the
  objects it refers to, the server listens where Config.ini says, and the
  terminal can end the program.*
* **Words and URLs.** The words of the index and those of a query are made by
  different code, over bytes of two encodings; URLs of one page can be written in
  several ways. *What stands on a page and is typed as it stands is found; one
  page has one URL.*
* **libpqxx, transactions.** Objects of four kinds on one connection, whose calls
  come in any order, exceptions swallowed, the connection lost at any point,
  commits whose outcome nobody knows. *All or nothing, as the object says; what
  is run again has left nothing behind; the connection is clean when the last
  object is gone.*
* **libpqxx, pipeline.** Several queries in one string behind a dummy, results
  that arrive later, a replay when the string does not parse. *Every query gets
  its own result or an error of its own, in order and once.*
* **libpqxx, cursors.** The library counts where the server's cursor stands.
  *Its count is right, or says that it is unknown; an iterator shows the block it
  stands on.*
* **libpqxx, text.** Values written and read by different code, in encodings in
  which the second byte of a character can be a backslash, at the limits of the
  integer types. *What is written is read back; what has no value is refused.*
* **libpqxx, large objects and connection.** Handles that share an object, buffers
  in front of it, LISTEN and UNLISTEN that take effect with a commit. *What was
  written is there and where it was written; receivers hear what was sent to
  them.*

The list in `PROJECT.json` under "hazards" has each of these at its line.

## 2. The modules

| Module | Models | |
|---|---|---|
| `Crawl` | what a crawl promises: pages found, claimed once, closed only when complete | abstract |
| `Spider` | `Spider::run`, `worker`, `addLinksToQueue` | implements `Crawl` |
| `MCSpider` | the webs and failures TLC uses | |
| `SpiderProofs` | six invariants of `Spider`, and the inductive one they make up; `Spider` implements `Crawl`; what a crawl covers, up to which depth | TLAPS |
| `SearchIndex` | what the tables promise a search | abstract |
| `Database` | `insertDocument`, `insertWords`, `getRankedDocuments`, and which page a search ends in | implements `SearchIndex` |
| `MCDatabase` | pages, contents and words for TLC | |
| `DatabaseProofs` | `IndexCaughtUp`, the refinement of `SearchIndex` and what a search answers, for one crawler; the types for any number | TLAPS |
| `SearchEngine` | the server's handlers, `stop`, Boost.Asio, the other ends of the connections | |
| `MCSearchEngine` | the connections for TLC | |
| `SearchEngineProofs` | five invariants of `SearchEngine` and the two inductive ones: types, accept and deadline; one operation at a time, and whose request is answered | TLAPS |
| `Application` | main(), the two threads, the terminal; composes `Crawl` and `SearchIndex` | |
| `MCApplication` | pages and contents of Config.ini for TLC | |
| `ApplicationProofs` | four invariants of `Application` and the inductive one | TLAPS |
| `Text`, `Urls` | `Indexer::index` against `processRequest`; `parse`, `extractLinks` | functions |
| `Transaction` | work, robusttransaction, nontransaction, subtransaction and the session | state machine |
| `Pipeline` | `pqxx::pipeline` and the server behind it | state machine |
| `Cursor`, `CursorStream` | `sql_cursor`, `stateless_cursor`; `icursorstream`, `icursor_iterator` | state machines |
| `Blobs`, `ObjectStreams` | `pqxx::blob`; the stream buffer over a large object | state machines |
| `Connection` | receivers, error handlers, LISTEN | state machine |
| `Encodings` | the glyph scanners and the search for ASCII characters | functions |
| `Copy`, `Arrays` | the texts of COPY, of arrays and of composite values | functions |
| `Numbers`, `Ranges` | integers, dates, binary data; ranges | functions |
| `Results`, `Errors` | rows, slices, columns; exceptions and what `perform` retries | functions |
| `Sessions`, `Machines` | the state machines of libpqxx as parts: their variables, their sizes and what is assumed of those | |
| `MCParts` | all parts from `Text` on that share no state, each by itself | |
| `TransactionProofs` | the inductive invariant of `Transaction` and what follows from it | TLAPS |
| `MachineProofs` | ranges, over every set of integers; the inductive invariants of cursors, streams, large objects and connections | TLAPS |
| `PipelineProofs` | the inductive invariant of pipelines | TLAPS |
| `PartsProofs` | nine properties of `MCParts`: seven from those of its parts, and texts, URLs and rows of errors of every length | TLAPS |

### Spider

A thread is at a program counter (`pc`); its names follow the loop of
`Spider::worker`:

    ready -> asleep -> ready          wait() on taskCondition         44-47
    ready -> exited                   stopWorkers                     49-51
    ready -> depth                    pop, ++activeWorkers            53-57
    depth -> finish | visit           task.depth >= maxDepth          63
    visit -> duplicate | insert       visitedMutex taken              76-77
    duplicate -> ready                queueMutex inside visitedMutex  78-86
    insert -> fetch                   insert, visitedMutex released   88-89
    fetch -> document | finish        parse, fetchPage                94-97
    document -> words | finish        insertDocument                  109
    words -> extract | finish         index, insertWords, line 114    111-114
    extract -> adding | finish        extractLinks, queueMutex        115-118, 146
    adding (one link) ... -> size     the loop of addLinksToQueue     147-154
    size -> finish                    size() for the log, notify_all  119-122
    finish -> ready                   --activeWorkers, the test       65-71, 99-105, 130-136

A critical section in which nothing else can happen is one step, enabled while
its mutex is free. Two are not: the one of `visitedMutex`, which waits for
`queueMutex` at line 79, and the one of `addLinksToQueue`, which reads
`visitedUrls` without `visitedMutex`. The unsynchronised `find` that meets an
insert is undefined behaviour and has every outcome the containers can
produce: it sees the new element or not, misses an old one (a rehash), or
kills the process (`RaceCrash`). `run` itself is `mainPc`; a thread that
cannot be created ends it while the others work on ("threw"). The five
exceptions of the loop body are the `Faults`: thread creation, the download
(which may also be a malformed URL or an empty page), `insertDocument`,
indexing with `insertWords`, and the extraction of the links; a transaction that
throws may have committed.

`web` is the Internet: the list of links of each page, chosen at the start from
`Webs` and constant during a crawl. `documents`, `indexed`, `fetched` and
`expanded` are what the crawl has done so far.

### Database

A writer takes one statement per step: SELECT, UPDATE or INSERT, commit;
DELETE (which finds its rows, and then waits for their locks), one INSERT for
each word, commit. PostgreSQL runs at its default isolation, READ COMMITTED, which
the code does not change: a statement sees what was committed when it began, a
row written by an open transaction makes the next writer wait, `url` is UNIQUE.
A search is one SELECT, hence one step. `Rollback` is any exception or the
end of the crawler, at any step; `LostCommit` is a commit whose answer is lost.
`Index`, what `Indexer::index` finds in a content, is a constant.
`documents.id` is identified with the URL, since no document is ever deleted.
A commit whose answer is lost has been decided by the time the worker sees the
exception.

### SearchEngine

The io thread runs one handler at a time, in the order they were queued
(`ready`); each handler is an action that makes all the calls its code makes.
`pending` holds the operations that have begun and not ended. From Boost.Asio
and Beast the model takes only what the handlers can tell: closing the socket
ends the operations on it with an error, accepting into an open socket ends at
once with `already_open`, cancelling a timer leaves an already queued handler
alone, a read parses what is left in `buffer_` before it waits for the network.
Requests have two pieces, so that they can arrive in part; a first piece of
one connection followed by a piece of another one is taken as malformed. Two
reads or writes at a time on the one `buffer_` would be undefined behaviour; the
invariant `OneOperation` says that it does not come to that, and the model stops
there if it does. `stop` runs on the main thread, its two calls interleaved with
the handlers; the data race between `acceptor.close` and a `doAccept` that runs
at the same instant is not modelled.

### Application

`main` is where the main thread stands, by the member that is constructed
(`config` ... `server`, then `validate`: the settings are checked last, after the
acceptor has bound the port modulo 2^16), the threads that are started and joined,
the prompt, the stop and the destruction. `Url`s go through the steps of a worker
(claimed, stored, indexed) in the order of `Spider::worker`; between the steps the
crawl is what `Crawl` allows and the tables are what `SearchIndex` allows, and
those two are what `Spider` and `Database` were shown to implement. The two
compositions are by conjunction: `Claim(u)` is `C!Claim(u)` with the step of the
page, `Store(u)` is `I!Store(u, Page)`, and so on. Threads that cannot be created
throw in three places with three different ends; destroying a `std::thread` nobody
joined is `std::terminate` (`Unjoined`). The terminal types lines, or comes to its
end, at any moment. A `Config.ini` is a record: the file, the database, the start
URL, the depth and the port, each good, absent, no number or odd.

### Text and Urls

`Text` has one character of each kind the code tells apart: letters of each case,
digits, hyphen, underscore, other punctuation, space, tags, two-byte letters of
UTF-8 and what they are in Windows-1251, and the two tags of a script, which are
removed with what stands between them or, when one has no partner, as any other tag. `Index` is what `Indexer::index` makes of a
content; `Words` what `processRequest` makes of the form with the same word typed
in. `Findable` says which of the words can be found: those of Windows-1251 letters
without a hyphen or underscore (the query drops both, the index keeps them). Lengths
count bytes of UTF-8. `ispunct` of a negative char is taken as false, which is what the
release build does. `Urls` are sequences of pieces; the start URL keeps its final
slash and links lose theirs, so a site's start page can be crawled twice, and a relative
link hangs below its page instead of beside it: `OneUrl` states what does hold.

### libpqxx

*Transaction.* Two main objects one after the other and a subtransaction; a step is a
call, with what the server does for it; the connection can be lost at each of
them, before or after the server has done its part. `excuse` collects what a
program was told, so that `AllOrNothing` asks for all only where nobody was told
of a failure. The constructor of a robusttransaction sends two statements, BEGIN and then
SELECT txid_current(); when the second fails (`Abandons`) no object is left, no
destructor of the class runs and the session stays in a failed transaction
(robusttransaction.cxx:94-101). `abort()` with a pending error never sends its ROLLBACK
(transaction_base.cxx:169-191, 442-456). Both contradict dbtransaction.hxx:34-36, where an
object is said to end its transaction whatever happens; `SessionClean` excepts these two
and no other ("begun" and "rollback" in `excuse`).
Kept from the code and worth knowing, too: committing a transaction
the server has failed reports success; `exec_params` ignores the status and the
pending error; robusttransaction and subtransaction never register themselves; a
robust transaction whose server says "aborted" still ends in doubt; an SQL error of
the status query passes for an aborted commit.

*Pipeline.* Queries are fine, wrong in syntax, or fail when run; a result has come in or
not (`Arrived`); `retain` takes 0, 1, 2 or more than there are. Kept from the code:
`flush()` does not reset `m_error` though pipeline.hxx:98-99 says so; `obtain_dummy`
unregisters the focus; `cancel()` leaves results unread; in a nontransaction a batch
with a run-time error reports its earlier queries as done although the server rolled
them back; in a work the first query of an unparsable batch gets the blame.

*Cursor, CursorStream.* `rows` is the size of the result, `at` where the server's cursor
stands, the rest is the library's. Kept: `retrieve(size, end)` downwards returns the row of
number `end` too (cursor.cxx:57-59), where cursor.hxx:220-224 allows that `begin_pos` and
excludes `end_pos`; an iterator that comes to a block the stream has already read is never
filled ("late"), where cursor.hxx:407-410 has it read from wherever it moves to. `PositionKept` and
`BlocksShown` say nothing of these two cases.

*Encodings, Copy, Arrays.* A byte is a number, a character one of the patterns of its
encoding, and the values of a row range over all characters that could be mistaken for
others. Kept: JOHAB and MULE_INTERNAL check the wrong bytes; a composite field that
begins with a multibyte character, or holds `]`, is refused; a one-field composite is
written with a comma too many; writing escapes byte by byte, which ASCII-unsafe
encodings break; `{}` is refused for two dimensions. Each of these is excepted, by name, in
`RowCopied`, `ArrayRead` or `CompositeRead`.

*Numbers, Ranges.* Integers have 4 or 8 bits, signed or not, in place of the machine's
widths, and `from_string_integer` and `to_buf` work at their limits; dates are the
C++20 build's; ranges are over any `Values`.

*Blobs, ObjectStreams.* Two blobs, a few handles; chunks of one byte, buffers of two.
`from_buf` is two actions: with an oid of the caller's (`FromBuf`), and with the default id of
0 (`FromBufNew`), where the removal after a failure is of that 0 and an empty object
stays (blob.cxx:241). `append_to_buf` takes lo_read's -1 for a length, so that
a failed read costs the buffer its last byte (blob.cxx:292-294); `to_buf`
leaves the buffer as it was made to fit. `BlobsWhole` says what is true all the same. In a stream
a failed read looks like the end of the object; `sync` of what is read sets the buffer
back to its front, so that characters already got are in it again (largeobject.hxx:421; `back` holds them),
and its error marks the stream as bad, which ends its reading; after a short write the
destructor writes the same again. Seeking, which neither flushes nor drops the buffers, is left out.

*Connection.* Kept: a LISTEN inside a transaction that is rolled back leaves the
receiver deaf, and the next receiver of the channel does not LISTEN either
(connection.cxx:410); `ReceiversServed` excepts just that.

*Results, Errors.* Kept: `to` ignores where a slice begins; `column_storage` compares a
column with the number of rows; 40002 and 57P01 are plain `sql_error`s, 08007 and 53300
count as a broken connection and would be retried; 42501 loses its code.

The parts share no state, so `MCParts` looks at one at a time: `case` names it, with
its inputs if it only computes; the variables of the others keep one value. One run in
place of sixteen, and no product of parts that cannot influence each other.

## 3. The runs

All but `Parts`, which takes a minute and a half, finish in seconds on two workers: `tlc -workers 2 -config SpiderCrawl.cfg
MCSpider`, and so on, `MCDatabase`, `MCSearchEngine`, `MCApplication` and `MCParts` for the runs named after
them; `tlapm SpiderProofs.tla` and so on check the proofs. The
definitions the modules call mutants are the code with one plausible mistake in
it (a dropped guard, a missing reset, a swapped order): for every property of a
passing run there is one under which TLC finds that property violated.

| Run | Instance | Shows |
|---|---|---|
| `SpiderCrawl` | 2 workers, 4 pages, 12 webs, depth 3, every failure | `StopMeansNoWork`, `FetchedOnce`, `NoLinkLost`, `DepthBounded`, the inductive invariant of the proofs, `RefinesCrawl`, and that `run` returns and every worker leaves its loop |
| `SpiderShallow` | 3 workers, 3 pages, 125 webs, depth 2, no failures | `DepthCovered`, `NothingDeeper`, `VisitedReadSynchronised`: at the depth of `Config.ini` the crawl is exact and free of the race |
| `DatabaseOneCrawler` | 2 workers of one crawler, 2 pages, 2 contents, 2 words, 3 writes, 4 searches, LIMIT 1, largest int 6, every failure (368,760 states) | `IndexCaughtUp`, `AnswerCountsOnePage`, `RefinesSearchIndex` |
| `DatabaseLocks` | 2 crawlers, 3 writes, no search, no failures | `JobsEnd`: no circle of row locks |
| `Server` | 2 connections, 2 requests each, a stop at any moment | `OneAccept`, `DeadlineOwn`, `OneOperation`, `AnswersOwnRequest`, `SilentDropped`, `StopReturns` |
| `Application` | 3 pages, 2 webs, 12 contents of Config.ini, 3 executables, 2 lines typed, one port taken, every failure (84,328 states) | `PromptMeansIndexed`, `ThreadsEndFirst`, `ListensWhereSaid`, `CommandsEnd` |
| `Parts` | the parts of the search page and of libpqxx, see below (843,144 states) | `TypedAsIndexed`, `OneUrlPerPage`, `FieldsKept`, `ValuesKept`, `AllOrNothing`, `SessionClean`, `RetriedMeansUndone`, `PipelineInOrder`, `CursorsInPlace`, `ObjectsWhole`, `ReceiversServed` |

The bounds. Two workers give every pair of accesses that can race; with three, one
can sleep, one end the crawl and one still add links. Depth 3 is the first at which
two workers add links at the same time and at which a page can be reached at two
different levels that both matter. The lists of links hold mutual and backward
links and a visited link in front of a new one. Three writes of a page are a
first content, a second one and one racing it. The first content has the word x 3 times
and y 4 times, the second y twice; the searches are for nothing, for each word
and for both. With a largest int of 6 the sum over the first content (7) throws, while
each word of it, the second content, and a mixture (3 + 2) have answers: an answer that
counted a mixture would be told. A LIMIT of 1 is met by two pages. Two
connections are needed for a handler of one to meet the other, and two requests for a
connection that was served once and comes back.

In `Application` the second web has a page that is found two links from the start; the ports
are good, privileged, negative, 0 and a good one modulo 2^16, and one that is
taken; two lines are enough for one that is typed too early and one in time. In
`Parts` the inputs (about 80,000) are texts of up to 4 characters, paths of up to
3 segments, rows of one field of 2 characters or two of 1 in each of the 13 encodings,
arrays of 1 and 2 dimensions, integers of 4 and 8 bits with up to 3 digits (one more
than the widest has, so that every overflow is met), dates at every change of the
number of digits and of the month's length, ranges over five values, sequences of two
errors, results of up to 3 rows and 3 columns. Of the state machines, `Transaction` (327,000
states) has two main transactions, of every kind and then a nontransaction that finds
what the first left, a subtransaction and two writes each; `Pipeline` (150,000) three queries,
so that one can fail between two; `Connection` (167,000) two channels, two receivers, two handlers
and two notifications; `Blobs` (63,000) two objects of up to two bytes in chunks of
one; `CursorStream` (28,000) three iterators on three rows; `ObjectStreams` (22,000) objects of
twice the buffer; `Cursor` (250) moves of up to 3 rows on up to 4.

Five more runs contradict what `src/README.md` says or what its criteria ask for (the findings of
`PROJECT.json`, with the quotations):

| Run | The code | `src/README.md` |
|---|---|---|
| `SpiderDepthThree` | a page first visited over a longer path hides what it links to | 63 |
| `SpiderVisitedRace` | `find` at `Spider.cpp:148` concurrent with `insert` at 88 | 120 |
| `DatabaseTwoCrawlers` | two crawlers that index the same page at once store its words twice: neither DELETE sees the other's rows and nothing in table `words` is unique | 80 |
| `ServerDeaf` | after the first response nothing ever closes `socket_`: the next client is never accepted and the io thread spins | 70 |
| `ServerWriteError` | a stale failed write closes the next client's connection | 72 |

Disagreements that are not worth a run, because they can be seen in the code without one: a page
with any of the words of a query is found (`WHERE w.word IN`, `Database.cpp:117`, `Database!Found`), where
`src/README.md:78` asks for all; a query that throws is shown as a page with no results
(`Database.cpp:149-152`, `Database!Page`), where `src/README.md:88` asks for the error; and those of
libpqxx with its headers, which section 2 lists as kept. The models do in each case what the
code does, and the properties leave the case out by name.

Two properties hold for a reason outside the code. `AnswerCountsOnePage` needs that one crawler
writes at a time; `DatabaseTwoCrawlers` is the same property with two. `AnswersOwnRequest` needs
that a client waits for its answer before it sends the next request: what one connection has
sent ahead stays in `buffer_` and is parsed on the next connection. And it excepts answers
given after some other connection was cut off in the middle of a request. With three connections
of one request each that exception is met: the deadline drops the first one after half a
request, which stays in `buffer_`; the second one's request makes a malformed whole with it, of
which the parser consumes the lines up to the fault, so that the second one's own request
stays behind; when the deadline has dropped the second one too, the third one is
answered what the second one asked. The property was also checked with three connections of two
requests (983,247 states, safety only), where the liveness properties take too long.

`CHECK_DEADLOCK FALSE` is said where the system stops: a server that was
stopped, crawlers that have written their last page, and `Parts`, whose inputs
take no step and whose machines stop at their bounds. `Spider` and `Application`
have a stuttering disjunct for their end instead, so that TLC still reports a deadlock
of mutexes and joins.

### Fairness

* `Application`: the threads run, a page's processing ends, the io thread returns once
  stopped. Nobody has to type anything, nor the input to end: `CommandsEnd` says what
  happens if they do. At the end of the input ConsoleSearch asks again for ever
  (`Application.cpp:72`), so for that executable the property promises the command only.
* `Parts` checks no liveness: a program may stop calling a library at any time.

* `Spider`: every thread that can run does (WF of each worker and of `run`).
  A download, a transaction and the indexer end, with or without an exception.
  The code does not bound a download (`HTTPUtils.cpp` sets no timeout); a peer
  that never answers stops the crawl, and `SpiderFinishes` does not cover it.
  Nothing is assumed about spurious wake-ups, nor that a free mutex is won by
  a particular thread.
* `Database`: a statement that waits for nobody is carried out (WF of each
  writer); nothing forces a job to begin, or a failure.
* `SearchEngine`: the io thread runs its queue (WF of `Handle`), the timer fires,
  connections and ends of connections are noticed, `stop` goes on once
  begun. Clients need not send, read, or leave, so a write need not end. Only
  `ServerDeaf` assumes that clients leave (`LeavingSpec`): even then the next one
  is not accepted.

## 4. The proofs

`SpiderProofs` proves, for every finite set of workers, every web, every depth of at
least 1 and every set of failing calls:

| Theorem | States |
|---|---|
| `TypeCorrect` | `TypeOK` |
| `LocksCorrect` | `LocksHeld`: a mutex is held by the worker inside its section, and only then |
| `StopCorrect` | `WorkCounted` and `StopMeansNoWork`: termination detection is right |
| `DepthCorrect` | `DepthBounded`: no task at or below the depth is ever queued |
| `FetchCorrect` | `VisitedMarks` and `FetchedOnce`: no page is downloaded twice |
| `LinksCorrect` | `NoLinkLost`: no link of an expanded page is lost |
| `InductiveCorrect` | all of it together |

The assumptions are those named in `Spider`: the pool is finite and not empty, the
start page is a page, the depth is positive (`Config.cpp:77-80`), webs are
lists of links. The properties are not inductive as they stand:

* `StopMeansNoWork` needs that the counter is exact,
  `activeWorkers = Cardinality(Busy)`, at its one increment and each of its
  decrements; then a decrement to zero says that the worker that made it was the
  last one busy. From there nobody can push, since only a busy worker does, and
  before `PushStart` nobody exists.
* `DepthBounded` needs that a worker at its links is above the last level
  (`Expanding`), which is what line 114 establishes.
* `FetchedOnce` needs the locks, and that `visitedUrls` tells the workers before
  the insert from those behind it (`VisitedMarks`).
* `NoLinkLost` rests on `Accounted` being stable: a URL moves from the queue to a worker
  to `visitedUrls` and never drops out (`AccountedStep`, `LinkStep`). It holds
  whatever `Lookup` answers, as long as it never finds what nobody inserted.

It proves, too, that `Spider` implements `Crawl` (`CrawlRefined`). Under the
mapping in `Spider` the insert into `visitedUrls` claims a page (`ClaimLemma`), a
push finds one (`FindLemma`; a visited link that the race lets through changes
nothing), `Finish` ends one and perhaps closes the crawl (`EndLemma`), a duplicate may
close it (`DuplicateLemma`), and everything else stutters. It needs the inductive
invariant before and after the step, so that the flag says that nothing is found or
open (`ClosedLemma`), and `PendingFromPage` (`PendingCorrect`): the links being
added are links of the page.

It also proves what a crawl covers:

| Theorem | States | For a recursion depth |
|---|---|---|
| `StrayCorrect` | `NothingDeeper`: no page beyond the depth is visited | any |
| `CoveredCorrect` | `DepthCovered`: none within it is missed | of 1 and 2 |
| `SynchronisedCorrect` | `VisitedReadSynchronised`: line 148 reads `visitedUrls` while nobody inserts | of 1 and 2 |

The bound of 2 is sharp: `SpiderDepthThree` and `SpiderVisitedRace` refute the other two
properties for 3. `Within` is a recursive function, of which the provers know
nothing until it is shown to exist (`WithinExists`, by induction over the levels); then a task
on level n is a page within n steps of the start page, since a link is pushed one level
below its page (`Nearby`). For the other two the argument is an order in time. The start
page comes first: before it is visited nothing is, and the only task is its own
(`StartFirst`). It is on level 0 and is inserted at once, so none of its links is
hidden by a longer path, and what is not lost (`LinksCorrect`) is visited when
the crawl ends (`ExitsLast`). While its links are added nobody else is busy (`Alone`), and with a
depth of 2 nobody else ever adds any: links of level 1 would be cut off at line 114.
On level 2 that argument ends, and so does the property.

`ApplicationProofs` proves, for every set of pages and links, every set of contents
of `Config.ini`, all executables and failures: `TypeCorrect`; `ThreadsCorrect`
(`ThreadsEndFirst`); `PortCorrect` (`ListensWhereSaid`); `PromptCorrect`
(`PromptMeansIndexed`). It assumes that the start page is a page, webs are lists of
links, and an entry of `Config.ini` is a number or none. The inductive invariant has four
parts. `Course` tells from where the main thread is which threads exist and which are
joined; a join says that its thread has ended, which is all `ThreadsEndFirst` needs at
the one place it can break, `Destroy`. `Listening` carries the port from the binding
(where it is a remainder) over `Validate` (which admits only numbers that are their own
remainder, `BoundSame`) to the prompt. `Crawled` ties the steps of a page to the
tables: a page that was taken is open, given up, or indexed as it is stored; and the
spider of a whole pool ends only when the crawl is closed, which empties `todo` and
`open`. `PromptMeansIndexed` then follows at the prompt, where `Course` gives the join.

`SearchEngineProofs` proves, for every number of connections and of requests,
`TypeCorrect`, `AcceptCorrect` (`OneAccept`) and `DeadlineCorrect` (`DeadlineOwn`). What can
go wrong is a matter of order: `ready` holds handlers of an earlier connection while
`socket_` is already the next one's. `QueueInv` says what may stand in it: at most one
accept exists, pending or queued, and one that succeeded is queued only while `socket_`
is still closed; the deadline belongs to whoever `socket_` belongs to, or to nobody; its
handler, once queued, cannot be called back, but it stands in front of every accept that
brings a new connection. The last part is what makes `DeadlineOwn` true, and it is a
property of the queue being first in, first out: the deadline closes the socket before the
next one is assigned. Cancelling adds handlers at the end of the queue only
(`AbortedOne`), and the proof goes through the handlers one by one.

Its second part goes on from there, for every number of connections and requests:

| Theorem | States |
|---|---|
| `UseCorrect` | `OneOperation`: no second read or write begins on the one `buffer_` and `response_` |
| `AnswersCorrect` | `AnswersOwnRequest`: a client gets the answer to its own request, unless some other connection was cut off in the middle of one |
| `AnswerInductive` | `AInv`, the inductive invariant behind both |

`OneInUse` says what may stand together in the queue: at most one read or write exists,
pending or done; none behind an accept that brings a new connection; a write that failed
in front of whatever is read now. A handler begins an operation only in its own place in that
order. For the answers it is not enough to know who is connected: `buffer_` outlives
a connection, so `Pieces` counts for every connection how much of its stream has been
consumed. Requests are two pieces long, so an odd count is a connection that was read to
the middle of one. `Phases` then says of the connected one that what it was read and what
it was answered fit together while it is read (`ReadingOwn`), while the query and the write
go on (`Answering`) and after the write (`Answered`), or that the buffer holds half a request of
somebody else's (`ReadingOther`); `Leftover` that every half request in `buffer_` has a
connection with an odd count behind it. The exception in `AnswersOwnRequest` is what remains of
that: the theorem shows that nothing but such a connection can lead to a foreign answer.
`Timed` is needed because the deadline is never started again: it can only end a first request, whose
buffer holds nothing else.

`DatabaseProofs` proves, for every number of workers, pages, contents and words and all
failures, but with one crawler (`OneCrawler`; with two, `DatabaseLocks` shows what is
lost): `IndexCorrect` (`IndexCaughtUp`) and `SearchIndexRefined` (`RefinesSearchIndex`). It
assumes what `Database` names: each content says how often it has each word. The
inductive invariant rests on `Apart`: no two workers hold the same page, which is the guard
of `Begin` and what `FetchedOnce` says of the crawl. Then what a worker has done of its page can
be said by where it stands (`Writing`): behind the first commit the content is stored;
behind the DELETE its target is all rows of the page, since nobody else adds one; before the
second commit there is one row for each word. `CaughtUp` holds for a page nobody is past
the first commit of; one given up in between is `stale`. For the refinement a content must
be told by its words (`ContentsTold`: it has some, and no two contents have the same ones as
often), because `SearchIndex` is read off the rows; the contents of `MCDatabase` are such.

For any number of crawlers it proves `TypeCorrect` (`TypeOK`), and for one again
`AnswerCorrect` (`AnswerCountsOnePage`: the relevance of a result counts the words of one
version of the page's content). Both are about `Relevance`, a fold over the rows of a
page, which picks an order among them. `AddsExists` shows that a function exists which adds up
the numbers of every subset of a finite set one by one, `AddsAny` that any two such agree
whatever they take first, `AddsSame` that a sum over rows is the sum over their words when there is
one row for each word; `RowSum` and `WordSum` say that the folds of `Database` are such sums.
The invariant `Known` adds to the inductive one that the rows of a page are all rows of one
content which was stored for it at some time (`versions`); it is kept across the second transaction by
`IndexCorrect`'s invariant, and where a search reads the rows `CountsContent` turns
their sum into the occurrences in that content.

`MachineProofs` proves what `range.hxx` says of ranges over every set of integers: the
intersection contains what both contain (`IntersectionCorrect`), `contains` for ranges
(`EncompassesCorrect`), and that the text of a range is read back as an equal one
(`TextCorrect`). `HigherBound` and `LowerBound` each choose one of two bounds and let pass
what both let pass; the rest is the comparison of bounds out of order, which is the
empty range.

The parts of libpqxx are proved about as the run `Parts` checks them: `PartsProofs`
speaks of `MCParts`' own specification. A step there is one of a part and leaves the others alone
(`EachPart`), so the inductive invariant of a part is one of the whole.

| Theorem | States | For every |
|---|---|---|
| `WholeCorrect` | `AllOrNothing` | number of objects and statements, choice of classes |
| `SessionCorrect` | `SessionClean`, with the types of `Transaction`; an `abort()` that kept its ROLLBACK and a robusttransaction that was not made are excepted | the same |
| `Retries` | which errors `perform` takes for undone (`Errors!RetriedRightly`) | SQLSTATE, row of errors, number of attempts |
| `RetryCorrect` | `RetriedMeansUndone` | number of objects and statements, choice of classes |
| `CursorsCorrect` | `CursorsInPlace`; a `retrieve` down from behind the last row and late iterators are left out | length of the result, stride, set of iterators |
| `ObjectsCorrect` | `ObjectsWhole`; of an object without a caller's oid it says that the whole or an empty one is there | length of object and file, buffer, limit, set of bytes |
| `ReceiversCorrect` | `ReceiversServed` | set of channels, receivers and handlers, number of messages |
| `PipelineCorrect` | `PipelineInOrder` | number of queries, retained ones, ways a query can fail |
| `UrlsCorrect` | `OneUrlPerPage` | length of the paths, set of hosts and of names |
| `TextsCorrect` | `TypedAsIndexed` | length of the page and of its words |

They assume what `Sessions` and `Machines` name: sizes are numbers, a buffer holds at least one
character, no iterator has the address of none and no channel the name of none; and what `MCParts` names
(`LinksAssumption`): no host and no segment of a path has a slash or a number sign in it, which is what
makes it one.

URLs (`PartsProofs`, as the texts). The part that is looked at and its input do not change (`Looked`),
so both theorems are lemmas about operators. A path is folded into its URL segment by segment;
`RootedIs` says what stands at each place of the result, and from then on only its ends matter
(`PathLike`). `ParseIs` finds the first slash behind the host, `AnchorOff` and `SlashOff` take off what
a link may have at its end, `SpellingLeads` is the lemma for each way to write a link without an anchor,
and `AnchoredAre` adds the anchors.

Texts. A text is encoded by joining the codes of its characters, and read back from left to right.
`Flattened` says where each code ends in the joined sequence; `ReadExists` that a reader exists which takes an item
and a width at each place; `ReadsBack` that when each item begins where the one before it ends, the
reader brings what was joined. UTF-8 (`BytesRead`) and the form's percent signs (`FormRead`) are both of
that kind: of the first it needs that no two characters begin with the same byte, of the
second that an octet's two digits are no other's (`SentIs`). What is typed then comes back as one word,
and `SearchedIs` says that it is left as it is exactly when nothing in it is punctuation or foreign to
Windows-1251.

Transactions (`TransactionProofs`). The inductive invariant says for an object that is open
(`Doing`): the server has a transaction as long as the connection works, what was reported as
done is in it as long as it can commit and below the savepoint while a subtransaction lives,
nothing of it is committed, and it has failed only if the object was told, or its
subtransaction was. `SubDoing` says the same of the subtransaction above the savepoint. What has
come to its end (`Done`, `SubDone`) stays so because a statement is never used twice and no
command makes permanent what is not the session's. `Owned` is `SessionClean` before the last
object is gone: a transaction of the server's belongs to an open object, or to an abort that
threw its pending error instead of sending the ROLLBACK, or to a robusttransaction whose
constructor threw behind its BEGIN (`Abandons`, the only step that opens a transaction and
makes no object). One lemma for each call of a main
object and of the subtransaction, over lemmas on what each command does to the session.

Errors. The other half of `RetriedMeansUndone` says which exception an SQLSTATE becomes and which handler of
`perform` catches that. No class is more than four steps below `runtime_error` (`AboveIs`), so a handler
catches the class itself and the three above it at most (`CatchesIs`), and five classes are left that the
loop goes on after (`AgainIs`). `ThrownIs` takes any five characters for an SQLSTATE: it has an exception of
its own, or one of its class, or neither, and becomes one of the five exactly when the server says by it
that the transaction was undone or the connection lost. `PerformIs` finds the run at which the loop ends, and
`Retries` puts the three together; `OutcomesAre` says that what the run `Parts` looks at are such rows of errors.

Cursors (`MachineProofs`, as all that follows). `Sound` says that what the library knows of a cursor
is true: the position if it knows one, the end if it has found it, and on which side of the rows it
stands. A movement that comes short tells `adjust` that the end was met, and `MovedLemma` shows, case by
case, that what `adjust` concludes is so (and that it never throws). Then the first of
the two movements of `stateless_cursor::retrieve` comes to its place (`Comes`) and the second
passes the rows asked for (`RetrievesWanted`). In the case that `PositionKept` leaves out the
first movement is stopped behind the last row, one place short of where it was to go;
`CursorInv` says what is brought then, the rows down to `end_pos` and that one too.

Streams over cursors. The iterators are a list linked both ways. That the links agree is not enough: two
circles would agree as well, and a head that reaches only half. `Linked` therefore asks for
a rank that rises along the list; with it, exactly one iterator has nobody before it
(`BlocksShown`). For the blocks, `Shows` says that an iterator is a whole number of strides
from `m_reqpos`, so two positions that differ are at least a stride apart (`Strides`), and
a block read for one of them is never partly another's. Each call is a lemma: an insertion at
the head (`Inserted`), a removal (`Removed`), and moves which leave the links alone (`SameLinks`).

Large objects. The invariant of blobs needs only the types beside `BlobsWhole`, since what is read next
to a beginning of the object gives a longer beginning (`PrefixGrows`), and what a failed read
leaves of it is a shorter one (`FrontPrefix`). What a stream has got is what the object begins with,
and so is that with the buffer behind it, until `sync` puts back what was got
(`ShorterPrefix`): from there the buffer repeats characters, but the stream is bad and nobody
gets them. For what is written the invariant says where the buffer belongs: `out.pos + Len(out.area) = Len(out.done)` and `out.pos <= Len(file)`, so
that the object with the buffer written to its place is the object with all the program has put.
`WriteIs` says what a write makes of each element; from it follows that characters which move
from the buffer to the object change nothing in that sum.

Connections. `Listens` is the first part of `ReceiversServed`. The other two need that the
messages are in order: those in the inbox by number, those delivered before them (`InOrder`), and
that what is due to a receiver was heard by it or waits in the inbox under its channel
(`Awaited`). A delivery chooses the messages of a channel; `ChosenKeeps` shows that the choice
loses none and keeps their order. For the handlers, a list without
repetitions (`HandlersOnce`) has as many elements as their set.

Pipelines (`PipelineProofs`). `PipelineInOrder` speaks of what comes out of a pipeline and not of
what it keeps; the inductive invariant `PipelineInv` has a part for each thing it keeps:

* `Placed`: where the issued range lies among the queries. While there is none, nothing stands on the
  connection.
* `Reads`: what is still to be read are the results of the range from its first query on, one after the
  other (`Chain`), up to the range's end or to a query that fails (`Ending`), behind a dummy if one was
  sent. A dummy that failed stands alone, and a query of its string will fail again when it is run by
  itself (`Failing`); so the replay ends at an error, not past the string.
* `Kept`: what has been received for a query is its own result or an explained failure, and nothing
  has been kept yet for one that is still to come. Otherwise `obtain_result` would throw an internal error.
* `Counted`: `m_num_waiting` is the number of queries that are not sent, and after an error no more than it.
* `RanInOrder`: the queries took effect in their order, each once, and none that is not sent.
* `Blamed`, `Excused`: where the error stands there is a query before it that explains it; only a work
  fails as a whole; and what a call may throw.

All of it is kept by `cancel`, too, which leaves results on the connection that belong to nobody:
what it takes away are the promises that name it (`~pipe.cancelled`).

Receiving and replaying are loops in which each turn may throw or shorten the range. `Pipeline` has them
as recursive functions, of which the provers know nothing; `CourseExists` shows that a function exists
which takes one turn at a time, for each of the loops, and what holds between turns (`Reading`,
`Follows`, `Replaying`) is kept from each to the next. Every call is a lemma (`InsertedKept`,
`FlushedKept`, `CancelledKept`, `RetrievedKept`). `retrieve` is six steps in a row, each of which may throw
and leave what those before it did; `AtIt` holds between them.

Left to TLC:

* the liveness properties, since the provers know neither fairness nor `ENABLED`;
* the texts of libpqxx (`Copy`, `Arrays`, `Numbers`: `FieldsKept`, `ValuesKept` but for the ranges),
  which scan and fold in ways of their own for each encoding and type.

Induction over data means here the induction theorems of the library, which take an operator;
over the naturals a set does instead (`NatSet` in `SpiderProofs`, `DatabaseProofs` and
`MachineProofs`), which is how `Within`, the sums, `Chosen`, the loops of pipelines and of `perform`,
and the texts and URLs are reached.

## 5. What is not modelled

* The contents of pages and words in the crawl and the index: `Index` and `web`
  stand there for what `Indexer` and `URLParser` return, which are modelled by themselves.
* HTTPUtils and Logger: a download that blocks, and a mutex around a line of output.
  The download has no time limit, see Fairness.
* Comments and text in braces, which `Indexer` removes like tags; the layout of the page.
* The io thread blocked in a query (`SearchEngine.cpp:232`): a query ends. The race of
  `acceptor.close` with `doAccept` inside Boost.Asio.
* Boost, libpq and PostgreSQL are taken from how the code uses them.
* Of libpqxx: connecting and its parameters, quoting, prepared statements, parameter
  packs, field views, floating point (the standard library's), `bool`; the states of COPY
  streams around their lines; text that is not valid in its encoding, for which the library
  throws; `lostream` and the deprecated `largeobject` class; connections that break
  inside a pipeline or a cursor (`Transaction` has the lost connection); moving
  objects; SQLSTATE 40003.

## 6. Plan

Done: the crawl, the tables, the server, the words and URLs, the program around them, the
library below, and the proofs above. What could follow:

1. The states of COPY streams (open, complete, closed) as a machine around `Copy`.
2. A larger composition, Spider's workers on Database's transactions with searches going
   on; `Application` composes what the two promise instead.
3. `DepthCovered` for every depth with one worker, where the queue is a breadth-first search.
