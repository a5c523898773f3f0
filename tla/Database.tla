------------------------------ MODULE Database ------------------------------
(***************************************************************************)
(* The two tables of src/SearchEngine/src/Database/Database.cpp, the three *)
(* operations on them, and the page a search ends in.                      *)
(*                                                                         *)
(* insertDocument and insertWords are transactions of their own, on        *)
(* connections of their own; a statement is a step.  PostgreSQL runs them  *)
(* at READ COMMITTED: a statement sees what was committed when it began    *)
(* and the changes of its own transaction, a row written by a transaction  *)
(* that is still open makes the next writer of that row wait, and what is  *)
(* not committed is rolled back when the connection goes.  A search is one *)
(* SELECT.  documents.id stands for the URL it was given to once and for   *)
(* all: no document is ever deleted.                                       *)
(***************************************************************************)
EXTENDS Integers, Sequences, FiniteSets, FiniteSetsExt, Functions

CONSTANTS
  Url, Content, Word,
  Index,       \* Index[c][x]: how often Indexer::index counts word x in content c
  Process,     \* the running crawlers
  Writer,      \* the workers of all crawlers
  ProcessOf,   \* the crawler a worker belongs to
  Queries,     \* the word lists searched for
  Limit,       \* LIMIT 10
  IntMax,      \* the largest int
  MaxJobs,     \* bound: how many pages are written in all
  Faults,      \* the failures of this instance
  NoDoc, NoJob, NoAnswer

FaultKind == {"write", "query"}

ASSUME IndexAssumption   == Index \in [Content -> [Word -> Nat]]
ASSUME ProcessAssumption == ProcessOf \in [Writer -> Process]
ASSUME QueryAssumption   == Queries \subseteq Seq(Word)
ASSUME BoundAssumption   == Limit \in Nat \ {0} /\ IntMax \in Nat /\ MaxJobs \in Nat
ASSUME FaultAssumption   == Faults \subseteq FaultKind
ASSUME NoneAssumption    == NoDoc \notin Content

Row == [txn : Nat, url : Url, word : Word, frequency : Nat]
Job == [url : Url, content : Content]
ASSUME NoJobAssumption == NoJob \notin Job

VARIABLES
  documents,   \* table documents: the content of each URL, or NoDoc
  words,       \* table words: its committed rows
  pc, job,     \* where each writer is, and the page it is writing
  target,      \* the rows its DELETE found
  inserted,    \* the rows its open transaction has inserted
  txns,        \* how many transactions have inserted words so far
  begun,       \* how many jobs have begun
  answer,      \* the last search: its words, its results and its page
  versions,    \* history: every <<url, content>> ever committed
  stale        \* history: URLs whose last write failed after insertDocument

tables  == <<documents, words>>
history == <<versions, stale>>
vars == <<documents, words, pc, job, target, inserted, txns, begun, answer,
          versions, stale>>

Pc == {"idle", "select", "update", "insert", "commitDocument",
       "delete", "deleting", "words", "commitWords"}

Goto(w, l) == pc' = [pc EXCEPT ![w] = l]
RowsOf(u) == {r \in words : r.url = u}
WordsOf(c) == {x \in Word : Index[c][x] > 0}

-----------------------------------------------------------------------------
Init ==
  /\ documents = [u \in Url |-> NoDoc]
  /\ words = {}
  /\ pc = [w \in Writer |-> "idle"]
  /\ job = [w \in Writer |-> NoJob]
  /\ target = [w \in Writer |-> {}] /\ inserted = [w \in Writer |-> {}]
  /\ txns = 0 /\ begun = 0
  /\ answer = NoAnswer
  /\ versions = {} /\ stale = {}

-----------------------------------------------------------------------------
(* insertDocument.                                                         *)

\* A worker has downloaded a page.  Two workers of one crawler never hold the
\* same URL (Spider!FetchedOnce); two crawlers on one database may.
Begin(w, u, c) ==
  /\ pc[w] = "idle" /\ begun < MaxJobs
  /\ \A v \in Writer \ {w} : ProcessOf[v] = ProcessOf[w] /\ job[v] # NoJob => job[v].url # u
  /\ job' = [job EXCEPT ![w] = [url |-> u, content |-> c]]
  /\ begun' = begun + 1
  /\ Goto(w, "select")
  /\ UNCHANGED <<tables, target, inserted, txns, answer, history>>

Select(w) ==
  /\ pc[w] = "select"
  /\ Goto(w, IF documents[job[w].url] # NoDoc THEN "update" ELSE "insert")
  /\ UNCHANGED <<tables, job, target, inserted, txns, begun, answer, history>>

\* Another open transaction has written the row of this URL.
RowLocked(w) ==
  \E v \in Writer \ {w} : pc[v] = "commitDocument" /\ job[v].url = job[w].url

Update(w) ==
  /\ pc[w] = "update" /\ ~RowLocked(w)
  /\ Goto(w, "commitDocument")
  /\ UNCHANGED <<tables, job, target, inserted, txns, begun, answer, history>>

\* url is UNIQUE: the INSERT waits for an open transaction that inserted the
\* URL and throws when it finds it committed.
Insert(w) ==
  /\ pc[w] = "insert" /\ ~RowLocked(w)
  /\ documents[job[w].url] = NoDoc
  /\ Goto(w, "commitDocument")
  /\ UNCHANGED <<tables, job, target, inserted, txns, begun, answer, history>>

\* Mutant: ON CONFLICT DO NOTHING; the page keeps its first content.
StoreDocumentOnce(w) ==
  /\ documents' = [documents EXCEPT ![job[w].url] = IF @ = NoDoc THEN job[w].content ELSE @]
  /\ versions' = versions \cup {<<job[w].url, job[w].content>>}

StoreDocument(w) ==
  /\ documents' = [documents EXCEPT ![job[w].url] = job[w].content]
  /\ versions' = versions \cup {<<job[w].url, job[w].content>>}

CommitDocument(w) ==
  /\ pc[w] = "commitDocument"
  /\ StoreDocument(w)
  /\ Goto(w, "delete")
  /\ UNCHANGED <<words, job, target, inserted, txns, begun, answer, stale>>

-----------------------------------------------------------------------------
(* insertWords, on the words Indexer::index found.                         *)

\* Mutant: the words are inserted and none is deleted.
KeepOldWords(w) ==
  /\ pc[w] = "delete"
  /\ txns' = txns + 1
  /\ Goto(w, "deleting")
  /\ UNCHANGED <<tables, job, target, inserted, begun, answer, history>>

\* The DELETE looks for the rows that are committed when it begins ...
FindOldWords(w) ==
  /\ pc[w] = "delete"
  /\ target' = [target EXCEPT ![w] = RowsOf(job[w].url)]
  /\ txns' = txns + 1
  /\ Goto(w, "deleting")
  /\ UNCHANGED <<tables, job, inserted, begun, answer, history>>

\* Mutant: the DELETE also waits for those that are waiting themselves.
DeleteInTurn(w) ==
  /\ pc[w] = "deleting"
  /\ \A v \in Writer \ {w} : target[v] \cap target[w] \cap words = {}
  /\ Goto(w, "words")
  /\ UNCHANGED <<tables, job, target, inserted, txns, begun, answer, history>>

\* ... and waits for other transactions that are deleting some of them.
DeleteOldWords(w) ==
  /\ pc[w] = "deleting"
  /\ \A v \in Writer \ {w} : pc[v] \in {"words", "commitWords"}
                             => target[v] \cap target[w] \cap words = {}
  /\ Goto(w, "words")
  /\ UNCHANGED <<tables, job, target, inserted, txns, begun, answer, history>>

\* One INSERT for each word that is left.
Missing(w) == WordsOf(job[w].content) \ {r.word : r \in inserted[w]}

\* Mutant: each INSERT commits by itself.
InsertWordAlone(w, x) ==
  /\ pc[w] = "words" /\ x \in Missing(w)
  /\ LET row == [txn |-> txns, url |-> job[w].url, word |-> x,
                 frequency |-> Index[job[w].content][x]]
     IN  /\ inserted' = [inserted EXCEPT ![w] = @ \cup {row}]
         /\ words' = words \cup {row}
  /\ UNCHANGED <<documents, pc, job, target, txns, begun, answer, history>>

InsertWord(w, x) ==
  /\ pc[w] = "words" /\ x \in Missing(w)
  /\ inserted' = [inserted EXCEPT ![w] = @ \cup
       {[txn |-> txns, url |-> job[w].url, word |-> x,
         frequency |-> Index[job[w].content][x]]}]
  /\ UNCHANGED <<tables, pc, job, target, txns, begun, answer, history>>

EndInserts(w) ==
  /\ pc[w] = "words" /\ Missing(w) = {}
  /\ Goto(w, "commitWords")
  /\ UNCHANGED <<tables, job, target, inserted, txns, begun, answer, history>>

ReplaceWords(w) ==
  /\ words' = (words \ target[w]) \cup inserted[w]
  /\ stale' = stale \ {job[w].url}

\* Mutant: the worker holds on to the page.
EndJobKeepsPage(w) ==
  /\ Goto(w, "idle")
  /\ target' = [target EXCEPT ![w] = {}]
  /\ inserted' = [inserted EXCEPT ![w] = {}]
  /\ UNCHANGED job

\* The transaction and the job are over: the worker goes on to the next page.
EndJob(w) ==
  /\ Goto(w, "idle")
  /\ job' = [job EXCEPT ![w] = NoJob]
  /\ target' = [target EXCEPT ![w] = {}]
  /\ inserted' = [inserted EXCEPT ![w] = {}]

CommitWords(w) ==
  /\ pc[w] = "commitWords"
  /\ ReplaceWords(w)
  /\ EndJob(w)
  /\ UNCHANGED <<documents, txns, begun, answer, versions>>

-----------------------------------------------------------------------------
(* Failures.                                                               *)

\* An INSERT violates the UNIQUE constraint.
Refused(w) ==
  /\ pc[w] = "insert" /\ ~RowLocked(w)
  /\ documents[job[w].url] # NoDoc
  /\ EndJob(w)
  /\ UNCHANGED <<tables, txns, begun, answer, history>>

Lagging(w) == IF pc[w] \in {"delete", "deleting", "words", "commitWords"}
                THEN stale \cup {job[w].url} ELSE stale

\* The connection is lost, a statement throws, the indexer throws, or the
\* crawler dies: what was not committed is gone and the page is given up.
Rollback(w) ==
  /\ "write" \in Faults /\ pc[w] # "idle"
  /\ stale' = Lagging(w)
  /\ EndJob(w)
  /\ UNCHANGED <<tables, txns, begun, answer, versions>>

\* COMMIT is carried out and the answer to it is lost.
LostCommit(w) ==
  /\ "write" \in Faults
  /\ \/ /\ pc[w] = "commitDocument"
        /\ StoreDocument(w)
        /\ stale' = stale \cup {job[w].url}
        /\ UNCHANGED words
     \/ /\ pc[w] = "commitWords"
        /\ ReplaceWords(w)
        /\ UNCHANGED <<documents, versions>>
  /\ EndJob(w)
  /\ UNCHANGED <<txns, begun, answer>>

-----------------------------------------------------------------------------
(* getRankedDocuments, and the page SearchEngine::processRequest makes of it. *)

Found(q) == {u \in Url : \E r \in RowsOf(u) : r.word \in Range(q)}

Relevance(u, q) ==
  MapThenSumSet(LAMBDA r : r.frequency, {r \in RowsOf(u) : r.word \in Range(q)})

\* ORDER BY total_relevance DESC LIMIT: any order among equals.
Ranked(q) ==
  LET size == IF Cardinality(Found(q)) < Limit THEN Cardinality(Found(q)) ELSE Limit
  IN  {s \in [1..size -> Found(q)] :
         /\ \A i, j \in 1..size : i < j => s[i] # s[j] /\ Relevance(s[i], q) >= Relevance(s[j], q)
         /\ \A u \in Found(q) \ Range(s) : \A i \in 1..size : Relevance(u, q) <= Relevance(s[i], q)}

\* "IN ()" is no SQL, and as<int>() throws for a sum that is no int.  The
\* largest sum comes first, so nothing has been added to the results by then.
QueryThrows(q) == q = <<>> \/ \E u \in Found(q) : Relevance(u, q) > IntMax

\* The words of the page: the results, or that there are none.
Page(results) == IF results = <<>> THEN "none" ELSE "list"

Answered(q, results, failed) ==
  answer' = [query |-> q, results |-> results, failed |-> failed,
             page |-> Page(results)]

Search(q) ==
  /\ ~QueryThrows(q)
  /\ \E s \in Ranked(q) :
       Answered(q, [i \in DOMAIN s |-> [url |-> s[i], relevance |-> Relevance(s[i], q)]], FALSE)
  /\ UNCHANGED <<tables, pc, job, target, inserted, txns, begun, history>>

\* Whatever the SELECT throws is logged, and the results stay empty.
SearchFails(q) ==
  /\ QueryThrows(q) \/ "query" \in Faults
  /\ Answered(q, <<>>, TRUE)
  /\ UNCHANGED <<tables, pc, job, target, inserted, txns, begun, history>>

-----------------------------------------------------------------------------
\* What a worker that holds a page does next when nothing fails.
Work(w) ==
  \/ Select(w) \/ Update(w) \/ Insert(w) \/ Refused(w) \/ CommitDocument(w)
  \/ FindOldWords(w) \/ DeleteOldWords(w) \/ (\E x \in Word : InsertWord(w, x))
  \/ EndInserts(w) \/ CommitWords(w)

Next ==
  \/ \E w \in Writer : Work(w) \/ Rollback(w) \/ LostCommit(w)
  \/ \E w \in Writer, u \in Url, c \in Content : Begin(w, u, c)
  \/ \E q \in Queries : Search(q) \/ SearchFails(q)

Spec == Init /\ [][Next]_vars

\* A statement that waits for nobody is carried out.
FairSpec == Spec /\ \A w \in Writer : WF_vars(Work(w))

-----------------------------------------------------------------------------
Result == [url : Url, relevance : Nat]

\* Every variable has its type; a writer has a page exactly while it is busy.
TypeOK ==
  /\ documents \in [Url -> Content \cup {NoDoc}]
  /\ words \subseteq Row
  /\ pc \in [Writer -> Pc]
  /\ job \in [Writer -> Job \cup {NoJob}]
  /\ \A w \in Writer : pc[w] = "idle" <=> job[w] = NoJob
  /\ target \in [Writer -> SUBSET Row] /\ inserted \in [Writer -> SUBSET Row]
  /\ txns \in Nat /\ begun \in 0..MaxJobs
  /\ answer = NoAnswer \/ answer \in [query : Seq(Word), results : Seq(Result),
                                      failed : BOOLEAN, page : {"none", "list", "error"}]
  /\ versions \subseteq Url \X Content /\ stale \subseteq Url

\* The rows of u are those insertWords writes for content c.
RowsAre(u, c) ==
  /\ \A r \in RowsOf(u) : Index[c][r.word] = r.frequency
  /\ {r.word : r \in RowsOf(u)} = WordsOf(c)
  /\ Cardinality(RowsOf(u)) = Cardinality(WordsOf(c))

\* The two transactions of one page (Spider.cpp:109-112) can come apart only
\* by a failure: a page nobody is writing and whose last write went through is
\* found by exactly the words of the content that is stored for it.
IndexCaughtUp ==
  \A u \in Url :
    documents[u] # NoDoc /\ u \notin stale /\ (\A w \in Writer : job[w] # NoJob => job[w].url # u)
      => RowsAre(u, documents[u])

\* A worker never waits for ever: no two transactions wait for each other's
\* rows, whichever pages the crawlers rewrite at the same time.
JobsEnd == \A w \in Writer : job[w] # NoJob ~> job[w] = NoJob

\* README.md:80 - the relevance of a document is the number of occurrences of
\* the words searched for.  The search may run while pages are rewritten: what
\* it counts is one content of the page, never a mixture of two.
AnswerCountsOnePage ==
  answer # NoAnswer =>
    \A i \in DOMAIN answer.results :
      \E c \in Content :
        /\ <<answer.results[i].url, c>> \in versions
        /\ answer.results[i].relevance = MapThenSumSet(LAMBDA x : Index[c][x], Range(answer.query))

-----------------------------------------------------------------------------
\* The content whose words the rows of u are; the rows of no content when the
\* two have been mixed up.
IndexedContent(u) ==
  IF RowsOf(u) = {} THEN NoDoc ELSE CHOOSE c \in Content : RowsAre(u, c)

Abstract == INSTANCE SearchIndex WITH
  stored <- documents, indexed <- [u \in Url |-> IndexedContent(u)]

\* With one crawler the tables implement SearchIndex: the rows of a page are
\* replaced as a whole, and always by the words of the content stored then.
RefinesSearchIndex == Abstract!Spec
=============================================================================
