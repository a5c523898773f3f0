------------------------------- MODULE Spider -------------------------------
(***************************************************************************)
(* The crawler of src/SearchEngine/src/Spider/Spider.cpp: Spider::run      *)
(* starts a pool of threads that all execute Spider::worker on one shared  *)
(* queue of (url, depth) tasks, one set of visited URLs, a counter of busy *)
(* workers and a stop flag, with two mutexes and a condition variable.     *)
(*                                                                         *)
(* A critical section that never blocks inside is one step, enabled when   *)
(* its mutex is free.  The two sections in which something else can happen *)
(* are several steps: the section of visitedMutex, which waits for         *)
(* queueMutex (line 79) and whose insert other threads can observe, and    *)
(* the section of queueMutex in addLinksToQueue, which reads visitedUrls   *)
(* link by link without visitedMutex.                                      *)
(***************************************************************************)
EXTENDS Integers, Sequences, FiniteSets, Functions

CONSTANTS
  Worker,     \* the threads of the pool (hardware_concurrency() of them)
  Url,        \* the URLs of the web that is crawled
  StartUrl,   \* spider.start_url of Config.ini
  MaxDepth,   \* spider.recursion_depth of Config.ini
  Webs,       \* the webs considered: which links each page holds, in order
  Faults,     \* the calls that may fail in this instance
  Free,       \* "this mutex has no owner"
  NoTask      \* the local variable task of a worker that holds no task

FaultKind == {"spawn", "fetch", "document", "words", "links"}

ASSUME WorkerAssumption == IsFiniteSet(Worker) /\ Worker # {} /\ Free \notin Worker
ASSUME UrlAssumption    == StartUrl \in Url
ASSUME DepthAssumption  == MaxDepth \in Nat \ {0}   \* Config.cpp:77-80
ASSUME WebsAssumption   == Webs \subseteq [Url -> Seq(Url)]
ASSUME FaultsAssumption == Faults \subseteq FaultKind

Task == [url : Url, depth : Nat]
ASSUME NoTaskAssumption == NoTask \notin Task

VARIABLES
  web,            \* the pages of the Internet, fixed during the crawl
  taskQueue, activeWorkers, visitedUrls, stopWorkers,
  queueMutex,     \* its owner during addLinksToQueue, or Free
  visitedMutex,   \* its owner, or Free
  mainPc,         \* where the thread that called run() is
  pc, task,       \* where each worker is, and its local task
  pending,        \* the links a worker in addLinksToQueue has still to look up
  documents,      \* URLs with a committed row in table documents
  indexed,        \* URLs with committed rows in table words
  fetched,        \* history: URLs whose download was begun
  expanded        \* history: URLs whose links were handed to addLinksToQueue

locks   == <<queueMutex, visitedMutex>>
history == <<fetched, expanded>>
vars == <<web, taskQueue, activeWorkers, visitedUrls, stopWorkers, locks,
          mainPc, pc, task, pending, documents, indexed, history>>

-----------------------------------------------------------------------------
(* Where a thread can be.                                                  *)

MainPc == {"push", "spawn", "returned", "threw", "crashed"}
IdlePc == {"unborn", "ready", "asleep", "exited"}
BusyPc == {"depth", "visit", "duplicate", "insert", "fetch", "document",
           "words", "extract", "adding", "size", "finish"}

\* The workers that have popped a task and not yet decremented activeWorkers.
Busy == {w \in Worker : pc[w] \in BusyPc}

Goto(w, l) == pc' = [pc EXCEPT ![w] = l]

\* taskCondition.notify_all(): every thread blocked in wait() may go on.
NotifyAll(f) == [w \in Worker |-> IF f[w] = "asleep" THEN "ready" ELSE f[w]]

MayFail(call) == call \in Faults

\* taskQueue is first in, first out.
Push(q, t) == Append(q, t)

\* Links are followed on every level but the last.
FollowsAll(t)  == t.depth < MaxDepth       \* mutant: one level too many
FollowsFew(t)  == t.depth < MaxDepth - 2   \* mutant: one level too few
Follows(t) == t.depth < MaxDepth - 1

\* The depth of the pages a page links to.
SameDepth(t) == t.depth    \* mutant: not incremented
LinkDepth(t) == t.depth + 1

-----------------------------------------------------------------------------
Init ==
  /\ web \in Webs
  /\ taskQueue = <<>> /\ activeWorkers = 0
  /\ visitedUrls = {} /\ stopWorkers = FALSE
  /\ queueMutex = Free /\ visitedMutex = Free
  /\ mainPc = "push"
  /\ pc = [w \in Worker |-> "unborn"]
  /\ task = [w \in Worker |-> NoTask]
  /\ pending = [w \in Worker |-> <<>>]
  /\ documents = {} /\ indexed = {}
  /\ fetched = {} /\ expanded = {}

-----------------------------------------------------------------------------
(* Spider::run, on the thread that Application created for it.             *)

\* The start page is queued at depth 0 before any worker exists.
PushStart ==
  /\ mainPc = "push"
  /\ taskQueue' = Push(taskQueue, [url |-> StartUrl, depth |-> 0])
  /\ pc' = NotifyAll(pc)
  /\ mainPc' = "spawn"
  /\ UNCHANGED <<web, activeWorkers, visitedUrls, stopWorkers, locks, task,
                 pending, documents, indexed, history>>

\* threads.emplace_back: workers already started run while others are created.
SpawnWorker(w) ==
  /\ mainPc = "spawn"
  /\ pc[w] = "unborn"
  /\ Goto(w, "ready")
  /\ UNCHANGED <<web, taskQueue, activeWorkers, visitedUrls, stopWorkers,
                 locks, mainPc, task, pending, documents, indexed, history>>

\* std::thread throws: run() logs and returns, with nobody joined.
SpawnFails ==
  /\ mainPc = "spawn"
  /\ MayFail("spawn")
  /\ \E w \in Worker : pc[w] = "unborn"
  /\ mainPc' = "threw"
  /\ UNCHANGED <<web, taskQueue, activeWorkers, visitedUrls, stopWorkers,
                 locks, pc, task, pending, documents, indexed, history>>

\* Every thread is joined and "All tasks processed" is logged.
JoinAll ==
  /\ mainPc = "spawn"
  /\ \A w \in Worker : pc[w] = "exited"
  /\ mainPc' = "returned"
  /\ UNCHANGED <<web, taskQueue, activeWorkers, visitedUrls, stopWorkers,
                 locks, pc, task, pending, documents, indexed, history>>

-----------------------------------------------------------------------------
(* The head of the loop of Spider::worker: wait for a task or the stop.    *)

Sleep(w) ==
  /\ pc[w] = "ready" /\ queueMutex = Free
  /\ taskQueue = <<>> /\ ~stopWorkers
  /\ Goto(w, "asleep")
  /\ UNCHANGED <<web, taskQueue, activeWorkers, visitedUrls, stopWorkers,
                 locks, mainPc, task, pending, documents, indexed, history>>

\* A condition variable may also wake without a notification.
SpuriousWake(w) ==
  /\ pc[w] = "asleep"
  /\ Goto(w, "ready")
  /\ UNCHANGED <<web, taskQueue, activeWorkers, visitedUrls, stopWorkers,
                 locks, mainPc, task, pending, documents, indexed, history>>

Exit(w) ==
  /\ pc[w] = "ready" /\ queueMutex = Free
  /\ taskQueue = <<>> /\ stopWorkers
  /\ Goto(w, "exited")
  /\ UNCHANGED <<web, taskQueue, activeWorkers, visitedUrls, stopWorkers,
                 locks, mainPc, task, pending, documents, indexed, history>>

\* Mutant: the task is popped and activeWorkers is not incremented.
TakeUncounted(w) ==
  /\ pc[w] = "ready" /\ queueMutex = Free
  /\ taskQueue # <<>>
  /\ task' = [task EXCEPT ![w] = Head(taskQueue)]
  /\ taskQueue' = Tail(taskQueue)
  /\ Goto(w, "depth")
  /\ UNCHANGED <<web, activeWorkers, visitedUrls, stopWorkers, locks, mainPc,
                 pending, documents, indexed, history>>

Take(w) ==
  /\ pc[w] = "ready" /\ queueMutex = Free
  /\ taskQueue # <<>>
  /\ task' = [task EXCEPT ![w] = Head(taskQueue)]
  /\ taskQueue' = Tail(taskQueue)
  /\ activeWorkers' = activeWorkers + 1
  /\ Goto(w, "depth")
  /\ UNCHANGED <<web, visitedUrls, stopWorkers, locks, mainPc, pending,
                 documents, indexed, history>>

\* What a worker checks after its decrement, under queueMutex.
QueueEmpty == taskQueue = <<>>    \* mutant: whoever else is still busy
NoWorkLeft == taskQueue = <<>> /\ activeWorkers' = 0

\* Mutant: the stop flag is set and nobody is notified.
LeaveSilently(w) ==
  /\ queueMutex = Free
  /\ activeWorkers' = activeWorkers - 1
  /\ task' = [task EXCEPT ![w] = NoTask]
  /\ stopWorkers' = (stopWorkers \/ NoWorkLeft)
  /\ Goto(w, "ready")

\* The same four lines close every path of the loop body: the last busy worker
\* that finds the queue empty sets the stop flag and wakes all the others.
Leave(w) ==
  /\ queueMutex = Free
  /\ activeWorkers' = activeWorkers - 1
  /\ task' = [task EXCEPT ![w] = NoTask]
  /\ IF NoWorkLeft
       THEN /\ stopWorkers' = TRUE
            /\ pc' = NotifyAll([pc EXCEPT ![w] = "ready"])
       ELSE /\ UNCHANGED stopWorkers
            /\ Goto(w, "ready")

Finish(w) ==
  /\ pc[w] = "finish"
  /\ Leave(w)
  /\ UNCHANGED <<web, taskQueue, visitedUrls, locks, mainPc, pending,
                 documents, indexed, history>>

-----------------------------------------------------------------------------
(* A task: too deep, already visited, or to be processed.                  *)

CheckDepth(w) ==
  /\ pc[w] = "depth"
  /\ Goto(w, IF task[w].depth >= MaxDepth THEN "finish" ELSE "visit")
  /\ UNCHANGED <<web, taskQueue, activeWorkers, visitedUrls, stopWorkers,
                 locks, mainPc, task, pending, documents, indexed, history>>

\* Mutant: the set is checked without taking visitedMutex.
LockVisitedUnlocked(w) ==
  /\ pc[w] = "visit"
  /\ Goto(w, IF task[w].url \in visitedUrls THEN "duplicate" ELSE "insert")
  /\ UNCHANGED <<web, taskQueue, activeWorkers, visitedUrls, stopWorkers,
                 locks, mainPc, task, pending, documents, indexed, history>>

LockVisited(w) ==
  /\ pc[w] = "visit" /\ visitedMutex = Free
  /\ visitedMutex' = w
  /\ Goto(w, IF task[w].url \in visitedUrls THEN "duplicate" ELSE "insert")
  /\ UNCHANGED <<web, taskQueue, activeWorkers, visitedUrls, stopWorkers,
                 queueMutex, mainPc, task, pending, documents, indexed, history>>

\* Mutant: the path of a duplicate decrements and does not look for the end.
DropDuplicateUnchecked(w) ==
  /\ pc[w] = "duplicate" /\ queueMutex = Free
  /\ activeWorkers' = activeWorkers - 1
  /\ task' = [task EXCEPT ![w] = NoTask]
  /\ Goto(w, "ready")
  /\ visitedMutex' = Free
  /\ UNCHANGED <<web, taskQueue, visitedUrls, stopWorkers, queueMutex, mainPc,
                 pending, documents, indexed, history>>

\* Already visited: the counter is updated under both mutexes.
DropDuplicate(w) ==
  /\ pc[w] = "duplicate"
  /\ Leave(w)
  /\ visitedMutex' = Free
  /\ UNCHANGED <<web, taskQueue, visitedUrls, queueMutex, mainPc, pending,
                 documents, indexed, history>>

\* While a worker is at "insert" the set is being written; here it is done.
EndInsert(w) ==
  /\ pc[w] = "insert"
  /\ visitedUrls' = visitedUrls \cup {task[w].url}
  /\ visitedMutex' = Free
  /\ Goto(w, "fetch")
  /\ UNCHANGED <<web, taskQueue, activeWorkers, stopWorkers, queueMutex,
                 mainPc, task, pending, documents, indexed, history>>

\* URLParser::parse throws, or the page comes back empty: the task is over.
Fetch(w) ==
  /\ pc[w] = "fetch"
  /\ fetched' = fetched \cup {task[w].url}
  /\ \/ Goto(w, "document")
     \/ MayFail("fetch") /\ Goto(w, "finish")
  /\ UNCHANGED <<web, taskQueue, activeWorkers, visitedUrls, stopWorkers,
                 locks, mainPc, task, pending, documents, indexed, expanded>>

\* db.insertDocument: a commit that throws may or may not have taken effect.
StoreDocument(w) ==
  /\ pc[w] = "document"
  /\ \/ /\ documents' = documents \cup {task[w].url}
        /\ Goto(w, "words")
     \/ /\ MayFail("document")
        /\ documents' \in {documents, documents \cup {task[w].url}}
        /\ Goto(w, "finish")
  /\ UNCHANGED <<web, taskQueue, activeWorkers, visitedUrls, stopWorkers,
                 locks, mainPc, task, pending, indexed, history>>

\* indexer.index and db.insertWords; only a page above the last level goes on
\* to its links.
StoreWords(w) ==
  /\ pc[w] = "words"
  /\ \/ /\ indexed' = indexed \cup {task[w].url}
        /\ Goto(w, IF Follows(task[w]) THEN "extract" ELSE "finish")
     \/ /\ MayFail("words")
        /\ indexed' \in {indexed, indexed \cup {task[w].url}}
        /\ Goto(w, "finish")
  /\ UNCHANGED <<web, taskQueue, activeWorkers, visitedUrls, stopWorkers,
                 locks, mainPc, task, pending, documents, history>>

-----------------------------------------------------------------------------
(* URLParser::extractLinks and Spider::addLinksToQueue.                    *)

ExtractFails(w) ==
  /\ pc[w] = "extract"
  /\ MayFail("links")
  /\ Goto(w, "finish")
  /\ UNCHANGED <<web, taskQueue, activeWorkers, visitedUrls, stopWorkers,
                 locks, mainPc, task, pending, documents, indexed, history>>

\* Mutant: addLinksToQueue without queueMutex.
BeginAddLinksUnlocked(w) ==
  /\ pc[w] = "extract"
  /\ pending' = [pending EXCEPT ![w] = web[task[w].url]]
  /\ expanded' = expanded \cup {task[w].url}
  /\ Goto(w, "adding")
  /\ UNCHANGED <<web, taskQueue, activeWorkers, visitedUrls, stopWorkers,
                 locks, mainPc, task, documents, indexed, fetched>>

BeginAddLinks(w) ==
  /\ pc[w] = "extract" /\ queueMutex = Free
  /\ queueMutex' = w
  /\ pending' = [pending EXCEPT ![w] = web[task[w].url]]
  /\ expanded' = expanded \cup {task[w].url}
  /\ Goto(w, "adding")
  /\ UNCHANGED <<web, taskQueue, activeWorkers, visitedUrls, stopWorkers,
                 visitedMutex, mainPc, task, documents, indexed, fetched>>

\* The URLs that some worker is inserting at this moment.
BeingInserted == {task[v].url : v \in {u \in Worker : pc[u] = "insert"}}

\* visitedUrls.find without visitedMutex.  Concurrent with an insert it is a
\* data race: it may see the new element or not, and a rehash may hide an old
\* one; it never finds what nobody inserted.
Lookup(link) ==
  IF BeingInserted = {}
    THEN {(link \in visitedUrls)}
    ELSE {FALSE, (link \in visitedUrls \cup BeingInserted)}

\* Mutant: the first visited link ends the loop.
AddLinkBreak(w) ==
  /\ pc[w] = "adding" /\ pending[w] # <<>>
  /\ LET link == Head(pending[w])
     IN  IF link \in visitedUrls
           THEN /\ pending' = [pending EXCEPT ![w] = <<>>]
                /\ UNCHANGED taskQueue
           ELSE /\ pending' = [pending EXCEPT ![w] = Tail(@)]
                /\ taskQueue' = Push(taskQueue, [url |-> link, depth |-> LinkDepth(task[w])])
  /\ UNCHANGED <<web, activeWorkers, visitedUrls, stopWorkers, locks, mainPc,
                 pc, task, documents, indexed, history>>

AddLink(w) ==
  /\ pc[w] = "adding" /\ pending[w] # <<>>
  /\ \E found \in Lookup(Head(pending[w])) :
       taskQueue' = IF found
                      THEN taskQueue
                      ELSE Push(taskQueue, [url   |-> Head(pending[w]),
                                            depth |-> LinkDepth(task[w])])
  /\ pending' = [pending EXCEPT ![w] = Tail(@)]
  /\ UNCHANGED <<web, activeWorkers, visitedUrls, stopWorkers, locks, mainPc,
                 pc, task, documents, indexed, history>>

\* The other outcome of that race: the lookup follows a freed bucket and the
\* process dies.
RaceCrash(w) ==
  /\ pc[w] = "adding" /\ pending[w] # <<>>
  /\ BeingInserted # {}
  /\ mainPc' = "crashed"
  /\ UNCHANGED <<web, taskQueue, activeWorkers, visitedUrls, stopWorkers,
                 locks, pc, task, pending, documents, indexed, history>>

\* Mutant: the loop goes on from here without decrementing activeWorkers.
EndAddLinksContinue(w) ==
  /\ pc[w] = "adding" /\ pending[w] = <<>>
  /\ pc' = NotifyAll([pc EXCEPT ![w] = "ready"])
  /\ queueMutex' = Free
  /\ UNCHANGED <<web, taskQueue, activeWorkers, visitedUrls, stopWorkers,
                 visitedMutex, mainPc, task, pending, documents, indexed, history>>

EndAddLinks(w) ==
  /\ pc[w] = "adding" /\ pending[w] = <<>>
  /\ pc' = NotifyAll([pc EXCEPT ![w] = "size"])
  /\ queueMutex' = Free
  /\ UNCHANGED <<web, taskQueue, activeWorkers, visitedUrls, stopWorkers,
                 visitedMutex, mainPc, task, pending, documents, indexed, history>>

\* taskQueue.size() is read for the log without queueMutex; then notify_all.
LogSize(w) ==
  /\ pc[w] = "size"
  /\ pc' = NotifyAll([pc EXCEPT ![w] = "finish"])
  /\ UNCHANGED <<web, taskQueue, activeWorkers, visitedUrls, stopWorkers,
                 locks, mainPc, task, pending, documents, indexed, history>>

-----------------------------------------------------------------------------
Main == PushStart \/ (\E w \in Worker : SpawnWorker(w)) \/ SpawnFails \/ JoinAll

Step(w) ==
  \/ Sleep(w) \/ Exit(w) \/ Take(w) \/ Finish(w)
  \/ CheckDepth(w) \/ LockVisited(w) \/ DropDuplicate(w) \/ EndInsert(w)
  \/ Fetch(w) \/ StoreDocument(w) \/ StoreWords(w)
  \/ ExtractFails(w) \/ BeginAddLinks(w) \/ AddLink(w) \/ RaceCrash(w)
  \/ EndAddLinks(w) \/ LogSize(w)

Running == mainPc # "crashed"

\* Nothing is left to run: run() has returned and every worker it started has
\* left its loop, or the process is dead.
Ended ==
  \/ mainPc = "crashed"
  \/ mainPc \in {"returned", "threw"} /\ \A w \in Worker : pc[w] \in {"unborn", "exited"}

Next ==
  \/ Running /\ Main
  \/ \E w \in Worker : Running /\ Step(w)
  \/ \E w \in Worker : Running /\ SpuriousWake(w)
  \/ Ended /\ UNCHANGED vars

Spec == Init /\ [][Next]_vars

\* The operating system runs every thread that can run; every download ends.
Fairness ==
  /\ WF_vars(Running /\ (PushStart \/ (\E w \in Worker : SpawnWorker(w)) \/ JoinAll))
  /\ \A w \in Worker : WF_vars(Running /\ Step(w))

FairSpec == Spec /\ Fairness

-----------------------------------------------------------------------------
(* Type invariant.                                                         *)

\* Every variable has its type, the queue holds tasks, a busy worker has one.
TypeOK ==
  /\ web \in [Url -> Seq(Url)]
  /\ taskQueue \in Seq(Task)
  /\ activeWorkers \in Int
  /\ visitedUrls \subseteq Url
  /\ stopWorkers \in BOOLEAN
  /\ queueMutex \in Worker \cup {Free}
  /\ visitedMutex \in Worker \cup {Free}
  /\ mainPc \in MainPc
  /\ pc \in [Worker -> IdlePc \cup BusyPc]
  /\ task \in [Worker -> Task \cup {NoTask}]
  /\ \A w \in Worker : pc[w] \in BusyPc <=> task[w] # NoTask
  /\ pending \in [Worker -> Seq(Url)]
  /\ documents \subseteq Url /\ indexed \subseteq Url
  /\ fetched \subseteq Url /\ expanded \subseteq Url

-----------------------------------------------------------------------------
(* Safety.                                                                 *)

\* Termination detection (Spider.cpp:65-71, 79-85, 99-105, 130-136): once the
\* stop flag is up there is no queued task and no worker holds one, so no
\* worker that leaves its loop abandons work.
StopMeansNoWork == stopWorkers => taskQueue = <<>> /\ Busy = {}

\* The check and the insert under visitedMutex (Spider.cpp:75-89) make the
\* download of a URL exclusive and unique: of two workers past the check no
\* two have the same URL, and a worker about to download a page is the first.
ClaimedPc == {"insert", "fetch", "document", "words", "extract", "adding", "size"}

FetchedOnce ==
  /\ \A v, w \in Worker : v # w /\ pc[v] \in ClaimedPc /\ pc[w] \in ClaimedPc
                            => task[v].url # task[w].url
  /\ \A w \in Worker : pc[w] \in {"insert", "fetch"} => task[w].url \notin fetched

\* The URL is on its way: visited, queued, or in the hands of a worker that
\* has not looked it up yet.
Accounted(u) ==
  \/ u \in visitedUrls
  \/ \E i \in 1..Len(taskQueue) : taskQueue[i].url = u
  \/ \E w \in Worker : pc[w] \in {"depth", "visit", "duplicate", "insert"} /\ task[w].url = u

\* addLinksToQueue loses no link, whatever the unsynchronised lookup answers:
\* each link of an expanded page is accounted for or still to be looked up.
NoLinkLost ==
  \A u \in expanded : \A link \in Range(web[u]) :
    \/ Accounted(link)
    \/ \E w \in Worker : /\ pc[w] = "adding" /\ task[w].url = u
                         /\ link \in Range(pending[w])

\* No page deeper than recursion_depth is ever queued: the guard of line 63 is
\* never what stops a task.
DepthBounded ==
  /\ \A i \in 1..Len(taskQueue) : taskQueue[i].depth < MaxDepth
  /\ \A w \in Worker : pc[w] \in BusyPc => task[w].depth < MaxDepth

-----------------------------------------------------------------------------
(* What makes the four invariants inductive.                               *)

\* A mutex is held by the worker inside its critical section, and only then.
LocksHeld ==
  /\ \A w \in Worker : queueMutex = w <=> pc[w] = "adding"
  /\ \A w \in Worker : visitedMutex = w <=> pc[w] \in {"duplicate", "insert"}

\* activeWorkers counts the workers that hold a task, and nothing happens
\* before run() has queued the start page.
WorkCounted ==
  /\ activeWorkers = Cardinality(Busy)
  /\ mainPc = "push" => /\ taskQueue = <<>> /\ ~stopWorkers
                        /\ \A w \in Worker : pc[w] = "unborn"

\* Only a worker above the last level has links to add.
Expanding ==
  \A w \in Worker : pc[w] \in {"extract", "adding"} => task[w].depth + 1 < MaxDepth

\* visitedUrls tells apart the workers before and after the insert, and holds
\* every page whose download was begun.
VisitedMarks ==
  /\ \A w \in Worker : pc[w] = "insert" => task[w].url \notin visitedUrls
  /\ \A w \in Worker : pc[w] \in (ClaimedPc \ {"insert"}) \cup {"duplicate"}
                        => task[w].url \in visitedUrls
  /\ fetched \subseteq visitedUrls

Inductive ==
  /\ TypeOK /\ LocksHeld /\ WorkCounted /\ StopMeansNoWork
  /\ DepthBounded /\ Expanding
  /\ VisitedMarks /\ FetchedOnce /\ NoLinkLost

-----------------------------------------------------------------------------
(* Refinement of Crawl.                                                    *)

\* What has been found and not visited: queued, held by a worker that has not
\* inserted it, or the start page before run() queues it.
Found ==
  (IF mainPc = "push" THEN {StartUrl} ELSE {})
  \cup {taskQueue[i].url : i \in 1..Len(taskQueue)}
  \cup {task[w].url : w \in {v \in Worker : pc[v] \in {"depth", "visit", "insert"}}}

\* The pages between the insert into visitedUrls and the end of the loop body.
InProgress ==
  {task[w].url : w \in {v \in Worker :
     pc[v] \in {"fetch", "document", "words", "extract", "adding", "size", "finish"}}}

CrawlSpec == INSTANCE Crawl WITH
  todo <- Found \ visitedUrls, open <- InProgress, seen <- visitedUrls,
  closed <- stopWorkers

\* Spider implements Crawl: with its queue, counter, flag and two mutexes it
\* claims each page once and stops exactly when the crawl is complete.
RefinesCrawl == CrawlSpec!Spec

-----------------------------------------------------------------------------
(* Coverage of the web.                                                    *)

\* The pages at most n links away from the start page.
Within[n \in Nat] ==
  IF n = 0 THEN {StartUrl}
           ELSE Within[n-1] \cup UNION {Range(web[u]) : u \in Within[n-1]}

\* README.md:63 - with depth n the spider analyses the start page, the pages
\* it links to, and so on for n levels.  Stated for crawls without failures.
DepthCovered ==
  mainPc = "returned" /\ Faults = {} => Within[MaxDepth - 1] \subseteq indexed

\* The spider never strays: whatever was visited is within the depth.
NothingDeeper == visitedUrls \subseteq Within[MaxDepth - 1]

-----------------------------------------------------------------------------
(* Liveness.                                                               *)

\* run() comes back: no worker sleeps through the last notification and no
\* pair of mutexes deadlocks, whichever calls fail.
SpiderFinishes == <>(mainPc \in {"returned", "threw", "crashed"})

\* Every worker that was started leaves its loop, so run() can join it.
WorkersExit ==
  \A w \in Worker : pc[w] = "ready" ~> (pc[w] = "exited" \/ mainPc = "crashed")

-----------------------------------------------------------------------------
(* Accesses that C++ requires to be synchronised.                          *)

\* visitedUrls is never searched while another thread inserts into it.
VisitedReadSynchronised ==
  \A w \in Worker : pc[w] = "adding" /\ pending[w] # <<>> => BeingInserted = {}

=============================================================================
