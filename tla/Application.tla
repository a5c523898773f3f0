---------------------------- MODULE Application ----------------------------
(***************************************************************************)
(* The three programs of src/SearchEngine/src/main.cpp: the construction   *)
(* of Application from Config.ini, run / ConsoleSearch / HTMLSearch, the   *)
(* two threads and the destruction.                                        *)
(*                                                                         *)
(* The parts are taken at what they promise: the crawl goes through the    *)
(* steps of Crawl, the tables through those of SearchIndex, tied together  *)
(* in the order of Spider::worker; the server thread runs until it is      *)
(* stopped (SearchEngine!StopReturns).                                     *)
(***************************************************************************)
EXTENDS Integers, Sequences

CONSTANTS
  Url, StartUrl,
  NoDoc, Page,       \* what a page holds while the program runs
  Webs,              \* the link structures of this instance
  Modes,             \* the executables of CMakeLists.txt
  SettingSets,       \* the contents of Config.ini
  NoNumber,          \* an entry that is missing, or that std::stoi throws on
  Taken,             \* ports other programs listen on
  MaxLines,          \* bound: lines typed
  Faults             \* the failures of this instance

ModeKind  == {"full", "console", "html"}
FaultKind == {"database", "thread", "page"}

ASSUME ModeAssumption  == Modes \subseteq ModeKind
ASSUME FaultAssumption == Faults \subseteq FaultKind
ASSUME PageAssumption  == Page # NoDoc
ASSUME StartAssumption == StartUrl \in Url
ASSUME WebAssumption   == \A w \in Webs : w \in [Url -> Seq(Url)]
ASSUME LineAssumption  == MaxLines \in Nat

\* What is no number is an entry that std::stoi throws on.
ASSUME SettingAssumption ==
  \A s \in SettingSets : /\ s.depth = NoNumber \/ s.depth \in Int
                         /\ s.port = NoNumber \/ s.port \in Int

NoPort == -1
Port == {NoPort} \cup 0..65535

\* A line is the word that ends ConsoleSearch, or a search, or a complaint.
Line == {"exit", "other"}

VARIABLES
  settings, mode,
  main,              \* where the main thread is
  exit,              \* how the process ended
  tables,            \* initializeDatabase has committed
  port,              \* the port the acceptor listens on
  spider, server,    \* the threads of Application
  pool,              \* the workers: none, all of them, some, or none could be started
  stopped,           \* ioContext.stop()
  joined,            \* the threads of Application that have been joined
  input, eof, typed, \* standard input
  web, todo, open, seen, closed,
  stored, indexed,
  step,              \* how far the worker of an open page is
  given,             \* history: pages given up
  unstarted          \* history: a thread could not be created

settingVars == <<settings, mode>>
inputVars   == <<input, eof, typed>>
crawlVars   == <<web, todo, open, seen, closed>>
indexVars   == <<stored, indexed>>
pageVars    == <<crawlVars, indexVars, step, given>>
threadVars  == <<spider, server, pool, stopped, joined, unstarted>>
vars == <<settingVars, main, exit, tables, port, threadVars, inputVars, pageVars>>

C == INSTANCE Crawl
I == INSTANCE SearchIndex WITH Content <- {Page}

Alive == exit = "none"
At(l) == Alive /\ main = l
Goto(l) == main' = l

-----------------------------------------------------------------------------
Init ==
  /\ settings \in SettingSets /\ mode \in Modes
  /\ main = "config" /\ exit = "none"
  /\ tables = FALSE /\ port = NoPort
  /\ spider = "none" /\ server = "none" /\ pool = "none" /\ stopped = FALSE
  /\ joined = {} /\ unstarted = FALSE
  /\ input = <<>> /\ eof = FALSE /\ typed = 0
  /\ web \in Webs /\ C!Init /\ I!Init
  /\ step = [u \in Url |-> "none"] /\ given = {}

-----------------------------------------------------------------------------
(* Application::Application, member by member.  What throws ends main().   *)

Fail == exit' = "1" /\ Goto("ended") /\ port' = NoPort

Number(value) == value # NoNumber

ReadConfig ==
  /\ At("config")
  /\ \/ settings.file /\ Goto("database") /\ UNCHANGED <<exit, port>>
     \/ ~settings.file /\ Fail
  /\ UNCHANGED <<settingVars, tables, threadVars, inputVars, pageVars>>

\* Database connects and creates the tables.
BuildDatabase ==
  /\ At("database")
  /\ \/ /\ settings.db
        /\ tables' = TRUE
        /\ Goto("spider")
        /\ UNCHANGED <<exit, port>>
     \/ /\ ~settings.db \/ "database" \in Faults
        /\ Fail
        /\ UNCHANGED tables
  /\ UNCHANGED <<settingVars, threadVars, inputVars, pageVars>>

HasTask == settings.start_url /\ Number(settings.depth)

BuildSpider ==
  /\ At("spider")
  /\ \/ HasTask /\ Goto("server") /\ UNCHANGED <<exit, port>>
     \/ ~HasTask /\ Fail
  /\ UNCHANGED <<settingVars, tables, threadVars, inputVars, pageVars>>

\* tcp::endpoint takes the port as an unsigned short; the acceptor binds and
\* listens at once, in all three programs.
Unbound(number) == number    \* mutant: the number as it is

Bound(number) == number % 65536

CanBind == Number(settings.port) /\ Bound(settings.port) \notin Taken

BuildServer ==
  /\ At("server")
  /\ \/ CanBind /\ port' = Bound(settings.port) /\ Goto("validate") /\ UNCHANGED exit
     \/ ~CanBind /\ Fail
  /\ UNCHANGED <<settingVars, tables, threadVars, inputVars, pageVars>>

\* Mutant: the upper bound of the port is not tested.
ValidNumbers == settings.depth > 0 /\ settings.port > 1024

Valid == settings.depth > 0 /\ settings.port > 1024 /\ settings.port <= 65535

Begin == IF mode = "full" THEN "startSpider" ELSE IF mode = "console" THEN "console" ELSE "startServer"

Validate ==
  /\ At("validate")
  /\ \/ Valid /\ Goto(Begin) /\ UNCHANGED <<exit, port>>
     \/ ~Valid /\ Fail
  /\ UNCHANGED <<settingVars, tables, threadVars, inputVars, pageVars>>

-----------------------------------------------------------------------------
(* Application::run and HTMLSearch.  A std::thread that cannot be created  *)
(* throws; the handler returns to main(), which destroys the Application.  *)

StartSpider ==
  /\ At("startSpider")
  /\ \/ spider' = "starting" /\ Goto("startServer") /\ UNCHANGED unstarted
     \/ "thread" \in Faults /\ unstarted' = TRUE /\ Goto("destroy") /\ UNCHANGED spider
  /\ UNCHANGED <<settingVars, exit, tables, port, server, pool, stopped, joined, inputVars, pageVars>>

StartServer ==
  /\ At("startServer")
  /\ \/ /\ server' = "running"
        /\ Goto(IF mode = "full" THEN "joinSpider" ELSE "prompt")
        /\ UNCHANGED unstarted
     \/ "thread" \in Faults /\ unstarted' = TRUE /\ Goto("destroy") /\ UNCHANGED server
  /\ UNCHANGED <<settingVars, exit, tables, port, spider, pool, stopped, joined, inputVars, pageVars>>

\* Mutant: the prompt comes up without waiting for the spider.
PromptAtOnce ==
  /\ At("joinSpider")
  /\ Goto("prompt")
  /\ UNCHANGED <<settingVars, exit, tables, port, threadVars, inputVars, pageVars>>

JoinSpider ==
  /\ At("joinSpider") /\ spider = "done"
  /\ joined' = joined \cup {"spider"}
  /\ Goto("prompt")
  /\ UNCHANGED <<settingVars, exit, tables, port, spider, server, pool, stopped, unstarted,
                 inputVars, pageVars>>

\* std::cin.get(): a key that was typed at any time before will do, and so will
\* the end of the input.
PressEnter ==
  /\ At("prompt") /\ (input # <<>> \/ eof)
  /\ input' = IF input = <<>> THEN input ELSE Tail(input)
  /\ Goto("stop")
  /\ UNCHANGED <<settingVars, exit, tables, port, threadVars, eof, typed, pageVars>>

\* Mutant: the acceptor is closed and ioContext goes on.
CloseOnly ==
  /\ At("stop")
  /\ port' = NoPort
  /\ Goto("joinServer")
  /\ UNCHANGED <<settingVars, exit, tables, threadVars, inputVars, pageVars>>

Stop ==
  /\ At("stop")
  /\ port' = NoPort /\ stopped' = TRUE
  /\ Goto("joinServer")
  /\ UNCHANGED <<settingVars, exit, tables, spider, server, pool, joined, unstarted, inputVars, pageVars>>

\* Mutant: nobody waits for the io thread.
LeaveServer ==
  /\ At("joinServer")
  /\ Goto("destroy")
  /\ UNCHANGED <<settingVars, exit, tables, port, threadVars, inputVars, pageVars>>

JoinServer ==
  /\ At("joinServer") /\ server = "ended"
  /\ joined' = joined \cup {"server"}
  /\ Goto("destroy")
  /\ UNCHANGED <<settingVars, exit, tables, port, spider, server, pool, stopped, unstarted,
                 inputVars, pageVars>>

\* SearchEngine::run returns when ioContext has been stopped, also when that
\* was before it began.
ServerEnds ==
  /\ Alive /\ server = "running" /\ stopped
  /\ server' = "ended"
  /\ UNCHANGED <<settingVars, main, exit, tables, port, spider, pool, stopped, joined, unstarted,
                 inputVars, pageVars>>

-----------------------------------------------------------------------------
(* The end of the Application.                                             *)

\* Thread objects that own a thread nobody has joined: those of run that an
\* exception skipped, and those of Spider::run when the pool came up in part.
Unjoined ==
  {t \in {"spider", "server"} \ joined :
     (t = "spider" /\ spider # "none") \/ (t = "server" /\ server # "none")}
  \cup (IF pool = "part" THEN {"pool"} ELSE {})

\* Destroying a std::thread that owns a thread is std::terminate.
Destroy ==
  /\ At("destroy")
  /\ exit' = IF Unjoined = {} THEN "0" ELSE "crash"
  /\ Goto("ended") /\ port' = NoPort
  /\ UNCHANGED <<settingVars, tables, threadVars, inputVars, pageVars>>

-----------------------------------------------------------------------------
(* ConsoleSearch: everything but "/exit_search" is a search or a complaint. *)

ConsoleSearch ==
  /\ At("console")
  /\ \/ /\ input # <<>>
        /\ input' = Tail(input)
        /\ Goto(IF Head(input) = "exit" THEN "destroy" ELSE "console")
     \/ input = <<>> /\ eof /\ UNCHANGED <<input, main>>
  /\ UNCHANGED <<settingVars, exit, tables, port, threadVars, eof, typed, pageVars>>

-----------------------------------------------------------------------------
(* The spider's thread and its pool.                                       *)

\* Spider::run pushes the start page and starts the workers; when one cannot be
\* started it gives up, while those it has started go on.
SpiderRun ==
  /\ Alive /\ spider = "starting"
  /\ \/ pool' = "whole" /\ spider' = "running" /\ UNCHANGED unstarted
     \/ /\ "thread" \in Faults
        /\ pool' \in {"part", "nobody"} /\ spider' = "done" /\ unstarted' = TRUE
  /\ UNCHANGED <<settingVars, main, exit, tables, port, server, stopped, joined, inputVars, pageVars>>

SpiderEnds ==
  /\ Alive /\ spider = "running" /\ closed
  /\ spider' = "done"
  /\ UNCHANGED <<settingVars, main, exit, tables, port, server, pool, stopped, joined, unstarted,
                 inputVars, pageVars>>

Crawling == Alive /\ pool \in {"whole", "part"}
Reached(u, l) == step' = [step EXCEPT ![u] = l]
programVars == <<settingVars, main, exit, tables, port, threadVars, inputVars>>

Claim(u) ==
  /\ Crawling /\ C!Claim(u) /\ Reached(u, "claimed")
  /\ UNCHANGED <<programVars, indexVars, given>>

\* insertDocument.
Store(u) ==
  /\ Crawling /\ u \in open /\ step[u] = "claimed"
  /\ I!Store(u, Page) /\ Reached(u, "stored")
  /\ UNCHANGED <<programVars, crawlVars, given>>

\* insertWords.
Reindex(u) ==
  /\ Crawling /\ u \in open /\ step[u] = "stored"
  /\ I!Reindex(u) /\ Reached(u, "indexed")
  /\ UNCHANGED <<programVars, crawlVars, given>>

Find(u, i) ==
  /\ Crawling /\ u \in open /\ step[u] = "indexed"
  /\ C!Find(u, i)
  /\ UNCHANGED <<programVars, indexVars, step, given>>

Leave(u) ==
  /\ Crawling /\ u \in open /\ step[u] = "indexed"
  /\ C!Leave(u)
  /\ UNCHANGED <<programVars, indexVars, step, given>>

\* The download, one of the two transactions, the indexer or a link throws, or
\* the page is empty.
GiveUp(u) ==
  /\ "page" \in Faults
  /\ Crawling /\ u \in open
  /\ C!Leave(u) /\ given' = given \cup {u}
  /\ UNCHANGED <<programVars, indexVars, step>>

Close ==
  /\ Crawling /\ ~closed
  /\ C!Close
  /\ UNCHANGED <<programVars, indexVars, step, given>>

CrawlStep ==
  \/ \E u \in Url : Claim(u) \/ Store(u) \/ Reindex(u) \/ Leave(u) \/ GiveUp(u)
  \/ \E u \in Url : \E i \in 1..Len(web[u]) : Find(u, i)
  \/ Close

-----------------------------------------------------------------------------
(* Whoever sits at the terminal.                                           *)

Type(l) ==
  /\ Alive /\ ~eof /\ typed < MaxLines
  /\ input' = Append(input, l) /\ typed' = typed + 1
  /\ UNCHANGED <<settingVars, main, exit, tables, port, threadVars, eof, pageVars>>

CloseInput ==
  /\ Alive /\ ~eof
  /\ eof' = TRUE
  /\ UNCHANGED <<settingVars, main, exit, tables, port, threadVars, input, typed, pageVars>>

MainStep ==
  \/ ReadConfig \/ BuildDatabase \/ BuildSpider \/ BuildServer \/ Validate
  \/ StartSpider \/ StartServer \/ JoinSpider \/ PressEnter \/ Stop \/ JoinServer
  \/ ConsoleSearch \/ Destroy

Ended == ~Alive /\ UNCHANGED vars

Next ==
  \/ MainStep \/ ServerEnds \/ SpiderRun \/ SpiderEnds \/ CrawlStep
  \/ (\E l \in Line : Type(l)) \/ CloseInput \/ Ended

\* The threads run and every download ends; nobody has to type anything.
Fairness ==
  /\ WF_vars(MainStep) /\ WF_vars(ServerEnds) /\ WF_vars(SpiderRun) /\ WF_vars(SpiderEnds)
  /\ WF_vars(Close)
  /\ \A u \in Url : WF_vars(Claim(u)) /\ WF_vars(Store(u) \/ Reindex(u) \/ Leave(u))

Spec == Init /\ [][Next]_vars /\ Fairness

-----------------------------------------------------------------------------
TypeOK ==
  /\ exit \in {"none", "0", "1", "crash"}
  /\ main \in {"config", "database", "spider", "server", "validate", "startSpider", "startServer",
               "joinSpider", "prompt", "stop", "joinServer", "console", "destroy", "ended"}
  /\ tables \in BOOLEAN /\ port \in Port
  /\ spider \in {"none", "starting", "running", "done"} /\ server \in {"none", "running", "ended"}
  /\ pool \in {"none", "whole", "part", "nobody"}
  /\ stopped \in BOOLEAN /\ joined \subseteq {"spider", "server"} /\ unstarted \in BOOLEAN
  /\ input \in Seq(Line) /\ eof \in BOOLEAN /\ typed \in 0..MaxLines
  /\ todo \cup open \cup seen \cup given \subseteq Url /\ closed \in BOOLEAN
  /\ \A u \in Url : {stored[u], indexed[u]} \subseteq {NoDoc, Page}
  /\ step \in [Url -> {"none", "claimed", "stored", "indexed"}]

\* Application.cpp:32-38 - when run reports that the spider has completed, every
\* page it took and did not have to give up is stored and found by its words,
\* and no page is waiting: the join, the order of the steps of a worker and the
\* promise of the two parts together.
PromptMeansIndexed ==
  mode = "full" /\ main \in {"prompt", "stop", "joinServer"} /\ pool = "whole"
    => /\ todo = {} /\ open = {} /\ StartUrl \in seen
       /\ \A u \in seen \ given : stored[u] = Page /\ indexed[u] = Page

\* The threads hold references to db, spider and searchEngine: main() returns
\* only when every thread has ended, and std::terminate, which ends what no join
\* waits for, is reached only after a thread could not be created.
ThreadsEndFirst ==
  /\ exit \in {"0", "1"} => /\ spider \in {"none", "done"} /\ server \in {"none", "ended"}
                            /\ pool # "part"
  /\ exit = "crash" => unstarted

\* Application.cpp:36 - the server that the log announces at the port of
\* Config.ini listens on that port, and on none that needs privileges.
ListensWhereSaid ==
  main \in {"startServer", "joinSpider", "prompt", "console"} /\ Alive
    => port = settings.port /\ port > 1024

\* Application.cpp:38, 67 - the commands of the terminal end the program: Enter, or
\* the end of the input, also when the key was pressed while the crawl was still
\* going on; "type /exit_search to exit".
CommandsEnd ==
  /\ mode # "console" /\ (input # <<>> \/ eof) ~> ~Alive
  /\ mode = "console" /\ (\E i \in DOMAIN input : input[i] = "exit") ~> ~Alive
=============================================================================
