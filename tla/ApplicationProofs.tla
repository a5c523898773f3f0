------------------------- MODULE ApplicationProofs -------------------------
(***************************************************************************)
(* The invariants of Application, for every set of pages and links, every  *)
(* contents of Config.ini, all executables and all failures.  The          *)
(* inductive invariant has a part for each of the things main() relies on: *)
(* where the main thread is tells which threads there are and which have   *)
(* been joined, which port is open, and how far the crawl has come.        *)
(***************************************************************************)
EXTENDS Application, TLAPS

Typed ==
  /\ TypeOK
  /\ settings \in SettingSets /\ mode \in Modes /\ web \in Webs
  /\ stored \in [Url -> {NoDoc, Page}] /\ indexed \in [Url -> {NoDoc, Page}]

\* The states of the main thread before it has started a thread, and those in
\* which Application::run has joined the spider.
BeforeThreads == {"config", "database", "spider", "server", "validate", "startSpider", "console"}
AfterSpider   == {"prompt", "stop", "joinServer"}
WhileOpen     == {"startSpider", "startServer", "joinSpider", "prompt", "console"}

Course ==
  /\ (exit = "none") <=> (main # "ended")
  /\ main \in BeforeThreads => spider = "none" /\ server = "none"
  /\ main = "startServer" => server = "none"
  /\ mode # "full" => spider = "none" /\ main # "startSpider"
  /\ spider \in {"none", "starting"} => pool = "none"
  /\ pool = "part" => unstarted
  /\ "spider" \in joined => spider = "done"
  /\ "server" \in joined => server = "ended"
  /\ main \in AfterSpider => IF mode = "full" THEN "spider" \in joined ELSE spider = "none"
  /\ main = "destroy" => \/ unstarted
                         \/ /\ spider = "none" \/ "spider" \in joined
                            /\ server = "none" \/ "server" \in joined

Listening ==
  /\ main = "validate" => Number(settings.port) /\ port = Bound(settings.port)
  /\ main \in WhileOpen => port = settings.port /\ port > 1024

Crawled ==
  /\ closed => todo = {} /\ open = {}
  /\ StartUrl \in todo \cup seen
  /\ \A u \in Url : step[u] \in {"stored", "indexed"} => stored[u] = Page
  /\ \A u \in Url : step[u] = "indexed" => indexed[u] = Page
  /\ \A u \in seen : u \in open \cup given \/ step[u] = "indexed"
  /\ pool = "whole" => spider \in {"running", "done"}
  /\ pool = "whole" /\ spider = "done" => closed

IInv == Typed /\ Course /\ ThreadsEndFirst /\ Listening /\ Crawled

USE DEF settingVars, inputVars, crawlVars, indexVars, pageVars, threadVars, programVars



-----------------------------------------------------------------------------
(* Ports.                                                                  *)

LEMMA PortFacts == NoPort \in Port /\ \A n \in Int : Bound(n) \in Port
<1>1. NoPort \in Port
  BY DEF Port
<1>2. \A n \in Int : Bound(n) \in Port
  BY SMT DEF Bound, Port
<1> QED
  BY <1>1, <1>2

LEMMA BoundType ==
  ASSUME settings \in SettingSets, Number(settings.port)
  PROVE  Bound(settings.port) \in Port
<1>1. settings.port \in Int
  BY SettingAssumption DEF Number
<1> QED
  BY <1>1, PortFacts

-----------------------------------------------------------------------------
(* The initial states.                                                     *)

LEMMA InitIInv == Init => IInv
<1> SUFFICES ASSUME Init PROVE IInv
  OBVIOUS
<1> USE DEF Init, C!Init, I!Init
<1>1. Typed
  <2>1. port \in Port
    BY PortFacts
  <2>2. input \in Seq(Line) /\ typed \in 0..MaxLines
    BY LineAssumption
  <2>3. stored \in [Url -> {NoDoc, Page}] /\ indexed \in [Url -> {NoDoc, Page}]
    OBVIOUS
  <2>4. step \in [Url -> {"none", "claimed", "stored", "indexed"}]
    OBVIOUS
  <2>5. todo \cup open \cup seen \cup given \subseteq Url
    BY StartAssumption
  <2> QED
    BY <2>1, <2>2, <2>3, <2>4, <2>5 DEF Typed, TypeOK
<1>2. Course /\ ThreadsEndFirst
  BY DEF Course, ThreadsEndFirst, BeforeThreads, AfterSpider
<1>3. Listening
  BY DEF Listening, WhileOpen
<1>4. Crawled
  BY StartAssumption DEF Crawled
<1> QED
  BY <1>1, <1>2, <1>3, <1>4 DEF IInv

-----------------------------------------------------------------------------
(* Types.                                                                  *)

LEMMA TypedNext == IInv /\ Next => Typed'
<1> SUFFICES ASSUME Typed, Next PROVE Typed'
  BY DEF IInv
<1> USE PortFacts DEF Typed, TypeOK, At, Goto, Alive, Fail
<1>1. CASE ReadConfig
  BY <1>1 DEF ReadConfig, Fail
<1>2. CASE BuildDatabase
  BY <1>2 DEF BuildDatabase, Fail
<1>3. CASE BuildSpider
  BY <1>3 DEF BuildSpider, Fail
<1>4. CASE BuildServer
  BY <1>4, BoundType DEF BuildServer, CanBind
<1>5. CASE Validate
  BY <1>5 DEF Validate, Fail, Begin
<1>6. CASE StartSpider
  BY <1>6 DEF StartSpider
<1>13. CASE StartServer
  BY <1>13 DEF StartServer
<1>14. CASE JoinSpider
  BY <1>14 DEF JoinSpider
<1>7. CASE PressEnter
  <2>1. input' \in Seq(Line)
    BY <1>7 DEF PressEnter
  <2> QED
    BY <1>7, <2>1 DEF PressEnter
<1>15. CASE ConsoleSearch
  <2>1. input' \in Seq(Line)
    BY <1>15 DEF ConsoleSearch
  <2>2. main' \in {"destroy", "console"}
    BY <1>15 DEF ConsoleSearch
  <2> QED
    BY <1>15, <2>1, <2>2 DEF ConsoleSearch
<1>8. CASE Stop
  BY <1>8 DEF Stop
<1>16. CASE JoinServer
  BY <1>16 DEF JoinServer
<1>17. CASE Destroy
  BY <1>17 DEF Destroy
<1>18. CASE ServerEnds
  BY <1>18 DEF ServerEnds
<1>9. CASE SpiderRun \/ SpiderEnds
  BY <1>9 DEF SpiderRun, SpiderEnds
<1>10. CASE CrawlStep
  <2>1. ASSUME NEW u \in Url, Claim(u) PROVE Typed'
    BY <2>1 DEF Claim, C!Claim, Reached
  <2>6. ASSUME NEW u \in Url, Leave(u) PROVE Typed'
    <3>1. closed' \in {closed, (todo = {} /\ open' = {})}
      BY <2>6 DEF Leave, C!Leave
    <3>2. closed' \in BOOLEAN
      BY <3>1
    <3> QED
      BY <2>6, <3>2 DEF Leave, C!Leave
  <2>7. ASSUME NEW u \in Url, GiveUp(u) PROVE Typed'
    <3>1. closed' \in {closed, (todo = {} /\ open' = {})}
      BY <2>7 DEF GiveUp, C!Leave
    <3>2. closed' \in BOOLEAN
      BY <3>1
    <3> QED
      BY <2>7, <3>2 DEF GiveUp, C!Leave
  <2>2. ASSUME NEW u \in Url, Store(u) PROVE Typed'
    BY <2>2 DEF Store, I!Store, Reached
  <2>3. ASSUME NEW u \in Url, Reindex(u) PROVE Typed'
    BY <2>3 DEF Reindex, I!Reindex, Reached
  <2>4. ASSUME NEW u \in Url, NEW i \in 1..Len(web[u]), Find(u, i) PROVE Typed'
    <3>1. web[u] \in Seq(Url)
      BY WebAssumption
    <3>2. web[u][i] \in Url
      BY <3>1
    <3> QED
      BY <2>4, <3>2 DEF Find, C!Find
  <2>5. CASE Close
    BY <2>5 DEF Close, C!Close
  <2> QED
    BY <1>10, <2>1, <2>2, <2>3, <2>4, <2>5, <2>6, <2>7 DEF CrawlStep
<1>11. ASSUME NEW l \in Line, Type(l) PROVE Typed'
  <2>1. Append(input, l) \in Seq(Line)
    BY <1>11
  <2>2. typed + 1 \in 0..MaxLines
    BY <1>11, LineAssumption, SMT DEF Type
  <2> QED
    BY <1>11, <2>1, <2>2 DEF Type
<1>12. CASE CloseInput
  BY <1>12 DEF CloseInput
<1>19. CASE Ended
  BY <1>19 DEF Ended, vars
<1> QED
  BY <1>1, <1>2, <1>3, <1>4, <1>5, <1>6, <1>7, <1>8, <1>9, <1>10, <1>11, <1>12,
     <1>13, <1>14, <1>15, <1>16, <1>17, <1>18, <1>19 DEF Next, MainStep

-----------------------------------------------------------------------------
(* Where the main thread is tells which threads there are.                 *)

LEMMA CourseNext == IInv /\ Next => Course' /\ ThreadsEndFirst'
<1> SUFFICES ASSUME TypeOK, Course, ThreadsEndFirst, Next PROVE Course' /\ ThreadsEndFirst'
  BY DEF IInv, Typed
<1>0. /\ spider \in {"none", "starting", "running", "done"} /\ server \in {"none", "running", "ended"}
      /\ pool \in {"none", "whole", "part", "nobody"}
  BY DEF TypeOK
<1> USE <1>0 DEF Course, ThreadsEndFirst, BeforeThreads, AfterSpider, At, Goto, Alive, Fail
<1>1. CASE ReadConfig
  BY <1>1 DEF ReadConfig
<1>2. CASE BuildDatabase
  BY <1>2 DEF BuildDatabase
<1>3. CASE BuildSpider
  BY <1>3 DEF BuildSpider
<1>4. CASE BuildServer
  BY <1>4 DEF BuildServer
<1>5. CASE Validate
  BY <1>5 DEF Validate, Begin
<1>6. CASE StartSpider
  BY <1>6 DEF StartSpider
<1>7. CASE StartServer
  BY <1>7 DEF StartServer
<1>8. CASE JoinSpider
  BY <1>8 DEF JoinSpider
<1>9. CASE PressEnter
  BY <1>9 DEF PressEnter
<1>10. CASE Stop
  BY <1>10 DEF Stop
<1>11. CASE JoinServer
  BY <1>11 DEF JoinServer
<1>12. CASE ConsoleSearch
  BY <1>12 DEF ConsoleSearch
<1>13. CASE Destroy
  <2>1. ~unstarted => Unjoined = {}
    BY <1>13 DEF Destroy, Unjoined
  <2>2. Unjoined = {} => /\ spider \in {"none", "done"} /\ server \in {"none", "ended"}
                         /\ pool # "part"
    BY <1>13 DEF Destroy, Unjoined
  <2> QED
    BY <1>13, <2>1, <2>2 DEF Destroy
<1>14. CASE ServerEnds
  BY <1>14 DEF ServerEnds
<1>15. CASE SpiderRun
  BY <1>15 DEF SpiderRun
<1>16. CASE SpiderEnds
  BY <1>16 DEF SpiderEnds
<1>17. CASE UNCHANGED programVars
  BY <1>17
<1>18. CASE CrawlStep
  BY <1>18, <1>17 DEF CrawlStep, Claim, Store, Reindex, Leave, GiveUp, Find, Close
<1>19. CASE CloseInput \/ \E l \in Line : Type(l)
  BY <1>19 DEF CloseInput, Type
<1>20. CASE Ended
  BY <1>20, <1>17 DEF Ended, vars
<1> QED
  BY <1>1, <1>2, <1>3, <1>4, <1>5, <1>6, <1>7, <1>8, <1>9, <1>10, <1>11, <1>12,
     <1>13, <1>14, <1>15, <1>16, <1>18, <1>19, <1>20 DEF Next, MainStep

-----------------------------------------------------------------------------
(* The port.  Validate admits the numbers that an unsigned short can hold. *)

LEMMA BoundSame == \A n \in Int : n > 1024 /\ n <= 65535 => Bound(n) = n
  BY SMT DEF Bound

LEMMA ListeningNext == IInv /\ Next => Listening'
<1> SUFFICES ASSUME settings \in SettingSets, Listening, Next PROVE Listening'
  BY DEF IInv, Typed
<1> USE DEF Listening, WhileOpen, At, Goto, Alive, Fail
<1>1. CASE ReadConfig \/ BuildDatabase \/ BuildSpider
  BY <1>1 DEF ReadConfig, BuildDatabase, BuildSpider
<1>2. CASE BuildServer
  BY <1>2 DEF BuildServer, CanBind
<1>3. CASE Validate
  <2>1. CASE Valid /\ port' = port
    <3>1. settings.port \in Int
      BY <1>3, SettingAssumption DEF Validate, Number
    <3>2. settings.port > 1024 /\ settings.port <= 65535
      BY <2>1 DEF Valid
    <3>3. port = settings.port
      BY <1>3, <3>1, <3>2, BoundSame DEF Validate
    <3> QED
      BY <1>3, <2>1, <3>2, <3>3 DEF Validate, Begin
  <2> QED
    BY <1>3, <2>1 DEF Validate
<1>4. CASE StartSpider \/ StartServer \/ JoinSpider \/ PressEnter \/ Stop \/ JoinServer
  BY <1>4 DEF StartSpider, StartServer, JoinSpider, PressEnter, Stop, JoinServer
<1>5. CASE ConsoleSearch \/ Destroy
  BY <1>5 DEF ConsoleSearch, Destroy
<1>6. CASE ServerEnds \/ SpiderRun \/ SpiderEnds
  BY <1>6 DEF ServerEnds, SpiderRun, SpiderEnds
<1>7. CASE UNCHANGED <<settings, main, port>>
  BY <1>7
<1>8. CASE CrawlStep
  BY <1>8, <1>7 DEF CrawlStep, Claim, Store, Reindex, Leave, GiveUp, Find, Close
<1>9. CASE CloseInput \/ \E l \in Line : Type(l)
  BY <1>9, <1>7 DEF CloseInput, Type
<1>10. CASE Ended
  BY <1>10, <1>7 DEF Ended, vars
<1> QED
  BY <1>1, <1>2, <1>3, <1>4, <1>5, <1>6, <1>8, <1>9, <1>10 DEF Next, MainStep

-----------------------------------------------------------------------------
(* How far the crawl has come.                                             *)

LEMMA CrawledNext == IInv /\ Next => Crawled'
<1> SUFFICES ASSUME Typed, Course, Crawled, Next PROVE Crawled'
  BY DEF IInv
<1>0. step \in [Url -> {"none", "claimed", "stored", "indexed"}]
  BY DEF Typed, TypeOK
<1>1. stored \in [Url -> {NoDoc, Page}] /\ indexed \in [Url -> {NoDoc, Page}]
  BY DEF Typed
<1> USE <1>0, <1>1 DEF Crawled
<1>2. CASE UNCHANGED <<pageVars, pool, spider>>
  BY <1>2
<1>3. CASE MainStep /\ ~StartSpider
  BY <1>3, <1>2 DEF MainStep, ReadConfig, BuildDatabase, BuildSpider, BuildServer, Validate,
     StartServer, JoinSpider, PressEnter, Stop, JoinServer, ConsoleSearch, Destroy
<1>4. CASE StartSpider
  BY <1>4 DEF StartSpider, Course, BeforeThreads, At
<1>5. CASE ServerEnds \/ CloseInput \/ \E l \in Line : Type(l)
  BY <1>5, <1>2 DEF ServerEnds, CloseInput, Type
<1>6. CASE Ended
  BY <1>6, <1>2 DEF Ended, vars
<1>7. CASE SpiderRun
  BY <1>7 DEF SpiderRun
<1>8. CASE SpiderEnds
  BY <1>8 DEF SpiderEnds
<1>9. CASE CrawlStep
  <2>0. CrawlStep => UNCHANGED <<pool, spider>>
    BY DEF CrawlStep, Claim, Store, Reindex, Leave, GiveUp, Find, Close
  <2> USE <2>0, <1>9
  <2>1. ASSUME NEW u \in Url, Claim(u) PROVE Crawled'
    BY <2>1 DEF Claim, C!Claim, Reached
  <2>2. ASSUME NEW u \in Url, Store(u) PROVE Crawled'
    BY <2>2 DEF Store, I!Store, Reached
  <2>3. ASSUME NEW u \in Url, Reindex(u) PROVE Crawled'
    BY <2>3 DEF Reindex, I!Reindex, Reached
  <2>4. ASSUME NEW u \in Url, Leave(u) PROVE Crawled'
    BY <2>4 DEF Leave, C!Leave
  <2>5. ASSUME NEW u \in Url, GiveUp(u) PROVE Crawled'
    BY <2>5 DEF GiveUp, C!Leave
  <2>6. ASSUME NEW u \in Url, NEW i \in 1..Len(web[u]), Find(u, i) PROVE Crawled'
    BY <2>6 DEF Find, C!Find
  <2>7. CASE Close
    BY <2>7 DEF Close, C!Close
  <2> QED
    BY <2>1, <2>2, <2>3, <2>4, <2>5, <2>6, <2>7 DEF CrawlStep
<1> QED
  BY <1>3, <1>4, <1>5, <1>6, <1>7, <1>8, <1>9 DEF Next

-----------------------------------------------------------------------------
(* The theorems.                                                           *)

LEMMA StutterIInv == IInv /\ UNCHANGED vars => IInv'
<1> SUFFICES ASSUME IInv, UNCHANGED vars PROVE IInv'
  OBVIOUS
<1> USE DEF vars
<1>1. Typed'
  BY DEF IInv, Typed, TypeOK
<1>2. Course' /\ ThreadsEndFirst' /\ Listening'
  BY DEF IInv, Course, ThreadsEndFirst, Listening, BeforeThreads, AfterSpider, WhileOpen
<1>3. Crawled'
  BY DEF IInv, Crawled
<1> QED
  BY <1>1, <1>2, <1>3 DEF IInv

\* The inductive invariant: types, which threads there are, which port is open
\* and how far the crawl has come, at each place of the main thread.
THEOREM InductiveCorrect == Spec => []IInv
<1>1. IInv /\ [Next]_vars => IInv'
  BY TypedNext, CourseNext, ListeningNext, CrawledNext, StutterIInv DEF IInv
<1> QED
  BY InitIInv, <1>1, PTL DEF Spec

\* Every variable keeps its type, whatever Config.ini holds and whatever fails.
THEOREM TypeCorrect == Spec => []TypeOK
<1>1. IInv => TypeOK
  BY DEF IInv, Typed
<1> QED
  BY <1>1, InductiveCorrect, PTL

\* main() returns only when no thread is left that refers to the objects it
\* destroys; std::terminate is reached only after a failed std::thread.
THEOREM ThreadsCorrect == Spec => []ThreadsEndFirst
<1>1. IInv => ThreadsEndFirst
  BY DEF IInv
<1> QED
  BY <1>1, InductiveCorrect, PTL

\* Whatever number Config.ini gives, a server that is said to run listens on
\* that number: the wrapped ones of tcp::endpoint do not get past validateConfig.
THEOREM PortCorrect == Spec => []ListensWhereSaid
<1>1. IInv => ListensWhereSaid
  BY DEF IInv, Listening, ListensWhereSaid, WhileOpen, At, Alive
<1> QED
  BY <1>1, InductiveCorrect, PTL

\* When run reports that the spider has completed, every page that was taken and
\* not given up is stored and indexed, whatever the links between the pages are.
THEOREM PromptCorrect == Spec => []PromptMeansIndexed
<1>1. IInv => PromptMeansIndexed
  <2> SUFFICES ASSUME IInv, mode = "full", main \in AfterSpider, pool = "whole"
               PROVE  /\ todo = {} /\ open = {} /\ StartUrl \in seen
                      /\ \A u \in seen \ given : stored[u] = Page /\ indexed[u] = Page
    BY DEF PromptMeansIndexed, AfterSpider
  <2>1. spider = "done"
    BY DEF IInv, Course
  <2>2. closed
    BY <2>1 DEF IInv, Crawled
  <2>3. todo = {} /\ open = {} /\ StartUrl \in seen
    BY <2>2 DEF IInv, Crawled
  <2>4. ASSUME NEW u \in seen \ given PROVE stored[u] = Page /\ indexed[u] = Page
    <3>1. u \in Url
      BY DEF IInv, Typed, TypeOK
    <3>2. step[u] = "indexed"
      BY <2>3, <2>4 DEF IInv, Crawled
    <3> QED
      BY <3>1, <3>2 DEF IInv, Crawled
  <2> QED
    BY <2>3, <2>4
<1> QED
  BY <1>1, InductiveCorrect, PTL
=============================================================================
