---------------------------- MODULE SpiderProofs ----------------------------
(***************************************************************************)
(* Machine-checked theorems about Spider, for every set of workers, every  *)
(* web, every recursion depth and every set of failing calls: its locks,   *)
(* its queue and its counters; that it implements Crawl; and what a crawl  *)
(* covers.                                                                 *)
(***************************************************************************)
EXTENDS Spider, FiniteSetTheorems, SequenceTheorems, WellFoundedInduction, TLAPS

-----------------------------------------------------------------------------
(* Sequences.                                                              *)

\* Taking the head off a queue (taskQueue.front(), pop()) yields a member of
\* it and keeps the rest in order.
LEMMA HeadTailLemma ==
  ASSUME NEW S, NEW q \in Seq(S), q # <<>>
  PROVE  /\ Head(q) \in S /\ Head(q) = q[1]
         /\ Tail(q) \in Seq(S) /\ Len(Tail(q)) = Len(q) - 1
         /\ \A i \in 1..Len(Tail(q)) : Tail(q)[i] = q[i+1]
  OBVIOUS

\* Pushing to a queue keeps what is queued and puts the new task last.
LEMMA AppendLemma ==
  ASSUME NEW S, NEW q \in Seq(S), NEW e \in S
  PROVE  /\ Append(q, e) \in Seq(S) /\ Len(Append(q, e)) = Len(q) + 1
         /\ \A i \in 1..Len(q) : Append(q, e)[i] = q[i]
         /\ Append(q, e)[Len(q) + 1] = e
  OBVIOUS

-----------------------------------------------------------------------------
(* Steps shared by several actions.                                        *)

\* notify_all moves the sleeping workers to "ready" and nobody else.
LEMMA NotifyLemma ==
  ASSUME NEW f \in [Worker -> IdlePc \cup BusyPc]
  PROVE  /\ NotifyAll(f) \in [Worker -> IdlePc \cup BusyPc]
         /\ \A v \in Worker : f[v] # "asleep" => NotifyAll(f)[v] = f[v]
         /\ \A v \in Worker : f[v] = "asleep" => NotifyAll(f)[v] = "ready"
  BY DEF NotifyAll, IdlePc

\* The end of the loop body sends w back to the head of the loop without a
\* task and leaves every other busy worker where it is.
LEMMA LeaveLemma ==
  ASSUME TypeOK, NEW w \in Worker, Leave(w)
  PROVE  /\ pc' \in [Worker -> IdlePc \cup BusyPc]
         /\ pc'[w] = "ready"
         /\ \A v \in Worker \ {w} : pc'[v] = pc[v] \/ (pc[v] = "asleep" /\ pc'[v] = "ready")
         /\ task' \in [Worker -> Task \cup {NoTask}]
         /\ task'[w] = NoTask
         /\ \A v \in Worker \ {w} : task'[v] = task[v]
         /\ activeWorkers' \in Int /\ stopWorkers' \in BOOLEAN
<1> DEFINE f == [pc EXCEPT ![w] = "ready"]
<1>1. f \in [Worker -> IdlePc \cup BusyPc] /\ f[w] = "ready"
      /\ \A v \in Worker \ {w} : f[v] = pc[v]
  BY DEF TypeOK, IdlePc
<1>2. pc' = f \/ pc' = NotifyAll(f)
  BY DEF Leave, NoWorkLeft, Goto
<1>3. /\ pc' \in [Worker -> IdlePc \cup BusyPc]
      /\ pc'[w] = "ready"
      /\ \A v \in Worker \ {w} : pc'[v] = pc[v] \/ (pc[v] = "asleep" /\ pc'[v] = "ready")
  <2> HIDE DEF f
  <2> QED BY <1>1, <1>2, NotifyLemma
<1>4. activeWorkers' \in Int
  BY DEF Leave, NoWorkLeft, TypeOK
<1>5. stopWorkers' \in BOOLEAN
  BY DEF Leave, NoWorkLeft, TypeOK
<1>6. QED
  BY <1>3, <1>4, <1>5 DEF Leave, NoWorkLeft, TypeOK

-----------------------------------------------------------------------------
(* Type correctness.                                                       *)

\* Every variable of the crawler keeps its type: the queue only ever holds
\* tasks, a worker inside the loop body has a task and one outside has none.
THEOREM TypeCorrect == Spec => []TypeOK
<1> USE WorkerAssumption, UrlAssumption, DepthAssumption, WebsAssumption,
        NoTaskAssumption
<1>1. Init => TypeOK
  <2> SUFFICES ASSUME Init PROVE TypeOK
    OBVIOUS
  <2> USE DEF Init
  <2>1. web \in [Url -> Seq(Url)]
    OBVIOUS
  <2>2. /\ pc \in [Worker -> IdlePc \cup BusyPc]
        /\ task \in [Worker -> Task \cup {NoTask}]
        /\ \A w \in Worker : pc[w] \in BusyPc <=> task[w] # NoTask
    BY DEF IdlePc, BusyPc
  <2>3. pending \in [Worker -> Seq(Url)] /\ taskQueue \in Seq(Task)
    OBVIOUS
  <2>4. /\ queueMutex \in Worker \cup {Free} /\ visitedMutex \in Worker \cup {Free}
        /\ mainPc \in MainPc /\ stopWorkers \in BOOLEAN
    BY Zenon DEF MainPc
  <2>5. activeWorkers \in Int
    OBVIOUS
  <2>6. /\ visitedUrls \subseteq Url /\ documents \subseteq Url
        /\ indexed \subseteq Url /\ fetched \subseteq Url /\ expanded \subseteq Url
    OBVIOUS
  <2>7. QED
    BY <2>1, <2>2, <2>3, <2>4, <2>5, <2>6, Zenon DEF TypeOK
<1>2. TypeOK /\ [Next]_vars => TypeOK'
  <2> SUFFICES ASSUME TypeOK, [Next]_vars PROVE TypeOK'
    OBVIOUS
  <2> USE DEF TypeOK, IdlePc, BusyPc, MainPc, Goto, NotifyAll, locks, history
  <2>1. CASE PushStart
    <3>1. [url |-> StartUrl, depth |-> 0] \in Task
      BY DEF Task
    <3>2. QED BY <2>1, <3>1, AppendLemma DEF PushStart, Push
  <2>2. ASSUME NEW w \in Worker, SpawnWorker(w) PROVE TypeOK'
    BY <2>2 DEF SpawnWorker
  <2>3. CASE SpawnFails
    BY <2>3 DEF SpawnFails
  <2>4. CASE JoinAll
    BY <2>4 DEF JoinAll
  <2>5. ASSUME NEW w \in Worker, Sleep(w) PROVE TypeOK'
    BY <2>5 DEF Sleep
  <2>6. ASSUME NEW w \in Worker, SpuriousWake(w) PROVE TypeOK'
    BY <2>6 DEF SpuriousWake
  <2>7. ASSUME NEW w \in Worker, Exit(w) PROVE TypeOK'
    BY <2>7 DEF Exit
  <2>8. ASSUME NEW w \in Worker, Take(w) PROVE TypeOK'
    BY <2>8, HeadTailLemma DEF Take
  <2>9. ASSUME NEW w \in Worker, Finish(w) PROVE TypeOK'
    <3>1. pc[w] \in BusyPc
      BY <2>9 DEF Finish
    <3>2. \A v \in Worker : pc'[v] \in BusyPc <=> task'[v] # NoTask
      BY <2>9, <3>1, LeaveLemma DEF Finish
    <3>3. QED BY <2>9, <3>1, <3>2, LeaveLemma DEF Finish
  <2>10. ASSUME NEW w \in Worker, CheckDepth(w) PROVE TypeOK'
    BY <2>10 DEF CheckDepth
  <2>11. ASSUME NEW w \in Worker, LockVisited(w) PROVE TypeOK'
    BY <2>11 DEF LockVisited
  <2>12. ASSUME NEW w \in Worker, DropDuplicate(w) PROVE TypeOK'
    <3>1. pc[w] \in BusyPc
      BY <2>12 DEF DropDuplicate
    <3>2. \A v \in Worker : pc'[v] \in BusyPc <=> task'[v] # NoTask
      BY <2>12, <3>1, LeaveLemma DEF DropDuplicate
    <3>3. QED BY <2>12, <3>1, <3>2, LeaveLemma DEF DropDuplicate
  <2>13. ASSUME NEW w \in Worker, EndInsert(w) PROVE TypeOK'
    BY <2>13 DEF EndInsert, Task
  <2>14. ASSUME NEW w \in Worker, Fetch(w) PROVE TypeOK'
    BY <2>14 DEF Fetch, Task
  <2>15. ASSUME NEW w \in Worker, StoreDocument(w) PROVE TypeOK'
    BY <2>15 DEF StoreDocument, Task
  <2>16. ASSUME NEW w \in Worker, StoreWords(w) PROVE TypeOK'
    BY <2>16 DEF StoreWords, Follows, Task
  <2>17. ASSUME NEW w \in Worker, ExtractFails(w) PROVE TypeOK'
    BY <2>17 DEF ExtractFails
  <2>18. ASSUME NEW w \in Worker, BeginAddLinks(w) PROVE TypeOK'
    BY <2>18 DEF BeginAddLinks, Task
  <2>19. ASSUME NEW w \in Worker, AddLink(w) PROVE TypeOK'
    <3>1. Head(pending[w]) \in Url /\ Tail(pending[w]) \in Seq(Url)
      BY <2>19, HeadTailLemma DEF AddLink, Push, LinkDepth
    <3>2. task[w] \in Task
      BY <2>19 DEF AddLink, Push, LinkDepth
    <3>3. [url |-> Head(pending[w]), depth |-> task[w].depth + 1] \in Task
      BY <3>1, <3>2 DEF Task
    <3>4. taskQueue' \in Seq(Task)
      BY <2>19, <3>3, AppendLemma DEF AddLink, Push, LinkDepth
    <3>5. QED BY <2>19, <3>1, <3>4 DEF AddLink, Push, LinkDepth
  <2>20. ASSUME NEW w \in Worker, RaceCrash(w) PROVE TypeOK'
    BY <2>20 DEF RaceCrash
  <2>21. ASSUME NEW w \in Worker, EndAddLinks(w) PROVE TypeOK'
    BY <2>21 DEF EndAddLinks
  <2>22. ASSUME NEW w \in Worker, LogSize(w) PROVE TypeOK'
    BY <2>22 DEF LogSize
  <2>23. CASE UNCHANGED vars
    BY <2>23 DEF vars
  <2>24. QED
    BY <2>1, <2>2, <2>3, <2>4, <2>5, <2>6, <2>7, <2>8, <2>9, <2>10, <2>11,
       <2>12, <2>13, <2>14, <2>15, <2>16, <2>17, <2>18, <2>19, <2>20, <2>21,
       <2>22, <2>23 DEF Next, Main, Step
<1>3. QED
  BY <1>1, <1>2, PTL DEF Spec
-----------------------------------------------------------------------------
(* Mutual exclusion.                                                       *)

\* The two mutexes: whoever is inside a critical section is its one owner.
THEOREM LocksCorrect == Spec => []LocksHeld
<1> USE WorkerAssumption
<1>1. Init => LocksHeld
  BY DEF Init, LocksHeld
<1>2. TypeOK /\ LocksHeld /\ [Next]_vars => LocksHeld'
  <2> SUFFICES ASSUME TypeOK, LocksHeld, [Next]_vars PROVE LocksHeld'
    OBVIOUS
  <2>0. pc \in [Worker -> IdlePc \cup BusyPc]
    BY DEF TypeOK
  <2> USE <2>0 DEF LocksHeld, Goto, NotifyAll, locks
  <2>1. CASE PushStart
    BY <2>1 DEF PushStart, Push
  <2>2. ASSUME NEW w \in Worker, SpawnWorker(w) PROVE LocksHeld'
    BY <2>2 DEF SpawnWorker
  <2>3. CASE SpawnFails
    BY <2>3 DEF SpawnFails
  <2>4. CASE JoinAll
    BY <2>4 DEF JoinAll
  <2>5. ASSUME NEW w \in Worker, Sleep(w) PROVE LocksHeld'
    BY <2>5 DEF Sleep
  <2>6. ASSUME NEW w \in Worker, SpuriousWake(w) PROVE LocksHeld'
    BY <2>6 DEF SpuriousWake
  <2>7. ASSUME NEW w \in Worker, Exit(w) PROVE LocksHeld'
    BY <2>7 DEF Exit
  <2>8. ASSUME NEW w \in Worker, Take(w) PROVE LocksHeld'
    BY <2>8 DEF Take
  <2>9. ASSUME NEW w \in Worker, Finish(w) PROVE LocksHeld'
    <3>1. pc[w] \notin {"adding", "insert"}
      BY <2>9 DEF Finish
    <3>2. \A v \in Worker \ {w} : \A l \in {"adding", "duplicate", "insert"} :
             pc'[v] = l <=> pc[v] = l
      BY <2>9, LeaveLemma DEF Finish
    <3>3. QED BY <2>9, <3>1, <3>2, LeaveLemma DEF Finish, locks
  <2>10. ASSUME NEW w \in Worker, CheckDepth(w) PROVE LocksHeld'
    BY <2>10 DEF CheckDepth
  <2>11. ASSUME NEW w \in Worker, LockVisited(w) PROVE LocksHeld'
    BY <2>11 DEF LockVisited
  <2>12. ASSUME NEW w \in Worker, DropDuplicate(w) PROVE LocksHeld'
    <3>1. pc[w] \notin {"adding", "insert"}
      BY <2>12 DEF DropDuplicate
    <3>2. \A v \in Worker \ {w} : \A l \in {"adding", "duplicate", "insert"} :
             pc'[v] = l <=> pc[v] = l
      BY <2>12, LeaveLemma DEF DropDuplicate
    <3>3. QED BY <2>12, <3>1, <3>2, LeaveLemma DEF DropDuplicate, locks
  <2>13. ASSUME NEW w \in Worker, EndInsert(w) PROVE LocksHeld'
    BY <2>13 DEF EndInsert
  <2>14. ASSUME NEW w \in Worker, Fetch(w) PROVE LocksHeld'
    BY <2>14 DEF Fetch
  <2>15. ASSUME NEW w \in Worker, StoreDocument(w) PROVE LocksHeld'
    BY <2>15 DEF StoreDocument
  <2>16. ASSUME NEW w \in Worker, StoreWords(w) PROVE LocksHeld'
    BY <2>16 DEF StoreWords, Follows
  <2>17. ASSUME NEW w \in Worker, ExtractFails(w) PROVE LocksHeld'
    BY <2>17 DEF ExtractFails
  <2>18. ASSUME NEW w \in Worker, BeginAddLinks(w) PROVE LocksHeld'
    BY <2>18 DEF BeginAddLinks
  <2>19. ASSUME NEW w \in Worker, AddLink(w) PROVE LocksHeld'
    BY <2>19 DEF AddLink, Push, LinkDepth
  <2>20. ASSUME NEW w \in Worker, RaceCrash(w) PROVE LocksHeld'
    BY <2>20 DEF RaceCrash
  <2>21. ASSUME NEW w \in Worker, EndAddLinks(w) PROVE LocksHeld'
    BY <2>21 DEF EndAddLinks
  <2>22. ASSUME NEW w \in Worker, LogSize(w) PROVE LocksHeld'
    BY <2>22 DEF LogSize
  <2>23. CASE UNCHANGED vars
    BY <2>23 DEF vars
  <2>24. QED
    BY <2>1, <2>2, <2>3, <2>4, <2>5, <2>6, <2>7, <2>8, <2>9, <2>10, <2>11, <2>12,
       <2>13, <2>14, <2>15, <2>16, <2>17, <2>18, <2>19, <2>20, <2>21, <2>22, <2>23 DEF Next, Main, Step
<1>3. QED
  BY <1>1, <1>2, TypeCorrect, PTL DEF Spec
-----------------------------------------------------------------------------
(* Termination detection.                                                  *)

\* The busy workers are some of the finitely many threads.
LEMMA BusyFinite == IsFiniteSet(Busy)
  BY WorkerAssumption, FS_Subset DEF Busy

\* A step that keeps the busy workers busy and the others idle keeps the set.
LEMMA SameBusy ==
  ASSUME \A v \in Worker : pc'[v] \in BusyPc <=> pc[v] \in BusyPc
  PROVE  Busy' = Busy
  BY DEF Busy

\* The stop flag is sound: the counter is exact in every interleaving of the
\* four places that decrement it, so it reaches zero with an empty queue only
\* when no thread has work, and from then on nobody can add any.
THEOREM StopCorrect == Spec => [](WorkCounted /\ StopMeansNoWork)
<1> USE WorkerAssumption
<1> DEFINE Inv == WorkCounted /\ StopMeansNoWork
<1>1. Init => Inv
  <2> SUFFICES ASSUME Init PROVE Inv
    OBVIOUS
  <2>1. Busy = {}
    BY DEF Init, Busy, BusyPc
  <2>2. QED BY <2>1, FS_EmptySet DEF Init, WorkCounted, StopMeansNoWork
<1>2. TypeOK /\ Inv /\ [Next]_vars => Inv'
  <2> SUFFICES ASSUME TypeOK, Inv, [Next]_vars PROVE Inv'
    OBVIOUS
  <2>0. pc \in [Worker -> IdlePc \cup BusyPc] /\ activeWorkers \in Int
    BY DEF TypeOK
  <2> USE <2>0 DEF WorkCounted, StopMeansNoWork, Goto, NotifyAll, locks
  <2>1. CASE PushStart
    <3>1. \A v \in Worker : pc'[v] \in BusyPc <=> pc[v] \in BusyPc
      BY <2>1 DEF PushStart, Push, BusyPc
    <3>2. QED BY <2>1, <3>1, SameBusy DEF PushStart, Push, BusyPc, Busy
  <2>2. ASSUME NEW w \in Worker, SpawnWorker(w) PROVE Inv'
    <3>1. \A v \in Worker : pc'[v] \in BusyPc <=> pc[v] \in BusyPc
      BY <2>2 DEF SpawnWorker, BusyPc
    <3>2. QED BY <2>2, <3>1, SameBusy DEF SpawnWorker, BusyPc, Busy
  <2>3. CASE SpawnFails
    <3>1. \A v \in Worker : pc'[v] \in BusyPc <=> pc[v] \in BusyPc
      BY <2>3 DEF SpawnFails, BusyPc
    <3>2. QED BY <2>3, <3>1, SameBusy DEF SpawnFails, BusyPc, Busy
  <2>4. CASE JoinAll
    <3>1. \A v \in Worker : pc'[v] \in BusyPc <=> pc[v] \in BusyPc
      BY <2>4 DEF JoinAll, BusyPc
    <3>2. QED BY <2>4, <3>1, SameBusy DEF JoinAll, BusyPc, Busy
  <2>5. ASSUME NEW w \in Worker, Sleep(w) PROVE Inv'
    <3>1. \A v \in Worker : pc'[v] \in BusyPc <=> pc[v] \in BusyPc
      BY <2>5 DEF Sleep, BusyPc
    <3>2. QED BY <2>5, <3>1, SameBusy DEF Sleep, BusyPc, Busy
  <2>6. ASSUME NEW w \in Worker, SpuriousWake(w) PROVE Inv'
    <3>1. \A v \in Worker : pc'[v] \in BusyPc <=> pc[v] \in BusyPc
      BY <2>6 DEF SpuriousWake, BusyPc
    <3>2. QED BY <2>6, <3>1, SameBusy DEF SpuriousWake, BusyPc, Busy
  <2>7. ASSUME NEW w \in Worker, Exit(w) PROVE Inv'
    <3>1. \A v \in Worker : pc'[v] \in BusyPc <=> pc[v] \in BusyPc
      BY <2>7 DEF Exit, BusyPc
    <3>2. QED BY <2>7, <3>1, SameBusy DEF Exit, BusyPc, Busy
  <2>8. ASSUME NEW w \in Worker, Take(w) PROVE Inv'
    <3>1. w \notin Busy /\ mainPc # "push" /\ ~stopWorkers
      BY <2>8 DEF Take, Busy, BusyPc
    <3>2. Busy' = Busy \cup {w}
      BY <2>8 DEF Take, Busy, BusyPc
    <3>3. Cardinality(Busy') = Cardinality(Busy) + 1
      BY <3>1, <3>2, BusyFinite, FS_AddElement
    <3>4. QED BY <2>8, <3>1, <3>3 DEF Take
  <2>9. ASSUME NEW w \in Worker, Finish(w) PROVE Inv'
    <3>1. w \in Busy /\ activeWorkers' = activeWorkers - 1
      BY <2>9 DEF Finish, Leave, NoWorkLeft, Busy, BusyPc
    <3>2. Busy' = Busy \ {w}
      BY <2>9, LeaveLemma DEF Finish, Busy, BusyPc
    <3>3. Cardinality(Busy') = Cardinality(Busy) - 1 /\ IsFiniteSet(Busy')
      BY <3>1, <3>2, BusyFinite, FS_RemoveElement
    <3>4. ~stopWorkers
      BY <3>1
    <3>5. stopWorkers' => taskQueue = <<>> /\ activeWorkers' = 0
      BY <2>9, <3>4 DEF Finish, Leave, NoWorkLeft
    <3>6. activeWorkers' = 0 => Busy' = {}
      BY <3>1, <3>3, FS_EmptySet
    <3>7. mainPc # "push"
      BY <3>1 DEF Busy, BusyPc
    <3>8. QED BY <2>9, <3>1, <3>3, <3>5, <3>6, <3>7 DEF Finish
  <2>10. ASSUME NEW w \in Worker, CheckDepth(w) PROVE Inv'
    <3>1. \A v \in Worker : pc'[v] \in BusyPc <=> pc[v] \in BusyPc
      BY <2>10 DEF CheckDepth, BusyPc
    <3>2. QED BY <2>10, <3>1, SameBusy DEF CheckDepth, BusyPc, Busy
  <2>11. ASSUME NEW w \in Worker, LockVisited(w) PROVE Inv'
    <3>1. \A v \in Worker : pc'[v] \in BusyPc <=> pc[v] \in BusyPc
      BY <2>11 DEF LockVisited, BusyPc
    <3>2. QED BY <2>11, <3>1, SameBusy DEF LockVisited, BusyPc, Busy
  <2>12. ASSUME NEW w \in Worker, DropDuplicate(w) PROVE Inv'
    <3>1. w \in Busy /\ activeWorkers' = activeWorkers - 1
      BY <2>12 DEF DropDuplicate, Leave, NoWorkLeft, Busy, BusyPc
    <3>2. Busy' = Busy \ {w}
      BY <2>12, LeaveLemma DEF DropDuplicate, Busy, BusyPc
    <3>3. Cardinality(Busy') = Cardinality(Busy) - 1 /\ IsFiniteSet(Busy')
      BY <3>1, <3>2, BusyFinite, FS_RemoveElement
    <3>4. ~stopWorkers
      BY <3>1
    <3>5. stopWorkers' => taskQueue = <<>> /\ activeWorkers' = 0
      BY <2>12, <3>4 DEF DropDuplicate, Leave, NoWorkLeft
    <3>6. activeWorkers' = 0 => Busy' = {}
      BY <3>1, <3>3, FS_EmptySet
    <3>7. mainPc # "push"
      BY <3>1 DEF Busy, BusyPc
    <3>8. QED BY <2>12, <3>1, <3>3, <3>5, <3>6, <3>7 DEF DropDuplicate
  <2>13. ASSUME NEW w \in Worker, EndInsert(w) PROVE Inv'
    <3>1. \A v \in Worker : pc'[v] \in BusyPc <=> pc[v] \in BusyPc
      BY <2>13 DEF EndInsert, BusyPc
    <3>2. QED BY <2>13, <3>1, SameBusy DEF EndInsert, BusyPc, Busy
  <2>14. ASSUME NEW w \in Worker, Fetch(w) PROVE Inv'
    <3>1. \A v \in Worker : pc'[v] \in BusyPc <=> pc[v] \in BusyPc
      BY <2>14 DEF Fetch, BusyPc
    <3>2. QED BY <2>14, <3>1, SameBusy DEF Fetch, BusyPc, Busy
  <2>15. ASSUME NEW w \in Worker, StoreDocument(w) PROVE Inv'
    <3>1. \A v \in Worker : pc'[v] \in BusyPc <=> pc[v] \in BusyPc
      BY <2>15 DEF StoreDocument, BusyPc
    <3>2. QED BY <2>15, <3>1, SameBusy DEF StoreDocument, BusyPc, Busy
  <2>16. ASSUME NEW w \in Worker, StoreWords(w) PROVE Inv'
    <3>1. \A v \in Worker : pc'[v] \in BusyPc <=> pc[v] \in BusyPc
      BY <2>16 DEF StoreWords, Follows, BusyPc
    <3>2. QED BY <2>16, <3>1, SameBusy DEF StoreWords, Follows, BusyPc, Busy
  <2>17. ASSUME NEW w \in Worker, ExtractFails(w) PROVE Inv'
    <3>1. \A v \in Worker : pc'[v] \in BusyPc <=> pc[v] \in BusyPc
      BY <2>17 DEF ExtractFails, BusyPc
    <3>2. QED BY <2>17, <3>1, SameBusy DEF ExtractFails, BusyPc, Busy
  <2>18. ASSUME NEW w \in Worker, BeginAddLinks(w) PROVE Inv'
    <3>1. \A v \in Worker : pc'[v] \in BusyPc <=> pc[v] \in BusyPc
      BY <2>18 DEF BeginAddLinks, BusyPc
    <3>2. QED BY <2>18, <3>1, SameBusy DEF BeginAddLinks, BusyPc, Busy
  <2>19. ASSUME NEW w \in Worker, AddLink(w) PROVE Inv'
    <3>1. \A v \in Worker : pc'[v] \in BusyPc <=> pc[v] \in BusyPc
      BY <2>19 DEF AddLink, Push, LinkDepth, BusyPc
    <3>2. QED BY <2>19, <3>1, SameBusy DEF AddLink, Push, LinkDepth, BusyPc, Busy
  <2>20. ASSUME NEW w \in Worker, RaceCrash(w) PROVE Inv'
    <3>1. \A v \in Worker : pc'[v] \in BusyPc <=> pc[v] \in BusyPc
      BY <2>20 DEF RaceCrash, BusyPc
    <3>2. QED BY <2>20, <3>1, SameBusy DEF RaceCrash, BusyPc, Busy
  <2>21. ASSUME NEW w \in Worker, EndAddLinks(w) PROVE Inv'
    <3>1. \A v \in Worker : pc'[v] \in BusyPc <=> pc[v] \in BusyPc
      BY <2>21 DEF EndAddLinks, BusyPc
    <3>2. QED BY <2>21, <3>1, SameBusy DEF EndAddLinks, BusyPc, Busy
  <2>22. ASSUME NEW w \in Worker, LogSize(w) PROVE Inv'
    <3>1. \A v \in Worker : pc'[v] \in BusyPc <=> pc[v] \in BusyPc
      BY <2>22 DEF LogSize, BusyPc
    <3>2. QED BY <2>22, <3>1, SameBusy DEF LogSize, BusyPc, Busy
  <2>23. CASE UNCHANGED vars
    BY <2>23, SameBusy DEF vars
  <2>24. QED
    BY <2>1, <2>2, <2>3, <2>4, <2>5, <2>6, <2>7, <2>8, <2>9, <2>10, <2>11, <2>12,
       <2>13, <2>14, <2>15, <2>16, <2>17, <2>18, <2>19, <2>20, <2>21, <2>22, <2>23 DEF Next, Main, Step
<1>3. QED
  BY <1>1, <1>2, TypeCorrect, PTL DEF Spec
-----------------------------------------------------------------------------
(* Depth.                                                                  *)

\* No task at or below recursion_depth is ever queued or held.
THEOREM DepthCorrect == Spec => [](DepthBounded /\ Expanding)
<1> USE UrlAssumption, DepthAssumption
<1> DEFINE Inv == DepthBounded /\ Expanding
<1>1. Init => Inv
  BY DEF Init, DepthBounded, Expanding, BusyPc
<1>2. TypeOK /\ Inv /\ [Next]_vars => Inv'
  <2> SUFFICES ASSUME TypeOK, Inv, [Next]_vars PROVE Inv'
    OBVIOUS
  <2>0. pc \in [Worker -> IdlePc \cup BusyPc]
    BY DEF TypeOK
  <2> USE <2>0 DEF DepthBounded, Expanding, Goto, NotifyAll, locks
  <2>1. CASE PushStart
    <3>1. taskQueue' = Append(taskQueue, [url |-> StartUrl, depth |-> 0])
          /\ [url |-> StartUrl, depth |-> 0] \in Task
      BY <2>1 DEF PushStart, Push, Task
    <3>2. \A i \in 1..Len(taskQueue') : taskQueue'[i].depth < MaxDepth
      BY <3>1, AppendLemma DEF TypeOK
    <3>3. \A v \in Worker : pc'[v] \in BusyPc => pc'[v] = pc[v]
      BY <2>1 DEF PushStart, Push, BusyPc
    <3>4. QED BY <2>1, <3>2, <3>3 DEF PushStart, Push, BusyPc
  <2>2. ASSUME NEW w \in Worker, SpawnWorker(w) PROVE Inv'
    BY <2>2 DEF SpawnWorker, BusyPc
  <2>3. CASE SpawnFails
    BY <2>3 DEF SpawnFails, BusyPc
  <2>4. CASE JoinAll
    BY <2>4 DEF JoinAll, BusyPc
  <2>5. ASSUME NEW w \in Worker, Sleep(w) PROVE Inv'
    BY <2>5 DEF Sleep, BusyPc
  <2>6. ASSUME NEW w \in Worker, SpuriousWake(w) PROVE Inv'
    BY <2>6 DEF SpuriousWake, BusyPc
  <2>7. ASSUME NEW w \in Worker, Exit(w) PROVE Inv'
    BY <2>7 DEF Exit, BusyPc
  <2>8. ASSUME NEW w \in Worker, Take(w) PROVE Inv'
    <3>1. /\ Head(taskQueue) = taskQueue[1] /\ 1 \in 1..Len(taskQueue)
          /\ Len(Tail(taskQueue)) = Len(taskQueue) - 1
          /\ \A i \in 1..Len(Tail(taskQueue)) : Tail(taskQueue)[i] = taskQueue[i+1]
      BY <2>8, HeadTailLemma DEF Take, TypeOK
    <3>2. \A i \in 1..Len(taskQueue') : taskQueue'[i].depth < MaxDepth
      BY <2>8, <3>1 DEF Take, TypeOK
    <3>3. task'[w].depth < MaxDepth /\ pc'[w] = "depth"
      BY <2>8, <3>1 DEF Take, TypeOK
    <3>4. \A v \in Worker \ {w} : pc'[v] = pc[v] /\ task'[v] = task[v]
      BY <2>8 DEF Take, TypeOK
    <3>5. QED BY <3>2, <3>3, <3>4
  <2>9. ASSUME NEW w \in Worker, Finish(w) PROVE Inv'
    <3>1. \A v \in Worker : pc'[v] \in BusyPc => pc'[v] = pc[v] /\ task'[v] = task[v]
      BY <2>9, LeaveLemma DEF BusyPc, Finish
    <3>2. QED BY <2>9, <3>1 DEF Finish, BusyPc
  <2>10. ASSUME NEW w \in Worker, CheckDepth(w) PROVE Inv'
    BY <2>10 DEF CheckDepth, BusyPc
  <2>11. ASSUME NEW w \in Worker, LockVisited(w) PROVE Inv'
    BY <2>11 DEF LockVisited, BusyPc
  <2>12. ASSUME NEW w \in Worker, DropDuplicate(w) PROVE Inv'
    <3>1. \A v \in Worker : pc'[v] \in BusyPc => pc'[v] = pc[v] /\ task'[v] = task[v]
      BY <2>12, LeaveLemma DEF BusyPc, DropDuplicate
    <3>2. QED BY <2>12, <3>1 DEF DropDuplicate, BusyPc
  <2>13. ASSUME NEW w \in Worker, EndInsert(w) PROVE Inv'
    BY <2>13 DEF EndInsert, BusyPc
  <2>14. ASSUME NEW w \in Worker, Fetch(w) PROVE Inv'
    BY <2>14 DEF Fetch, BusyPc
  <2>15. ASSUME NEW w \in Worker, StoreDocument(w) PROVE Inv'
    BY <2>15 DEF StoreDocument, BusyPc
  <2>16. ASSUME NEW w \in Worker, StoreWords(w) PROVE Inv'
    <3>1. task[w] \in Task
      BY <2>16 DEF StoreWords, Follows, TypeOK, BusyPc
    <3>2. QED BY <2>16, <3>1 DEF StoreWords, Follows, BusyPc, Task
  <2>17. ASSUME NEW w \in Worker, ExtractFails(w) PROVE Inv'
    BY <2>17 DEF ExtractFails, BusyPc
  <2>18. ASSUME NEW w \in Worker, BeginAddLinks(w) PROVE Inv'
    BY <2>18 DEF BeginAddLinks, BusyPc
  <2>19. ASSUME NEW w \in Worker, AddLink(w) PROVE Inv'
    <3>1. task[w] \in Task /\ task[w].depth + 1 < MaxDepth
      BY <2>19 DEF AddLink, Push, LinkDepth, TypeOK, BusyPc
    <3>2. PICK url \in Url : \/ taskQueue' = taskQueue
                            \/ taskQueue' = Append(taskQueue, [url |-> url, depth |-> task[w].depth + 1])
      BY <2>19, HeadTailLemma DEF AddLink, Push, LinkDepth, TypeOK
    <3>3. [url |-> url, depth |-> task[w].depth + 1] \in Task
      BY <3>1 DEF Task
    <3>4. \A i \in 1..Len(taskQueue') : taskQueue'[i].depth < MaxDepth
      <4> DEFINE new == [url |-> url, depth |-> task[w].depth + 1]
      <4>1. new \in Task /\ new.depth < MaxDepth /\ taskQueue \in Seq(Task)
        BY <3>1, <3>3 DEF TypeOK
      <4>2. taskQueue' = taskQueue \/ taskQueue' = Append(taskQueue, new)
        BY <3>2
      <4> HIDE DEF new
      <4>3. QED BY <4>1, <4>2, AppendLemma
    <3>5. QED BY <2>19, <3>4 DEF AddLink, Push, LinkDepth
  <2>20. ASSUME NEW w \in Worker, RaceCrash(w) PROVE Inv'
    BY <2>20 DEF RaceCrash, BusyPc
  <2>21. ASSUME NEW w \in Worker, EndAddLinks(w) PROVE Inv'
    BY <2>21 DEF EndAddLinks, BusyPc
  <2>22. ASSUME NEW w \in Worker, LogSize(w) PROVE Inv'
    BY <2>22 DEF LogSize, BusyPc
  <2>23. CASE UNCHANGED vars
    BY <2>23 DEF vars
  <2>24. QED
    BY <2>1, <2>2, <2>3, <2>4, <2>5, <2>6, <2>7, <2>8, <2>9, <2>10, <2>11, <2>12,
       <2>13, <2>14, <2>15, <2>16, <2>17, <2>18, <2>19, <2>20, <2>21, <2>22, <2>23 DEF Next, Main, Step
<1>3. QED
  BY <1>1, <1>2, TypeCorrect, PTL DEF Spec
-----------------------------------------------------------------------------
(* One download per page.                                                  *)

\* However the workers interleave, visitedUrls gives every URL to one worker:
\* no page is downloaded twice, and no two workers ever process the same page.
THEOREM FetchCorrect == Spec => [](VisitedMarks /\ FetchedOnce)
<1> DEFINE Inv == VisitedMarks /\ FetchedOnce
<1>1. Init => Inv
  BY DEF Init, VisitedMarks, FetchedOnce, ClaimedPc
<1>2. TypeOK /\ LocksHeld /\ Inv /\ [Next]_vars => Inv'
  <2> SUFFICES ASSUME TypeOK, LocksHeld, Inv, [Next]_vars PROVE Inv'
    OBVIOUS
  <2>0. pc \in [Worker -> IdlePc \cup BusyPc] /\ task \in [Worker -> Task \cup {NoTask}]
    BY DEF TypeOK
  <2> USE <2>0 DEF VisitedMarks, FetchedOnce, Goto, NotifyAll, locks
  <2>1. CASE PushStart
    <3>1. \A v \in Worker : pc'[v] \in ClaimedPc \cup {"duplicate"} => pc'[v] = pc[v]
      BY <2>1 DEF PushStart, Push, ClaimedPc
    <3>2. QED BY <2>1, <3>1 DEF PushStart, Push, ClaimedPc, history
  <2>2. ASSUME NEW w \in Worker, SpawnWorker(w) PROVE Inv'
    BY <2>2 DEF SpawnWorker, ClaimedPc, history
  <2>3. CASE SpawnFails
    BY <2>3 DEF SpawnFails, ClaimedPc, history
  <2>4. CASE JoinAll
    BY <2>4 DEF JoinAll, ClaimedPc, history
  <2>5. ASSUME NEW w \in Worker, Sleep(w) PROVE Inv'
    BY <2>5 DEF Sleep, ClaimedPc, history
  <2>6. ASSUME NEW w \in Worker, SpuriousWake(w) PROVE Inv'
    BY <2>6 DEF SpuriousWake, ClaimedPc, history
  <2>7. ASSUME NEW w \in Worker, Exit(w) PROVE Inv'
    BY <2>7 DEF Exit, ClaimedPc, history
  <2>8. ASSUME NEW w \in Worker, Take(w) PROVE Inv'
    <3>1. \A v \in Worker : pc'[v] \in ClaimedPc \cup {"duplicate"} => pc'[v] = pc[v]
      BY <2>8 DEF Take, ClaimedPc
    <3>2. QED BY <2>8, <3>1 DEF Take, ClaimedPc, history
  <2>9. ASSUME NEW w \in Worker, Finish(w) PROVE Inv'
    <3>1. \A v \in Worker : pc'[v] \in ClaimedPc \cup {"duplicate"}
                            => pc'[v] = pc[v] /\ task'[v] = task[v]
      BY <2>9, LeaveLemma DEF ClaimedPc, Finish
    <3>2. QED BY <2>9, <3>1 DEF Finish, ClaimedPc, history
  <2>10. ASSUME NEW w \in Worker, CheckDepth(w) PROVE Inv'
    BY <2>10 DEF CheckDepth, ClaimedPc, history
  <2>11. ASSUME NEW w \in Worker, LockVisited(w) PROVE Inv'
    <3>1. /\ pc[w] = "visit" /\ fetched' = fetched /\ visitedUrls' = visitedUrls /\ task' = task
          /\ pc'[w] = IF task[w].url \in visitedUrls THEN "duplicate" ELSE "insert"
          /\ \A v \in Worker \ {w} : pc'[v] = pc[v]
      BY <2>11 DEF LockVisited, history
    <3>2. \A v \in Worker : pc[v] # "insert"
      BY <2>11, WorkerAssumption DEF LockVisited, LocksHeld
    <3>3. QED BY <3>1, <3>2 DEF ClaimedPc
  <2>12. ASSUME NEW w \in Worker, DropDuplicate(w) PROVE Inv'
    <3>1. \A v \in Worker : pc'[v] \in ClaimedPc \cup {"duplicate"}
                            => pc'[v] = pc[v] /\ task'[v] = task[v]
      BY <2>12, LeaveLemma DEF ClaimedPc, DropDuplicate
    <3>2. QED BY <2>12, <3>1 DEF DropDuplicate, ClaimedPc, history
  <2>13. ASSUME NEW w \in Worker, EndInsert(w) PROVE Inv'
    <3>1. /\ pc[w] = "insert" /\ fetched' = fetched /\ task' = task
          /\ visitedUrls' = visitedUrls \cup {task[w].url}
          /\ pc'[w] = "fetch" /\ \A v \in Worker \ {w} : pc'[v] = pc[v]
      BY <2>13 DEF EndInsert, history
    <3>2. \A v \in Worker \ {w} : pc[v] # "insert"
      BY <3>1 DEF LocksHeld
    <3>3. QED BY <3>1, <3>2 DEF ClaimedPc
  <2>14. ASSUME NEW w \in Worker, Fetch(w) PROVE Inv'
    BY <2>14 DEF Fetch, ClaimedPc, history
  <2>15. ASSUME NEW w \in Worker, StoreDocument(w) PROVE Inv'
    BY <2>15 DEF StoreDocument, ClaimedPc, history
  <2>16. ASSUME NEW w \in Worker, StoreWords(w) PROVE Inv'
    BY <2>16 DEF StoreWords, Follows, ClaimedPc, history
  <2>17. ASSUME NEW w \in Worker, ExtractFails(w) PROVE Inv'
    BY <2>17 DEF ExtractFails, ClaimedPc, history
  <2>18. ASSUME NEW w \in Worker, BeginAddLinks(w) PROVE Inv'
    BY <2>18 DEF BeginAddLinks, ClaimedPc, history
  <2>19. ASSUME NEW w \in Worker, AddLink(w) PROVE Inv'
    BY <2>19 DEF AddLink, Push, LinkDepth, ClaimedPc, history
  <2>20. ASSUME NEW w \in Worker, RaceCrash(w) PROVE Inv'
    BY <2>20 DEF RaceCrash, ClaimedPc, history
  <2>21. ASSUME NEW w \in Worker, EndAddLinks(w) PROVE Inv'
    BY <2>21 DEF EndAddLinks, ClaimedPc, history
  <2>22. ASSUME NEW w \in Worker, LogSize(w) PROVE Inv'
    BY <2>22 DEF LogSize, ClaimedPc, history
  <2>23. CASE UNCHANGED vars
    BY <2>23 DEF vars, history
  <2>24. QED
    BY <2>1, <2>2, <2>3, <2>4, <2>5, <2>6, <2>7, <2>8, <2>9, <2>10, <2>11, <2>12,
       <2>13, <2>14, <2>15, <2>16, <2>17, <2>18, <2>19, <2>20, <2>21, <2>22, <2>23 DEF Next, Main, Step
<1>3. QED
  BY <1>1, <1>2, TypeCorrect, LocksCorrect, PTL DEF Spec
-----------------------------------------------------------------------------
(* No link is lost.                                                        *)

HeldPc == {"depth", "visit", "duplicate", "insert"}

\* What is left of a list after its head is looked at.
LEMMA RangeLemma ==
  ASSUME NEW S, NEW q \in Seq(S), q # <<>>
  PROVE  Range(q) = {Head(q)} \cup Range(Tail(q))
<1>1. /\ DOMAIN q = 1..Len(q) /\ DOMAIN Tail(q) = 1..Len(Tail(q))
      /\ Len(q) \in Nat \ {0}
  BY HeadTailLemma
<1>2. ASSUME NEW i \in DOMAIN q, i # 1 PROVE i-1 \in DOMAIN Tail(q) /\ q[i] = Tail(q)[i-1]
  <2>1. i-1 \in 1..Len(Tail(q))
    BY <1>1, <1>2, HeadTailLemma
  <2>2. Tail(q)[i-1] = q[(i-1)+1]
    BY <2>1, HeadTailLemma
  <2>3. (i-1)+1 = i
    BY <1>1, <1>2
  <2>4. QED BY <1>1, <2>1, <2>2, <2>3
<1>3. ASSUME NEW i \in DOMAIN Tail(q) PROVE i+1 \in DOMAIN q /\ q[i+1] = Tail(q)[i]
  BY <1>1, HeadTailLemma
<1>4. 1 \in DOMAIN q /\ Head(q) = q[1]
  BY <1>1, HeadTailLemma
<1>5. ASSUME NEW x \in Range(q) PROVE x = Head(q) \/ x \in Range(Tail(q))
  <2>1. PICK i \in DOMAIN q : x = q[i]
    BY <1>5 DEF Range
  <2>2. QED BY <1>2, <1>4, <2>1 DEF Range
<1>6. ASSUME NEW x \in Range(Tail(q)) PROVE x \in Range(q)
  BY <1>3, <1>6 DEF Range
<1>7. Head(q) \in Range(q)
  BY <1>4 DEF Range
<1>8. QED
  BY <1>5, <1>6, <1>7

\* A URL stays accounted for if the set of visited URLs grows, what leaves the
\* queue is taken by a worker, and what a worker drops is visited.
LEMMA AccountedStep ==
  ASSUME visitedUrls \subseteq visitedUrls',
         \A i \in 1..Len(taskQueue) :
           \/ \E j \in 1..Len(taskQueue') : taskQueue'[j] = taskQueue[i]
           \/ \E v \in Worker : pc'[v] \in HeldPc /\ task'[v] = taskQueue[i],
         \A v \in Worker : pc[v] \in HeldPc =>
           \/ pc'[v] \in HeldPc /\ task'[v] = task[v]
           \/ task[v].url \in visitedUrls'
  PROVE  \A u : Accounted(u) => Accounted(u)'
<1> SUFFICES ASSUME NEW u, Accounted(u) PROVE Accounted(u)'
  OBVIOUS
<1>1. CASE u \in visitedUrls
  BY <1>1 DEF Accounted
<1>2. ASSUME NEW i \in 1..Len(taskQueue), taskQueue[i].url = u PROVE Accounted(u)'
  BY <1>2 DEF Accounted, HeldPc
<1>3. ASSUME NEW v \in Worker, pc[v] \in HeldPc, task[v].url = u PROVE Accounted(u)'
  BY <1>3 DEF Accounted, HeldPc
<1>4. QED
  BY <1>1, <1>2, <1>3 DEF Accounted, HeldPc

\* No step makes a URL disappear that was visited, queued or in the hands of a
\* worker that has not looked it up.
LEMMA AccountedNext ==
  TypeOK /\ DepthBounded /\ VisitedMarks /\ [Next]_vars => \A u : Accounted(u) => Accounted(u)'
<1> SUFFICES ASSUME TypeOK, DepthBounded, VisitedMarks, [Next]_vars
             PROVE  \A u : Accounted(u) => Accounted(u)'
  OBVIOUS
<1>0. /\ pc \in [Worker -> IdlePc \cup BusyPc] /\ task \in [Worker -> Task \cup {NoTask}]
      /\ pending \in [Worker -> Seq(Url)] /\ taskQueue \in Seq(Task)
      /\ \A v \in Worker : pc[v] = "duplicate" => task[v].url \in visitedUrls
  BY DEF TypeOK, VisitedMarks
<1> DEFINE Kept ==
      /\ visitedUrls \subseteq visitedUrls'
      /\ \A v \in Worker : pc[v] \in HeldPc => \/ pc'[v] \in HeldPc /\ task'[v] = task[v]
                                               \/ task[v].url \in visitedUrls'
<1>1. CASE PushStart
  <2>1. \A i \in 1..Len(taskQueue) : i \in 1..Len(taskQueue') /\ taskQueue'[i] = taskQueue[i]
    BY <1>0, <1>1, UrlAssumption, AppendLemma DEF PushStart, Push, Task
  <2>2. Kept
    BY <1>0, <1>1 DEF PushStart, HeldPc, NotifyAll
  <2>3. QED BY <2>1, <2>2, AccountedStep
<1>2. ASSUME NEW w \in Worker, Take(w) PROVE \A u : Accounted(u) => Accounted(u)'
  <2>1. ASSUME NEW i \in 1..Len(taskQueue)
        PROVE  \/ \E j \in 1..Len(taskQueue') : taskQueue'[j] = taskQueue[i]
               \/ \E v \in Worker : pc'[v] \in HeldPc /\ task'[v] = taskQueue[i]
    <3>1. CASE i = 1
      BY <1>0, <1>2, <3>1, HeadTailLemma DEF Take, HeldPc, Goto
    <3>2. CASE i # 1
      <4>1. i - 1 \in 1..Len(taskQueue') /\ taskQueue'[i-1] = taskQueue[i]
        BY <1>0, <1>2, <3>2, HeadTailLemma DEF Take
      <4>2. QED BY <4>1
    <3>3. QED BY <3>1, <3>2
  <2>2. Kept
    BY <1>0, <1>2 DEF Take, HeldPc, Goto
  <2>3. QED BY <2>1, <2>2, AccountedStep
<1>3. ASSUME NEW w \in Worker, AddLink(w) PROVE \A u : Accounted(u) => Accounted(u)'
  <2>1. PICK url \in Url : \/ taskQueue' = taskQueue
                           \/ taskQueue' = Append(taskQueue, [url |-> url, depth |-> task[w].depth + 1])
    BY <1>0, <1>3, HeadTailLemma DEF AddLink, Push, LinkDepth
  <2> DEFINE new == [url |-> url, depth |-> task[w].depth + 1]
  <2>2. new \in Task
    BY <1>0, <1>3 DEF AddLink, TypeOK, BusyPc, Task
  <2>3. taskQueue' = taskQueue \/ taskQueue' = Append(taskQueue, new)
    BY <2>1
  <2> HIDE DEF new
  <2>4. \A i \in 1..Len(taskQueue) : i \in 1..Len(taskQueue') /\ taskQueue'[i] = taskQueue[i]
    BY <1>0, <2>2, <2>3, AppendLemma
  <2>5. Kept
    BY <1>0, <1>3 DEF AddLink
  <2>6. QED BY <2>4, <2>5, AccountedStep
<1>4. ASSUME NEW w \in Worker, CheckDepth(w) PROVE Kept /\ taskQueue' = taskQueue
  <2>1. task[w].depth < MaxDepth /\ task[w].depth \in Nat
    BY <1>0, <1>4, DepthAssumption DEF CheckDepth, DepthBounded, TypeOK, BusyPc, Task
  <2>2. QED BY <1>0, <1>4, <2>1, DepthAssumption DEF CheckDepth, HeldPc, Goto
<1>5. ASSUME NEW w \in Worker, Finish(w) \/ DropDuplicate(w) PROVE Kept /\ taskQueue' = taskQueue
  BY <1>0, <1>5, LeaveLemma DEF Finish, DropDuplicate, HeldPc
<1>6. ASSUME NEW w \in Worker,
             SpawnWorker(w) \/ Sleep(w) \/ SpuriousWake(w) \/ Exit(w) \/ LockVisited(w) \/ EndInsert(w)
      PROVE  Kept /\ taskQueue' = taskQueue
  BY <1>0, <1>6 DEF SpawnWorker, Sleep, SpuriousWake, Exit, LockVisited, EndInsert, HeldPc, Goto
<1>7. ASSUME NEW w \in Worker,
             Fetch(w) \/ StoreDocument(w) \/ StoreWords(w) \/ ExtractFails(w) \/ BeginAddLinks(w)
      PROVE  Kept /\ taskQueue' = taskQueue
  BY <1>0, <1>7 DEF Fetch, StoreDocument, StoreWords, ExtractFails, BeginAddLinks, HeldPc, Goto
<1>8. ASSUME NEW w \in Worker, RaceCrash(w) \/ EndAddLinks(w) \/ LogSize(w)
      PROVE  Kept /\ taskQueue' = taskQueue
  BY <1>0, <1>8 DEF RaceCrash, EndAddLinks, LogSize, HeldPc, NotifyAll
<1>9. CASE SpawnFails \/ JoinAll \/ UNCHANGED vars
  BY <1>9, AccountedStep DEF SpawnFails, JoinAll, vars
<1>10. ASSUME Kept, taskQueue' = taskQueue PROVE \A u : Accounted(u) => Accounted(u)'
  BY <1>10, AccountedStep
<1>11. QED
  BY <1>1, <1>2, <1>3, <1>4, <1>5, <1>6, <1>7, <1>8, <1>9, <1>10 DEF Next, Main, Step

\* A step away from addLinksToQueue concerns NoLinkLost only through Accounted.
LEMMA LinkStep ==
  ASSUME NoLinkLost, web' = web, expanded' = expanded,
         \A u : Accounted(u) => Accounted(u)',
         \A v \in Worker : pc[v] = "adding" =>
           pc'[v] = "adding" /\ task'[v] = task[v] /\ pending'[v] = pending[v]
  PROVE  NoLinkLost'
  BY DEF NoLinkLost

\* Every link of every page whose links were extracted is visited, queued or
\* in a worker's hands, whatever the unsynchronised lookup answers.
THEOREM LinksCorrect == Spec => []NoLinkLost
<1>1. Init => NoLinkLost
  BY DEF Init, NoLinkLost
<1>2. TypeOK /\ DepthBounded /\ VisitedMarks /\ NoLinkLost /\ [Next]_vars => NoLinkLost'
  <2> SUFFICES ASSUME TypeOK, DepthBounded, VisitedMarks, NoLinkLost, [Next]_vars
               PROVE  NoLinkLost'
    OBVIOUS
  <2>0. /\ pc \in [Worker -> IdlePc \cup BusyPc] /\ task \in [Worker -> Task \cup {NoTask}]
        /\ pending \in [Worker -> Seq(Url)]
        /\ \A u : Accounted(u) => Accounted(u)'
    BY AccountedNext DEF TypeOK
  <2> DEFINE Away ==
        /\ web' = web /\ expanded' = expanded
        /\ \A v \in Worker : pc[v] = "adding" =>
             pc'[v] = "adding" /\ task'[v] = task[v] /\ pending'[v] = pending[v]
  <2>1. ASSUME Away PROVE NoLinkLost'
    BY <2>0, <2>1, LinkStep
  <2>2. CASE PushStart \/ SpawnFails \/ JoinAll \/ UNCHANGED vars
    BY <2>0, <2>1, <2>2 DEF PushStart, SpawnFails, JoinAll, vars, history, NotifyAll
  <2>3. ASSUME NEW w \in Worker,
               \/ SpawnWorker(w) \/ Sleep(w) \/ SpuriousWake(w) \/ Exit(w) \/ Take(w)
               \/ CheckDepth(w) \/ LockVisited(w) \/ EndInsert(w)
        PROVE  Away
    BY <2>0, <2>3 DEF SpawnWorker, Sleep, SpuriousWake, Exit, Take, CheckDepth, LockVisited,
       EndInsert, Goto, history
  <2>4. ASSUME NEW w \in Worker,
               \/ Fetch(w) \/ StoreDocument(w) \/ StoreWords(w) \/ ExtractFails(w)
               \/ RaceCrash(w) \/ LogSize(w)
        PROVE  Away
    BY <2>0, <2>4 DEF Fetch, StoreDocument, StoreWords, ExtractFails, RaceCrash, LogSize, Goto,
       NotifyAll, history
  <2>5. ASSUME NEW w \in Worker, Finish(w) \/ DropDuplicate(w) PROVE Away
    BY <2>0, <2>5, LeaveLemma DEF Finish, DropDuplicate, history
  <2> USE <2>0 DEF NoLinkLost, Goto, NotifyAll
  <2>6. ASSUME NEW w \in Worker, BeginAddLinks(w) PROVE NoLinkLost'
    <3>3. /\ web' = web /\ expanded' = expanded \cup {task[w].url} /\ task' = task
          /\ pc'[w] = "adding" /\ pending'[w] = web[task[w].url]
          /\ \A v \in Worker : pc[v] = "adding" =>
               pc'[v] = "adding" /\ pending'[v] = pending[v]
      BY <2>6 DEF BeginAddLinks
    <3>4. SUFFICES ASSUME NEW u \in expanded', NEW link \in Range(web[u])
                 PROVE  \/ Accounted(link)'
                        \/ \E v \in Worker : /\ pc'[v] = "adding" /\ task[v].url = u
                                              /\ link \in Range(pending'[v])
      BY <3>3
    <3>5. CASE u = task[w].url
      BY <3>3, <3>5
    <3>6. CASE u \in expanded
      <4>1. CASE Accounted(link)
        BY <2>0, <4>1
      <4>2. ASSUME NEW v \in Worker, pc[v] = "adding", task[v].url = u, link \in Range(pending[v])
            PROVE  pc'[v] = "adding" /\ link \in Range(pending'[v])
        BY <3>3, <4>2
      <4>3. QED BY <3>6, <4>1, <4>2
    <3>7. QED BY <3>3, <3>5, <3>6
  <2>7. ASSUME NEW w \in Worker, AddLink(w) PROVE NoLinkLost'
    <3> DEFINE link == Head(pending[w])
    <3>1. /\ link \in Url /\ pending[w] \in Seq(Url) /\ pending[w] # <<>>
          /\ pending'[w] = Tail(pending[w])
          /\ \A v \in Worker \ {w} : pending'[v] = pending[v]
          /\ web' = web /\ expanded' = expanded /\ pc' = pc /\ task' = task
          /\ visitedUrls' = visitedUrls /\ pc[w] = "adding"
      BY <2>7, HeadTailLemma DEF AddLink, Push, LinkDepth, TypeOK, history
    <3> DEFINE new == [url |-> link, depth |-> task[w].depth + 1]
    <3>2. new \in Task /\ new.url = link /\ taskQueue \in Seq(Task)
      BY <3>1, <2>7 DEF Task, TypeOK, BusyPc
    <3>3. \/ taskQueue' = taskQueue /\ link \in visitedUrls \cup BeingInserted
          \/ taskQueue' = Append(taskQueue, new)
      BY <2>7 DEF AddLink, Push, LinkDepth, Lookup
    <3> HIDE DEF new
    <3>6. \/ link \in visitedUrls'
          \/ \E i \in 1..Len(taskQueue') : taskQueue'[i].url = link
          \/ \E v \in Worker : pc'[v] = "insert" /\ task'[v].url = link
      <4>1. CASE taskQueue' = taskQueue /\ link \in visitedUrls \cup BeingInserted
        BY <3>1, <4>1 DEF BeingInserted
      <4>2. CASE taskQueue' = Append(taskQueue, new)
        <5> HIDE DEF link
        <5>1. Len(taskQueue) + 1 \in 1..Len(taskQueue') /\ taskQueue'[Len(taskQueue) + 1].url = link
          BY <3>2, <4>2, AppendLemma
        <5>2. QED BY <5>1
      <4>3. QED BY <3>3, <4>1, <4>2
    <3>7. Range(pending[w]) = {link} \cup Range(pending'[w])
      BY <3>1, RangeLemma
    <3>8. SUFFICES ASSUME NEW u \in expanded, NEW l \in Range(web[u])
                 PROVE  \/ Accounted(l)'
                        \/ \E v \in Worker : /\ pc[v] = "adding" /\ task[v].url = u
                                              /\ l \in Range(pending'[v])
      BY <3>1
    <3>9. CASE l = link
      BY <3>6, <3>9 DEF Accounted
    <3>10. CASE Accounted(l)
      BY <2>0, <3>10
    <3>11. ASSUME l # link, NEW v \in Worker, pc[v] = "adding", task[v].url = u, l \in Range(pending[v])
           PROVE  l \in Range(pending'[v])
      <4>1. CASE v = w
        BY <3>7, <3>11, <4>1
      <4>2. CASE v # w
        BY <3>1, <3>11, <4>2
      <4>3. QED BY <4>1, <4>2
    <3>12. QED BY <3>9, <3>10, <3>11
  <2>8. ASSUME NEW w \in Worker, EndAddLinks(w) PROVE NoLinkLost'
    <3>3. /\ web' = web /\ expanded' = expanded /\ task' = task /\ pending' = pending
          /\ pending[w] = <<>>
          /\ \A v \in Worker \ {w} : pc[v] = "adding" => pc'[v] = "adding"
      BY <2>8 DEF EndAddLinks, history
    <3>4. Range(pending[w]) = {}
      BY <3>3 DEF Range
    <3>5. SUFFICES ASSUME NEW u \in expanded, NEW l \in Range(web[u])
                 PROVE  \/ Accounted(l)'
                        \/ \E v \in Worker : /\ pc'[v] = "adding" /\ task[v].url = u
                                              /\ l \in Range(pending[v])
      BY <3>3
    <3>6. CASE Accounted(l)
      BY <2>0, <3>6
    <3>7. ASSUME NEW v \in Worker, pc[v] = "adding", task[v].url = u, l \in Range(pending[v])
          PROVE  pc'[v] = "adding"
      BY <3>3, <3>4, <3>7
    <3>8. QED BY <3>6, <3>7
  <2>9. QED
    BY <2>1, <2>2, <2>3, <2>4, <2>5, <2>6, <2>7, <2>8 DEF Next, Main, Step
<1>3. QED
  BY <1>1, <1>2, TypeCorrect, DepthCorrect, FetchCorrect, PTL DEF Spec

\* All of it together: what TLC checks as Inductive on small pools holds in
\* every state of every crawl.
THEOREM InductiveCorrect == Spec => []Inductive
<1>1. /\ TypeOK /\ LocksHeld /\ (WorkCounted /\ StopMeansNoWork)
      /\ (DepthBounded /\ Expanding) /\ (VisitedMarks /\ FetchedOnce) /\ NoLinkLost
      => Inductive
  BY DEF Inductive
<1>2. QED
  BY <1>1, TypeCorrect, LocksCorrect, StopCorrect, DepthCorrect, FetchCorrect,
     LinksCorrect, PTL

-----------------------------------------------------------------------------
(***************************************************************************)
(* Spider implements Crawl.                                                *)
(*                                                                         *)
(* The mapping reads "found" off the queue and the workers that have not   *)
(* inserted their URL, and "open" off the workers behind the insert.  Most *)
(* steps leave both alone (FoundLemma, OpenLemma); the others claim a page *)
(* (EndInsert), find one (AddLink), end one (Finish) or close the crawl    *)
(* (DropDuplicate, Finish).                                                *)
(*                                                                         *)
(* Then what a crawl covers: no page is visited deeper than a shortest     *)
(* path leads (StrayCorrect); for a recursion depth of at most two no page *)
(* within it is missed (CoveredCorrect) and the lookup without the mutex   *)
(* meets no insert (SynchronisedCorrect).  The runs SpiderDepthThree and   *)
(* SpiderVisitedRace show both failing for a depth of three.               *)
(***************************************************************************)

\* Where a worker's URL is found, and where it is open.
FoundPc == {"depth", "visit", "insert"}
OpenPc  == {"fetch", "document", "words", "extract", "adding", "size", "finish"}

\* The links a worker has still to look up are links of its page.
PendingFromPage ==
  \A w \in Worker : pc[w] = "adding" => Range(pending[w]) \subseteq Range(web[task[w].url])

-----------------------------------------------------------------------------
(* The mapping, one element at a time.                                     *)

\* A URL is found when it is queued, or in the hands of a worker that has not
\* inserted it, or the start page that run() is about to queue.
LEMMA InFound ==
  ASSUME NEW u
  PROVE  u \in Found <=> \/ mainPc = "push" /\ u = StartUrl
                         \/ \E i \in 1..Len(taskQueue) : taskQueue[i].url = u
                         \/ \E w \in Worker : pc[w] \in FoundPc /\ task[w].url = u
  BY DEF Found, FoundPc

\* A URL is open when a worker holds it behind the insert.
LEMMA InOpen ==
  ASSUME NEW u
  PROVE  u \in InProgress <=> \E w \in Worker : pc[w] \in OpenPc /\ task[w].url = u
  BY DEF InProgress, OpenPc

\* A step that moves no task into or out of a worker's hands before the insert
\* and leaves the queue alone changes nothing that is found.
LEMMA FoundLemma ==
  ASSUME taskQueue' = taskQueue, mainPc' = "push" <=> mainPc = "push",
         \A w \in Worker : pc'[w] \in FoundPc <=> pc[w] \in FoundPc,
         \A w \in Worker : pc[w] \in FoundPc => task'[w] = task[w]
  PROVE  Found' = Found
<1>1. \A u : u \in Found' <=> u \in Found
  BY DEF Found, FoundPc
<1>2. QED BY <1>1

\* The same behind the insert.
LEMMA OpenLemma ==
  ASSUME \A w \in Worker : pc'[w] \in OpenPc <=> pc[w] \in OpenPc,
         \A w \in Worker : pc[w] \in OpenPc => task'[w] = task[w]
  PROVE  InProgress' = InProgress
<1>1. \A u : u \in InProgress' <=> u \in InProgress
  BY DEF InProgress, OpenPc
<1>2. QED BY <1>1

\* When the stop flag is up nothing is found and nothing is open.
LEMMA ClosedLemma == Inductive /\ stopWorkers => Found = {} /\ InProgress = {}
<1> SUFFICES ASSUME Inductive, stopWorkers PROVE Found = {} /\ InProgress = {}
  OBVIOUS
<1>1. taskQueue = <<>> /\ mainPc # "push" /\ \A w \in Worker : pc[w] \notin BusyPc
  BY DEF Inductive, WorkCounted, StopMeansNoWork, Busy
<1>2. \A u : u \notin Found
  BY <1>1, InFound DEF FoundPc, BusyPc
<1>3. \A u : u \notin InProgress
  BY <1>1, InOpen DEF OpenPc, BusyPc
<1>4. QED BY <1>2, <1>3

\* The same after a step.
LEMMA ClosedNext == Inductive' /\ stopWorkers' => Found' = {} /\ InProgress' = {}
<1> DEFINE Closed == Inductive /\ stopWorkers => Found = {} /\ InProgress = {}
<1>1. Closed
  BY ClosedLemma
<1> HIDE DEF Closed
<1>2. Closed'
  BY <1>1, PTL
<1>3. QED BY <1>2 DEF Closed

\* A worker with a task keeps the stop flag down.
LEMMA BusyOpen ==
  ASSUME Inductive, NEW w \in Worker, pc[w] \in BusyPc
  PROVE  stopWorkers = FALSE
  BY DEF Inductive, StopMeansNoWork, Busy, TypeOK

-----------------------------------------------------------------------------
(* The links in the hands of addLinksToQueue.                              *)

\* addLinksToQueue starts from the links of the page and only drops the first.
THEOREM PendingCorrect == Spec => []PendingFromPage
<1>1. Init => PendingFromPage
  BY DEF Init, PendingFromPage
<1>2. TypeOK /\ PendingFromPage /\ [Next]_vars => PendingFromPage'
  <2> SUFFICES ASSUME TypeOK, PendingFromPage, [Next]_vars PROVE PendingFromPage'
    OBVIOUS
  <2>0. /\ pc \in [Worker -> IdlePc \cup BusyPc] /\ web \in [Url -> Seq(Url)]
        /\ pending \in [Worker -> Seq(Url)]
    BY DEF TypeOK
  <2>a. ASSUME web' = web,
               \A w \in Worker : pc'[w] = "adding" =>
                 /\ pc[w] = "adding" /\ task'[w] = task[w]
                 /\ Range(pending'[w]) \subseteq Range(pending[w])
        PROVE  PendingFromPage'
    BY <2>a DEF PendingFromPage
  <2>1. CASE PushStart
    BY <2>0, <2>a, <2>1 DEF PushStart, NotifyAll
  <2>2. ASSUME NEW w \in Worker, SpawnWorker(w) PROVE PendingFromPage'
    BY <2>0, <2>a, <2>2 DEF SpawnWorker, Goto
  <2>3. CASE SpawnFails
    BY <2>0, <2>a, <2>3 DEF SpawnFails, Goto
  <2>4. CASE JoinAll
    BY <2>0, <2>a, <2>4 DEF JoinAll, Goto
  <2>5. ASSUME NEW w \in Worker, Sleep(w) PROVE PendingFromPage'
    BY <2>0, <2>a, <2>5 DEF Sleep, Goto
  <2>6. ASSUME NEW w \in Worker, SpuriousWake(w) PROVE PendingFromPage'
    BY <2>0, <2>a, <2>6 DEF SpuriousWake, Goto
  <2>7. ASSUME NEW w \in Worker, Exit(w) PROVE PendingFromPage'
    BY <2>0, <2>a, <2>7 DEF Exit, Goto
  <2>8. ASSUME NEW w \in Worker, Take(w) PROVE PendingFromPage'
    BY <2>0, <2>a, <2>8 DEF Take, Goto
  <2>9. ASSUME NEW w \in Worker, Finish(w) PROVE PendingFromPage'
    BY <2>a, <2>9, LeaveLemma DEF Finish
  <2>10. ASSUME NEW w \in Worker, CheckDepth(w) PROVE PendingFromPage'
    BY <2>0, <2>a, <2>10 DEF CheckDepth, Goto
  <2>11. ASSUME NEW w \in Worker, LockVisited(w) PROVE PendingFromPage'
    BY <2>0, <2>a, <2>11 DEF LockVisited, Goto
  <2>12. ASSUME NEW w \in Worker, DropDuplicate(w) PROVE PendingFromPage'
    BY <2>a, <2>12, LeaveLemma DEF DropDuplicate
  <2>13. ASSUME NEW w \in Worker, EndInsert(w) PROVE PendingFromPage'
    BY <2>0, <2>a, <2>13 DEF EndInsert, Goto
  <2>14. ASSUME NEW w \in Worker, Fetch(w) PROVE PendingFromPage'
    BY <2>0, <2>a, <2>14 DEF Fetch, Goto
  <2>15. ASSUME NEW w \in Worker, StoreDocument(w) PROVE PendingFromPage'
    BY <2>0, <2>a, <2>15 DEF StoreDocument, Goto
  <2>16. ASSUME NEW w \in Worker, StoreWords(w) PROVE PendingFromPage'
    BY <2>0, <2>a, <2>16 DEF StoreWords, Goto
  <2>17. ASSUME NEW w \in Worker, ExtractFails(w) PROVE PendingFromPage'
    BY <2>0, <2>a, <2>17 DEF ExtractFails, Goto
  <2>18. ASSUME NEW w \in Worker, BeginAddLinks(w) PROVE PendingFromPage'
    <3>1. /\ pending'[w] = web[task[w].url] /\ task' = task /\ web' = web
          /\ \A v \in Worker \ {w} : pc'[v] = pc[v] /\ pending'[v] = pending[v]
      BY <2>0, <2>18 DEF BeginAddLinks, Goto
    <3>2. QED BY <3>1 DEF PendingFromPage
  <2>19. ASSUME NEW w \in Worker, AddLink(w) PROVE PendingFromPage'
    <3>1. /\ pc' = pc /\ task' = task /\ web' = web
          /\ pending'[w] = Tail(pending[w]) /\ pending[w] # <<>> /\ pending[w] \in Seq(Url)
          /\ \A v \in Worker \ {w} : pending'[v] = pending[v]
      BY <2>0, <2>19 DEF AddLink
    <3>2. Range(Tail(pending[w])) \subseteq Range(pending[w])
      BY <3>1, RangeLemma
    <3>3. QED BY <2>a, <3>1, <3>2
  <2>20. ASSUME NEW w \in Worker, RaceCrash(w) PROVE PendingFromPage'
    BY <2>0, <2>a, <2>20 DEF RaceCrash, Goto
  <2>21. ASSUME NEW w \in Worker, EndAddLinks(w) PROVE PendingFromPage'
    BY <2>0, <2>a, <2>21 DEF EndAddLinks, NotifyAll
  <2>22. ASSUME NEW w \in Worker, LogSize(w) PROVE PendingFromPage'
    BY <2>0, <2>a, <2>22 DEF LogSize, NotifyAll
  <2>23. CASE UNCHANGED vars
    BY <2>a, <2>23 DEF vars
  <2>24. QED
    BY <2>1, <2>2, <2>3, <2>4, <2>5, <2>6, <2>7, <2>8, <2>9, <2>10, <2>11, <2>12,
       <2>13, <2>14, <2>15, <2>16, <2>17, <2>18, <2>19, <2>20, <2>21, <2>22, <2>23 DEF Next, Main, Step
<1>3. QED
  BY <1>1, <1>2, TypeCorrect, PTL DEF Spec

-----------------------------------------------------------------------------
(* The steps.                                                              *)

\* What no action of Crawl has to explain.
LEMMA StutterLemma ==
  ASSUME web' = web, visitedUrls' = visitedUrls, stopWorkers' = stopWorkers,
         Found' \ visitedUrls = Found \ visitedUrls, InProgress' = InProgress
  PROVE  UNCHANGED CrawlSpec!vars
  BY DEF CrawlSpec!vars

\* The last busy worker sets the flag: the crawl is closed.
LEMMA CloseLemma ==
  ASSUME Inductive, Inductive', web' = web, visitedUrls' = visitedUrls,
         Found' = Found, InProgress' = InProgress, stopWorkers'
  PROVE  CrawlSpec!Close
<1>1. Found' = {} /\ InProgress' = {}
  BY ClosedNext
<1>2. stopWorkers' = TRUE
  BY DEF Inductive, TypeOK
<1>3. QED BY <1>1, <1>2 DEF CrawlSpec!Close

\* The end of the loop body ends the page, unless another worker has the same
\* one open: then it is open as before, and the crawl goes on.
LEMMA EndLemma ==
  ASSUME Inductive, Inductive', NEW w \in Worker, Finish(w)
  PROVE  CrawlSpec!Next \/ UNCHANGED CrawlSpec!vars
<1> DEFINE u == task[w].url
<1>0. TypeOK /\ pc[w] = "finish" /\ Leave(w)
      /\ taskQueue' = taskQueue /\ visitedUrls' = visitedUrls /\ web' = web /\ mainPc' = mainPc
  BY DEF Inductive, Finish
<1>1. /\ pc'[w] = "ready"
      /\ \A v \in Worker \ {w} : task'[v] = task[v]
      /\ \A v \in Worker \ {w} : pc[v] \in FoundPc \cup OpenPc \/ pc'[v] \in FoundPc \cup OpenPc
                                 => pc'[v] = pc[v]
      /\ stopWorkers' \in BOOLEAN
  BY <1>0, LeaveLemma DEF FoundPc, OpenPc
<1>2. Found' = Found
  BY <1>0, <1>1, FoundLemma DEF FoundPc
<1>3. stopWorkers = FALSE
  BY <1>0, BusyOpen DEF BusyPc
<1>4. stopWorkers' => Found' = {} /\ InProgress' = {}
  BY ClosedNext
<1>5. u \in InProgress
  BY <1>0, InOpen DEF OpenPc
<1>6. CASE \E v \in Worker \ {w} : pc[v] \in OpenPc /\ task[v].url = u
  <2>1. InProgress' = InProgress
    <3>1. ASSUME NEW x PROVE x \in InProgress' <=> x \in InProgress
      BY <1>0, <1>1, <1>6 DEF InProgress, OpenPc
    <3>2. QED BY <3>1
  <2>2. stopWorkers' = FALSE
    BY <1>1, <1>4, <1>5, <2>1
  <2>3. QED BY <1>0, <1>2, <1>3, <2>1, <2>2, StutterLemma
<1>7. CASE ~ \E v \in Worker \ {w} : pc[v] \in OpenPc /\ task[v].url = u
  <2>1. InProgress' = InProgress \ {u}
    <3>1. ASSUME NEW x PROVE x \in InProgress' <=> x \in InProgress /\ x # u
      BY <1>0, <1>1, <1>7 DEF InProgress, OpenPc
    <3>2. QED BY <3>1
  <2>2. CrawlSpec!Leave(u)
    BY <1>0, <1>1, <1>2, <1>3, <1>4, <1>5, <2>1 DEF CrawlSpec!Leave
  <2>3. QED BY <1>5, <2>2 DEF CrawlSpec!Next
<1>8. QED BY <1>6, <1>7

\* A duplicate was never open, and is found no more and no less than before:
\* nothing changes, or the crawl is closed.
LEMMA DuplicateLemma ==
  ASSUME Inductive, Inductive', NEW w \in Worker, DropDuplicate(w)
  PROVE  CrawlSpec!Next \/ UNCHANGED CrawlSpec!vars
<1>0. TypeOK /\ pc[w] = "duplicate" /\ Leave(w)
      /\ taskQueue' = taskQueue /\ visitedUrls' = visitedUrls /\ web' = web /\ mainPc' = mainPc
  BY DEF Inductive, DropDuplicate
<1>1. /\ pc'[w] = "ready"
      /\ \A v \in Worker \ {w} : task'[v] = task[v]
      /\ \A v \in Worker \ {w} : pc[v] \in FoundPc \cup OpenPc \/ pc'[v] \in FoundPc \cup OpenPc
                                 => pc'[v] = pc[v]
      /\ stopWorkers' \in BOOLEAN
  BY <1>0, LeaveLemma DEF FoundPc, OpenPc
<1>2. Found' = Found
  BY <1>0, <1>1, FoundLemma DEF FoundPc
<1>3. InProgress' = InProgress
  BY <1>0, <1>1, OpenLemma DEF OpenPc
<1>4. stopWorkers = FALSE
  BY <1>0, BusyOpen DEF BusyPc
<1>5. CASE stopWorkers'
  BY <1>0, <1>2, <1>3, <1>5, CloseLemma DEF CrawlSpec!Next
<1>6. CASE ~stopWorkers'
  BY <1>0, <1>1, <1>2, <1>3, <1>4, <1>6, StutterLemma
<1>7. QED BY <1>5, <1>6

\* The insert into visitedUrls claims the page.
LEMMA ClaimLemma ==
  ASSUME Inductive, NEW w \in Worker, EndInsert(w)
  PROVE  CrawlSpec!Next
<1> DEFINE u == task[w].url
<1>1. /\ pc \in [Worker -> IdlePc \cup BusyPc]
      /\ pc[w] = "insert" /\ pc' = [pc EXCEPT ![w] = "fetch"] /\ task' = task
      /\ taskQueue' = taskQueue /\ mainPc' = mainPc /\ web' = web /\ stopWorkers' = stopWorkers
      /\ visitedUrls' = visitedUrls \cup {u} /\ u \notin visitedUrls
  BY DEF Inductive, TypeOK, VisitedMarks, EndInsert, Goto
<1>2. u \in Found
  BY <1>1, InFound DEF FoundPc
<1>3. Found' \cup {u} = Found
  <2>1. ASSUME NEW x PROVE x \in Found' \/ x = u <=> x \in Found
    BY <1>1 DEF Found, FoundPc
  <2>2. QED BY <2>1
<1>4. InProgress' = InProgress \cup {u}
  <2>1. ASSUME NEW x PROVE x \in InProgress' <=> x \in InProgress \/ x = u
    BY <1>1 DEF InProgress, OpenPc
  <2>2. QED BY <2>1
<1>5. (Found \ visitedUrls)' = (Found \ visitedUrls) \ {u}
  BY <1>1, <1>3
<1>6. CrawlSpec!Claim(u)
  BY <1>1, <1>2, <1>4, <1>5 DEF CrawlSpec!Claim
<1>7. QED BY <1>1, <1>2, <1>6 DEF CrawlSpec!Next

\* addLinksToQueue finds a link, passes over one it has seen, or, misled by the
\* race, queues a visited one, which changes nothing.
LEMMA FindLemma ==
  ASSUME Inductive, PendingFromPage, NEW w \in Worker, AddLink(w)
  PROVE  CrawlSpec!Next \/ UNCHANGED CrawlSpec!vars
<1> DEFINE u == task[w].url
           link == Head(pending[w])
           t == [url |-> link, depth |-> LinkDepth(task[w])]
<1>1. /\ pc[w] = "adding" /\ pc' = pc /\ task' = task /\ mainPc' = mainPc /\ web' = web
      /\ visitedUrls' = visitedUrls /\ stopWorkers' = stopWorkers
      /\ taskQueue' = taskQueue \/ taskQueue' = Append(taskQueue, t)
      /\ pending[w] \in Seq(Url) /\ pending[w] # <<>> /\ taskQueue \in Seq(Task)
      /\ task[w] \in Task
  BY DEF Inductive, TypeOK, AddLink, Push, BusyPc
<1>2. InProgress' = InProgress
  BY <1>1, OpenLemma
<1>3. CASE taskQueue' = taskQueue
  <2>1. Found' = Found
    BY <1>1, <1>3, FoundLemma
  <2>2. QED BY <1>1, <1>2, <2>1, StutterLemma
<1>4. CASE taskQueue' = Append(taskQueue, t)
  <2>1. link \in Url /\ link \in Range(pending[w])
    BY <1>1, HeadTailLemma, RangeLemma
  <2>2. t \in Task /\ t.url = link
    BY <1>1, <2>1 DEF Task, LinkDepth
  <2>3. Found' = Found \cup {link}
    <3> HIDE DEF t
    <3>1. /\ Len(taskQueue') = Len(taskQueue) + 1 /\ Len(taskQueue) \in Nat
          /\ \A i \in 1..Len(taskQueue) : taskQueue'[i] = taskQueue[i]
          /\ taskQueue'[Len(taskQueue) + 1] = t
      BY <1>1, <1>4, <2>2, AppendLemma
    <3>2. \A x : (\E i \in 1..Len(taskQueue') : taskQueue'[i].url = x)
                 <=> x = link \/ \E i \in 1..Len(taskQueue) : taskQueue[i].url = x
      BY <2>2, <3>1
    <3>3. ASSUME NEW x PROVE x \in Found' <=> x \in Found \/ x = link
      BY <1>1, <3>2 DEF Found
    <3>4. QED BY <3>3
  <2>4. CASE link \in visitedUrls
    BY <1>1, <1>2, <2>3, <2>4, StutterLemma
  <2>5. CASE link \notin visitedUrls
    <3>1. u \in InProgress
      BY <1>1, InOpen DEF OpenPc
    <3>2. web[u] \in Seq(Url) /\ link \in Range(web[u])
      BY <1>1, <2>1 DEF PendingFromPage, Inductive, TypeOK, Task
    <3>3. PICK i \in 1..Len(web[u]) : web[u][i] = link
      BY <3>2 DEF Range
    <3>4. CrawlSpec!Find(u, i)
      BY <1>1, <1>2, <2>3, <2>5, <3>1, <3>3 DEF CrawlSpec!Find
    <3>5. QED BY <3>1, <3>3, <3>4 DEF CrawlSpec!Next
  <2>6. QED BY <2>4, <2>5
<1>5. QED BY <1>1, <1>3, <1>4

\* Taking a task from the queue moves its URL from the queue to the worker.
LEMMA TakeLemma ==
  ASSUME Inductive, NEW w \in Worker, Take(w)
  PROVE  UNCHANGED CrawlSpec!vars
<1>1. /\ pc \in [Worker -> IdlePc \cup BusyPc] /\ task \in [Worker -> Task \cup {NoTask}]
      /\ taskQueue \in Seq(Task) /\ taskQueue # <<>>
      /\ pc[w] = "ready" /\ pc' = [pc EXCEPT ![w] = "depth"]
      /\ task' = [task EXCEPT ![w] = Head(taskQueue)] /\ taskQueue' = Tail(taskQueue)
      /\ mainPc' = mainPc /\ web' = web /\ visitedUrls' = visitedUrls /\ stopWorkers' = stopWorkers
  BY DEF Inductive, TypeOK, Take, Goto
<1>2. /\ Head(taskQueue) = taskQueue[1] /\ Len(taskQueue) \in Nat \ {0}
      /\ Len(taskQueue') = Len(taskQueue) - 1
      /\ \A i \in 1..Len(taskQueue') : taskQueue'[i] = taskQueue[i+1]
  BY <1>1, HeadTailLemma
<1>3. ASSUME NEW x
      PROVE  (\E i \in 1..Len(taskQueue) : taskQueue[i].url = x)
             <=> Head(taskQueue).url = x \/ \E i \in 1..Len(taskQueue') : taskQueue'[i].url = x
  <2>1. ASSUME NEW i \in 1..Len(taskQueue), taskQueue[i].url = x, i # 1
        PROVE  \E j \in 1..Len(taskQueue') : taskQueue'[j].url = x
    <3>1. i - 1 \in 1..Len(taskQueue') /\ taskQueue'[i-1] = taskQueue[i]
      BY <1>2, <2>1
    <3>2. QED BY <2>1, <3>1
  <2>2. ASSUME NEW i \in 1..Len(taskQueue'), taskQueue'[i].url = x
        PROVE  \E j \in 1..Len(taskQueue) : taskQueue[j].url = x
    <3>1. i + 1 \in 1..Len(taskQueue)
      BY <1>2, <2>2
    <3>2. QED BY <1>2, <2>2, <3>1
  <2>3. QED BY <1>2, <2>1, <2>2
<1>4. Found' = Found
  <2>1. ASSUME NEW x PROVE x \in Found' <=> x \in Found
    <3>1. (\E v \in Worker : pc'[v] \in FoundPc /\ task'[v].url = x)
          <=> Head(taskQueue).url = x \/ \E v \in Worker : pc[v] \in FoundPc /\ task[v].url = x
      BY <1>1 DEF FoundPc
    <3>2. x \in Found' <=> \/ mainPc = "push" /\ x = StartUrl
                           \/ \E i \in 1..Len(taskQueue') : taskQueue'[i].url = x
                           \/ \E v \in Worker : pc'[v] \in FoundPc /\ task'[v].url = x
      BY <1>1 DEF Found, FoundPc
    <3>3. QED BY <1>3, <3>1, <3>2, InFound
  <2>2. QED BY <2>1
<1>5. InProgress' = InProgress
  <2>1. ASSUME NEW x PROVE x \in InProgress' <=> x \in InProgress
    BY <1>1 DEF InProgress, OpenPc
  <2>2. QED BY <2>1
<1>6. QED BY <1>1, <1>4, <1>5, StutterLemma

\* A step inside the hands of a worker, on one side of the insert.
LEMMA InsideLemma ==
  ASSUME taskQueue' = taskQueue, mainPc' = "push" <=> mainPc = "push", task' = task,
         web' = web, visitedUrls' = visitedUrls, stopWorkers' = stopWorkers,
         \A v \in Worker : pc'[v] \in FoundPc <=> pc[v] \in FoundPc,
         \A v \in Worker : pc'[v] \in OpenPc <=> pc[v] \in OpenPc
  PROVE  UNCHANGED CrawlSpec!vars
<1>1. Found' = Found
  BY FoundLemma
<1>2. InProgress' = InProgress
  BY OpenLemma
<1>3. QED BY <1>1, <1>2, StutterLemma

-----------------------------------------------------------------------------
\* The crawler implements the crawl: with its queue, its counter, its flag and
\* its two mutexes it claims each page once, and declares the crawl complete
\* only when nothing that was found is left.
THEOREM CrawlRefined == Spec => RefinesCrawl
<1>1. Init => CrawlSpec!Init
  <2> SUFFICES ASSUME Init PROVE CrawlSpec!Init
    OBVIOUS
  <2>1. ASSUME NEW x PROVE x \in Found <=> x = StartUrl
    BY InFound DEF Init, FoundPc
  <2>2. ASSUME NEW x PROVE x \notin InProgress
    BY InOpen DEF Init, OpenPc
  <2>3. QED BY <2>1, <2>2 DEF Init, CrawlSpec!Init
<1>2. Inductive /\ Inductive' /\ PendingFromPage /\ [Next]_vars => [CrawlSpec!Next]_CrawlSpec!vars
  <2> SUFFICES ASSUME Inductive, Inductive', PendingFromPage, [Next]_vars
               PROVE  CrawlSpec!Next \/ UNCHANGED CrawlSpec!vars
    OBVIOUS
  <2>0. pc \in [Worker -> IdlePc \cup BusyPc]
    BY DEF Inductive, TypeOK
  <2>1. CASE PushStart
    <3>1. /\ mainPc = "push" /\ mainPc' = "spawn" /\ taskQueue = <<>>
          /\ taskQueue' = <<[url |-> StartUrl, depth |-> 0]>>
          /\ task' = task /\ web' = web /\ visitedUrls' = visitedUrls /\ stopWorkers' = stopWorkers
          /\ \A v \in Worker : pc[v] = "unborn" /\ pc'[v] = "unborn"
      BY <2>1 DEF PushStart, Push, Inductive, WorkCounted, NotifyAll
    <3>2. ASSUME NEW x PROVE x \in Found' <=> x \in Found
      BY <3>1 DEF Found
    <3>3. ASSUME NEW x PROVE x \in InProgress' <=> x \in InProgress
      BY <3>1 DEF InProgress
    <3>4. QED BY <3>1, <3>2, <3>3, StutterLemma
  <2>2. ASSUME NEW w \in Worker, SpawnWorker(w) PROVE UNCHANGED CrawlSpec!vars
    BY <2>0, <2>2, InsideLemma DEF SpawnWorker, Goto, FoundPc, OpenPc
  <2>3. CASE SpawnFails
    BY <2>3, InsideLemma DEF SpawnFails
  <2>4. CASE JoinAll
    BY <2>4, InsideLemma DEF JoinAll
  <2>5. ASSUME NEW w \in Worker, Sleep(w) PROVE UNCHANGED CrawlSpec!vars
    BY <2>0, <2>5, InsideLemma DEF Sleep, Goto, FoundPc, OpenPc
  <2>6. ASSUME NEW w \in Worker, SpuriousWake(w) PROVE UNCHANGED CrawlSpec!vars
    BY <2>0, <2>6, InsideLemma DEF SpuriousWake, Goto, FoundPc, OpenPc
  <2>7. ASSUME NEW w \in Worker, Exit(w) PROVE UNCHANGED CrawlSpec!vars
    BY <2>0, <2>7, InsideLemma DEF Exit, Goto, FoundPc, OpenPc
  <2>8. ASSUME NEW w \in Worker, Take(w) PROVE UNCHANGED CrawlSpec!vars
    BY <2>8, TakeLemma
  <2>9. ASSUME NEW w \in Worker, Finish(w) PROVE CrawlSpec!Next \/ UNCHANGED CrawlSpec!vars
    BY <2>9, EndLemma
  <2>10. ASSUME NEW w \in Worker, CheckDepth(w) PROVE UNCHANGED CrawlSpec!vars
    <3>1. task[w].depth < MaxDepth /\ task[w].depth \in Nat /\ MaxDepth \in Nat
      BY <2>10, DepthAssumption DEF Inductive, TypeOK, DepthBounded, CheckDepth, BusyPc, Task
    <3>2. ~ task[w].depth >= MaxDepth
      BY <3>1
    <3>3. pc[w] = "depth" /\ pc' = [pc EXCEPT ![w] = "visit"]
      BY <2>10, <3>2, Zenon DEF CheckDepth, Goto
    <3>4. QED BY <2>0, <2>10, <3>3, InsideLemma DEF CheckDepth, FoundPc, OpenPc
  <2>11. ASSUME NEW w \in Worker, LockVisited(w) PROVE UNCHANGED CrawlSpec!vars
    <3>1. /\ pc[w] = "visit" /\ taskQueue' = taskQueue /\ mainPc' = mainPc /\ task' = task
          /\ web' = web /\ visitedUrls' = visitedUrls /\ stopWorkers' = stopWorkers
          /\ pc' = [pc EXCEPT ![w] = IF task[w].url \in visitedUrls THEN "duplicate" ELSE "insert"]
      BY <2>11 DEF LockVisited, Goto
    <3>2. InProgress' = InProgress
      BY <2>0, <3>1, OpenLemma DEF OpenPc
    <3>3. ASSUME NEW x, x \notin visitedUrls PROVE x \in Found' <=> x \in Found
      BY <2>0, <3>1, <3>3 DEF Found
    <3>4. QED BY <3>1, <3>2, <3>3, StutterLemma
  <2>12. ASSUME NEW w \in Worker, DropDuplicate(w) PROVE CrawlSpec!Next \/ UNCHANGED CrawlSpec!vars
    BY <2>12, DuplicateLemma
  <2>13. ASSUME NEW w \in Worker, EndInsert(w) PROVE CrawlSpec!Next
    BY <2>13, ClaimLemma
  <2>14. ASSUME NEW w \in Worker, Fetch(w) PROVE UNCHANGED CrawlSpec!vars
    BY <2>0, <2>14, InsideLemma DEF Fetch, Goto, FoundPc, OpenPc
  <2>15. ASSUME NEW w \in Worker, StoreDocument(w) PROVE UNCHANGED CrawlSpec!vars
    BY <2>0, <2>15, InsideLemma DEF StoreDocument, Goto, FoundPc, OpenPc
  <2>16. ASSUME NEW w \in Worker, StoreWords(w) PROVE UNCHANGED CrawlSpec!vars
    BY <2>0, <2>16, InsideLemma DEF StoreWords, Goto, FoundPc, OpenPc
  <2>17. ASSUME NEW w \in Worker, ExtractFails(w) PROVE UNCHANGED CrawlSpec!vars
    BY <2>0, <2>17, InsideLemma DEF ExtractFails, Goto, FoundPc, OpenPc
  <2>18. ASSUME NEW w \in Worker, BeginAddLinks(w) PROVE UNCHANGED CrawlSpec!vars
    BY <2>0, <2>18, InsideLemma DEF BeginAddLinks, Goto, FoundPc, OpenPc
  <2>19. ASSUME NEW w \in Worker, AddLink(w) PROVE CrawlSpec!Next \/ UNCHANGED CrawlSpec!vars
    BY <2>19, FindLemma
  <2>20. ASSUME NEW w \in Worker, RaceCrash(w) PROVE UNCHANGED CrawlSpec!vars
    <3>1. mainPc # "push"
      BY <2>20 DEF RaceCrash, Inductive, WorkCounted
    <3>2. QED BY <2>20, <3>1, InsideLemma DEF RaceCrash
  <2>21. ASSUME NEW w \in Worker, EndAddLinks(w) PROVE UNCHANGED CrawlSpec!vars
    BY <2>0, <2>21, InsideLemma DEF EndAddLinks, NotifyAll, FoundPc, OpenPc
  <2>22. ASSUME NEW w \in Worker, LogSize(w) PROVE UNCHANGED CrawlSpec!vars
    BY <2>0, <2>22, InsideLemma DEF LogSize, NotifyAll, FoundPc, OpenPc
  <2>23. CASE UNCHANGED vars
    BY <2>23, InsideLemma DEF vars
  <2>24. QED
    BY <2>1, <2>2, <2>3, <2>4, <2>5, <2>6, <2>7, <2>8, <2>9, <2>10, <2>11, <2>12,
       <2>13, <2>14, <2>15, <2>16, <2>17, <2>18, <2>19, <2>20, <2>21, <2>22, <2>23 DEF Next, Main, Step
<1>3. QED
  BY <1>1, <1>2, InductiveCorrect, PendingCorrect, PTL DEF Spec, RefinesCrawl, CrawlSpec!Spec

-----------------------------------------------------------------------------
(* What can be reached within a number of links.                           *)

\* Induction over the natural numbers, for a set of them.
LEMMA NatSet ==
  ASSUME NEW S, 0 \in S, \A n \in Nat : n \in S => n + 1 \in S
  PROVE  Nat \subseteq S
<1> SUFFICES ASSUME Nat \ S # {} PROVE FALSE
  OBVIOUS
<1> DEFINE R == {ss \in Nat \X Nat : ss[1] < ss[2]}
<1>1. IsWellFoundedOn(R, Nat)
  BY NatLessThanWellFounded DEF OpToRel
<1> HIDE DEF R
<1>2. PICK m \in Nat \ S : \A k \in Nat \ S : ~ (<<k, m>> \in R)
  BY <1>1, WFMin
<1>3. \A k \in Nat \ S : ~ (k < m)
  BY <1>2 DEF R
<1>4. m # 0 /\ m - 1 \in Nat /\ m - 1 < m
  OBVIOUS
<1>5. QED BY <1>3, <1>4

\* The recursive definition of Within has a solution: what can be reached in n
\* steps, each along a link or on the spot.
LEMMA WithinExists ==
  ASSUME NEW W \in [Url -> Seq(Url)]
  PROVE  \E g : g = [n \in Nat |-> IF n = 0 THEN {StartUrl}
                                   ELSE g[n-1] \cup UNION {Range(W[u]) : u \in g[n-1]}]
<1> DEFINE P(n) == {p \in [0..n -> Url] :
                      /\ p[0] = StartUrl
                      /\ \A i \in 1..n : p[i] = p[i-1] \/ p[i] \in Range(W[p[i-1]])}
           F(n) == {p[n] : p \in P(n)}
<1>1. F(0) = {StartUrl}
  <2>1. ASSUME NEW u \in F(0) PROVE u = StartUrl
    BY <2>1
  <2>2. StartUrl \in F(0)
    <3>1. [i \in 0..0 |-> StartUrl] \in P(0)
      BY UrlAssumption
    <3>2. [i \in 0..0 |-> StartUrl][0] = StartUrl
      OBVIOUS
    <3>3. QED BY <3>1, <3>2
  <2>3. QED BY <2>1, <2>2
<1>2. ASSUME NEW n \in Nat, n # 0
      PROVE  F(n) = F(n-1) \cup UNION {Range(W[u]) : u \in F(n-1)}
  <2>0. /\ n - 1 \in Nat /\ n - 1 \in 0..n /\ 0 \in 0..n-1 /\ n \in 0..n /\ n \in 1..n /\ n - 1 \in 0..n-1
        /\ \A i \in 1..n-1 : i \in 1..n /\ i \in 0..n-1 /\ i-1 \in 0..n-1
        /\ \A i \in 0..n-1 : i \in 0..n
        /\ \A i \in 1..n : i \in 1..n-1 \/ i = n
        /\ \A i \in 0..n : i \in 0..n-1 \/ i = n
    BY <1>2
  <2>1. ASSUME NEW p \in P(n)
        PROVE  p[n] \in F(n-1) \/ \E u \in F(n-1) : p[n] \in Range(W[u])
    <3> DEFINE q == [i \in 0..n-1 |-> p[i]]
    <3>0. p \in [0..n -> Url] /\ p[0] = StartUrl
          /\ \A i \in 1..n : p[i] = p[i-1] \/ p[i] \in Range(W[p[i-1]])
      OBVIOUS
    <3>a. q \in [0..n-1 -> Url] /\ \A i \in 0..n-1 : q[i] = p[i]
      BY <2>0, <3>0
    <3> HIDE DEF q
    <3>1. q \in P(n-1)
      BY <2>0, <3>0, <3>a
    <3>2. q[n-1] = p[n-1] /\ q[n-1] \in F(n-1)
      BY <2>0, <3>1, <3>a
    <3>3. p[n] = p[n-1] \/ p[n] \in Range(W[p[n-1]])
      BY <2>0
    <3>4. QED BY <3>2, <3>3
  <2>2. ASSUME NEW q \in P(n-1), NEW x, x = q[n-1] \/ x \in Range(W[q[n-1]])
        PROVE  x \in F(n)
    <3>0. q \in [0..n-1 -> Url] /\ q[0] = StartUrl
          /\ \A i \in 1..n-1 : q[i] = q[i-1] \/ q[i] \in Range(W[q[i-1]])
      OBVIOUS
    <3>1. x \in Url
      <4>1. q[n-1] \in Url
        BY <2>0, <3>0
      <4>2. \A y \in Range(W[q[n-1]]) : y \in Url
        BY <4>1 DEF Range
      <4>3. QED BY <2>2, <4>1, <4>2
    <3> DEFINE p == [i \in 0..n |-> IF i = n THEN x ELSE q[i]]
    <3>2. p \in [0..n -> Url] /\ p[n] = x /\ \A i \in 0..n-1 : p[i] = q[i]
      BY <2>0, <3>0, <3>1
    <3> HIDE DEF p
    <3>3. p[0] = StartUrl
      BY <2>0, <3>0, <3>2
    <3>4. ASSUME NEW i \in 1..n PROVE p[i] = p[i-1] \/ p[i] \in Range(W[p[i-1]])
      <4>1. CASE i = n
        BY <2>0, <2>2, <3>2, <4>1
      <4>2. CASE i \in 1..n-1
        <5>1. p[i] = q[i] /\ p[i-1] = q[i-1]
          BY <2>0, <3>2, <4>2
        <5>2. QED BY <3>0, <4>2, <5>1
      <4>3. QED BY <2>0, <4>1, <4>2
    <3>5. p \in P(n)
      BY <3>2, <3>3, <3>4
    <3>6. QED BY <3>2, <3>5
  <2>3. ASSUME NEW x \in F(n) PROVE x \in F(n-1) \cup UNION {Range(W[u]) : u \in F(n-1)}
    <3>1. PICK p \in P(n) : x = p[n]
      OBVIOUS
    <3>2. p[n] \in F(n-1) \/ \E u \in F(n-1) : p[n] \in Range(W[u])
      BY <2>1
    <3> HIDE DEF F, P
    <3>3. QED BY <3>1, <3>2
  <2>4. \A x \in F(n-1) \cup UNION {Range(W[u]) : u \in F(n-1)} : x \in F(n)
    BY <2>2
  <2> HIDE DEF F
  <2>5. QED BY <2>3, <2>4
<1> HIDE DEF F
<1> DEFINE g == [n \in Nat |-> F(n)]
<1>3. \A n \in Nat : n # 0 => g[n-1] = F(n-1)
  OBVIOUS
<1>4. g = [n \in Nat |-> IF n = 0 THEN {StartUrl} ELSE g[n-1] \cup UNION {Range(W[u]) : u \in g[n-1]}]
  BY <1>1, <1>2, <1>3
<1>5. QED BY <1>4

\* What is within n+1 links is within n, or is linked from there.
LEMMA WithinLemma ==
  TypeOK => /\ Within[0] = {StartUrl}
            /\ \A n \in Nat : Within[n+1] = Within[n] \cup UNION {Range(web[u]) : u \in Within[n]}
<1> SUFFICES ASSUME TypeOK
             PROVE  /\ Within[0] = {StartUrl}
                    /\ \A n \in Nat : Within[n+1] = Within[n] \cup UNION {Range(web[u]) : u \in Within[n]}
  OBVIOUS
<1>1. PICK g : g = [n \in Nat |-> IF n = 0 THEN {StartUrl}
                                  ELSE g[n-1] \cup UNION {Range(web[u]) : u \in g[n-1]}]
  BY WithinExists DEF TypeOK
<1>2. Within = [n \in Nat |-> IF n = 0 THEN {StartUrl}
                              ELSE Within[n-1] \cup UNION {Range(web[u]) : u \in Within[n-1]}]
  BY <1>1, Zenon DEF Within
<1>3. \A n \in Nat : n + 1 \in Nat /\ n + 1 # 0 /\ (n + 1) - 1 = n
  OBVIOUS
<1> HIDE DEF Within
<1>4. QED BY <1>2, <1>3

LEMMA WithinGrows ==
  TypeOK => \A n \in Nat : \A m \in 0..n : Within[m] \subseteq Within[n]
<1> SUFFICES ASSUME TypeOK
             PROVE  \A n \in Nat : \A m \in 0..n : Within[m] \subseteq Within[n]
  OBVIOUS
<1> DEFINE S == {n \in Nat : \A m \in 0..n : Within[m] \subseteq Within[n]}
<1>1. 0 \in S
  OBVIOUS
<1>2. ASSUME NEW n \in Nat, n \in S PROVE n + 1 \in S
  <2>1. Within[n] \subseteq Within[n+1]
    BY WithinLemma
  <2>2. \A m \in 0..n+1 : m \in 0..n \/ m = n+1
    OBVIOUS
  <2>3. QED BY <1>2, <2>1, <2>2
<1> HIDE DEF S
<1>3. Nat \subseteq S
  BY <1>1, <1>2, NatSet
<1>4. QED BY <1>3 DEF S

-----------------------------------------------------------------------------
(* What a step does to the tasks, and to the pages.                        *)

Start == [url |-> StartUrl, depth |-> 0]

\* Only Take gives a worker a task, and only run() and the links make one.
LEMMA HeldNext ==
  ASSUME TypeOK, [Next]_vars
  PROVE  \/ \E w \in Worker : Take(w)
         \/ /\ \A v \in Worker : pc'[v] \in BusyPc => pc[v] \in BusyPc /\ task'[v] = task[v]
            /\ taskQueue' = taskQueue \/ PushStart \/ \E w \in Worker : AddLink(w)
<1>0. /\ pc \in [Worker -> IdlePc \cup BusyPc] /\ task \in [Worker -> Task \cup {NoTask}]
      /\ pending \in [Worker -> Seq(Url)] /\ taskQueue \in Seq(Task)
  BY DEF TypeOK
<1> DEFINE Held == \A v \in Worker : pc'[v] \in BusyPc => pc[v] \in BusyPc /\ task'[v] = task[v]
<1>1. CASE PushStart
  BY <1>0, <1>1 DEF PushStart, NotifyAll, BusyPc
<1>2. ASSUME NEW w \in Worker, AddLink(w) PROVE Held
  BY <1>0, <1>2 DEF AddLink
<1>3. ASSUME NEW w \in Worker, Finish(w) \/ DropDuplicate(w) PROVE Held /\ taskQueue' = taskQueue
  BY <1>0, <1>3, LeaveLemma DEF Finish, DropDuplicate, BusyPc
<1>4. ASSUME NEW w \in Worker,
             \/ SpawnWorker(w) \/ Sleep(w) \/ SpuriousWake(w) \/ Exit(w)
             \/ CheckDepth(w) \/ LockVisited(w) \/ EndInsert(w)
      PROVE  Held /\ taskQueue' = taskQueue
  BY <1>0, <1>4 DEF SpawnWorker, Sleep, SpuriousWake, Exit, CheckDepth, LockVisited, EndInsert,
     BusyPc, Goto
<1>5. ASSUME NEW w \in Worker,
             \/ Fetch(w) \/ StoreDocument(w) \/ StoreWords(w) \/ ExtractFails(w)
             \/ BeginAddLinks(w) \/ RaceCrash(w) \/ EndAddLinks(w) \/ LogSize(w)
      PROVE  Held /\ taskQueue' = taskQueue
  BY <1>0, <1>5 DEF Fetch, StoreDocument, StoreWords, ExtractFails, BeginAddLinks, RaceCrash,
     EndAddLinks, LogSize, BusyPc, Goto, NotifyAll
<1>6. CASE SpawnFails \/ JoinAll \/ UNCHANGED vars
  BY <1>6 DEF SpawnFails, JoinAll, vars
<1>7. QED
  BY <1>1, <1>2, <1>3, <1>4, <1>5, <1>6 DEF Next, Main, Step

\* A set that holds every task, the first one and those the links make, holds
\* every task after the step.
LEMMA TasksNext ==
  ASSUME TypeOK, [Next]_vars, NEW T,
         \A i \in 1..Len(taskQueue) : taskQueue[i] \in T,
         \A w \in Worker : pc[w] \in BusyPc => task[w] \in T,
         mainPc = "push" => Start \in T,
         \A w \in Worker : pc[w] = "adding" /\ pending[w] # <<>>
           => [url |-> Head(pending[w]), depth |-> LinkDepth(task[w])] \in T
  PROVE  /\ \A i \in 1..Len(taskQueue') : taskQueue'[i] \in T
         /\ \A w \in Worker : pc'[w] \in BusyPc => task'[w] \in T
<1>0. /\ pc \in [Worker -> IdlePc \cup BusyPc] /\ task \in [Worker -> Task \cup {NoTask}]
      /\ pending \in [Worker -> Seq(Url)] /\ taskQueue \in Seq(Task)
  BY DEF TypeOK
<1>1. ASSUME NEW t \in Task, t \in T, taskQueue' = taskQueue \/ taskQueue' = Append(taskQueue, t)
      PROVE  \A i \in 1..Len(taskQueue') : taskQueue'[i] \in T
  <2>1. CASE taskQueue' = taskQueue
    BY <2>1
  <2>2. CASE taskQueue' = Append(taskQueue, t)
    BY <1>0, <1>1, <2>2, AppendLemma
  <2>3. QED BY <1>1, <2>1, <2>2
<1>2. CASE PushStart
  <2>1. Start \in T /\ Start \in Task /\ taskQueue' = Append(taskQueue, Start)
    BY <1>2, UrlAssumption DEF PushStart, Push, Start, Task
  <2>2. ~ \E w \in Worker : Take(w)
    BY <1>2, <2>1, <1>0, AppendLemma, HeadTailLemma DEF Take
  <2>3. QED BY <1>1, <2>1, <2>2, HeldNext
<1>3. ASSUME NEW w \in Worker, Take(w)
      PROVE  /\ \A i \in 1..Len(taskQueue') : taskQueue'[i] \in T
             /\ \A v \in Worker : pc'[v] \in BusyPc => task'[v] \in T
  <2>1. /\ Head(taskQueue) = taskQueue[1] /\ 1 \in 1..Len(taskQueue)
        /\ Len(Tail(taskQueue)) = Len(taskQueue) - 1
        /\ \A i \in 1..Len(Tail(taskQueue)) : Tail(taskQueue)[i] = taskQueue[i+1]
    BY <1>0, <1>3, HeadTailLemma DEF Take
  <2>2. \A i \in 1..Len(taskQueue') : taskQueue'[i] \in T
    BY <1>0, <1>3, <2>1 DEF Take
  <2>3. \A v \in Worker : pc'[v] \in BusyPc => task'[v] \in T
    BY <1>0, <1>3, <2>1 DEF Take, Goto
  <2>4. QED BY <2>2, <2>3
<1>4. ASSUME NEW w \in Worker, AddLink(w)
      PROVE  \A i \in 1..Len(taskQueue') : taskQueue'[i] \in T
  <2> DEFINE new == [url |-> Head(pending[w]), depth |-> LinkDepth(task[w])]
  <2>1. /\ pc[w] = "adding" /\ pending[w] # <<>>
        /\ taskQueue' = taskQueue \/ taskQueue' = Append(taskQueue, new)
    BY <1>4 DEF AddLink, Push
  <2>2. new \in T /\ new \in Task
    BY <1>0, <2>1, HeadTailLemma DEF TypeOK, BusyPc, Task, LinkDepth
  <2> HIDE DEF new
  <2>3. QED BY <1>1, <2>1, <2>2
<1>5. QED
  BY <1>2, <1>3, <1>4, HeldNext

\* A page is visited by the one worker that inserts it, and the web stays.
LEMMA VisitedNext ==
  ASSUME TypeOK, [Next]_vars
  PROVE  /\ web' = web
         /\ \/ visitedUrls' = visitedUrls
            \/ \E w \in Worker : /\ pc[w] = "insert" /\ pc'[w] = "fetch" /\ task'[w] = task[w]
                                 /\ visitedUrls' = visitedUrls \cup {task[w].url}
<1>1. ASSUME NEW w \in Worker, EndInsert(w)
      PROVE  /\ web' = web /\ pc[w] = "insert" /\ pc'[w] = "fetch" /\ task'[w] = task[w]
             /\ visitedUrls' = visitedUrls \cup {task[w].url}
  BY <1>1 DEF EndInsert, TypeOK, Goto
<1>2. CASE PushStart \/ SpawnFails \/ JoinAll \/ UNCHANGED vars
  BY <1>2 DEF PushStart, SpawnFails, JoinAll, vars
<1>3. ASSUME NEW w \in Worker, Step(w) \/ SpawnWorker(w) \/ SpuriousWake(w), ~EndInsert(w)
      PROVE  web' = web /\ visitedUrls' = visitedUrls
  BY <1>3 DEF Step, SpawnWorker, Sleep, SpuriousWake, Exit, Take, CheckDepth, LockVisited, Finish,
     DropDuplicate, Fetch, StoreDocument, StoreWords, ExtractFails, BeginAddLinks, AddLink,
     RaceCrash, EndAddLinks, LogSize
<1>4. QED
  BY <1>1, <1>2, <1>3 DEF Next, Main

-----------------------------------------------------------------------------
(* The spider never strays.                                                *)

\* A task is as many links away from the start page as its depth says.
Near(t) == t.url \in Within[t.depth]

Nearby ==
  /\ \A i \in 1..Len(taskQueue) : Near(taskQueue[i])
  /\ \A w \in Worker : pc[w] \in BusyPc => Near(task[w])

\* Whatever is visited can be reached in fewer links than recursion_depth,
\* whichever worker comes first to a page and by whatever way.
THEOREM StrayCorrect == Spec => []NothingDeeper
<1> DEFINE Inv == Nearby /\ NothingDeeper
<1>1. Init => Inv
  BY DEF Init, Nearby, NothingDeeper, BusyPc
<1>2. Inductive /\ PendingFromPage /\ Inv /\ [Next]_vars => Inv'
  <2> SUFFICES ASSUME Inductive, PendingFromPage, Inv, [Next]_vars PROVE Inv'
    OBVIOUS
  <2>0. /\ TypeOK /\ DepthBounded /\ taskQueue \in Seq(Task) /\ pending \in [Worker -> Seq(Url)]
        /\ \A w \in Worker : pc[w] \in BusyPc => task[w] \in Task
        /\ MaxDepth \in Nat /\ MaxDepth - 1 \in Nat
    BY DepthAssumption DEF Inductive, TypeOK
  <2>1. PICK T : T = {t \in Task : Near(t)}
    OBVIOUS
  <2>2. mainPc = "push" => Start \in T
    BY <2>0, <2>1, WithinLemma, UrlAssumption DEF Start, Near, Task
  <2>3. ASSUME NEW w \in Worker, pc[w] = "adding", pending[w] # <<>>
        PROVE  [url |-> Head(pending[w]), depth |-> LinkDepth(task[w])] \in T
    <3>1. task[w] \in Task /\ Near(task[w])
      BY <2>0, <2>3 DEF Nearby, BusyPc
    <3>2. Head(pending[w]) \in Range(web[task[w].url]) /\ Head(pending[w]) \in Url
      <4>1. pending[w] \in Seq(Url) /\ Range(pending[w]) \subseteq Range(web[task[w].url])
        BY <2>0, <2>3 DEF PendingFromPage
      <4>2. Head(pending[w]) \in Range(pending[w])
        BY <2>3, <4>1, RangeLemma
      <4>3. QED BY <2>3, <4>1, <4>2, HeadTailLemma
    <3>3. task[w].depth \in Nat /\ task[w].depth + 1 \in Nat
      BY <3>1 DEF Task
    <3>4. Head(pending[w]) \in Within[task[w].depth + 1]
      <4>1. task[w].url \in Within[task[w].depth]
        BY <3>1 DEF Near
      <4>2. Within[task[w].depth + 1] = Within[task[w].depth]
              \cup UNION {Range(web[u]) : u \in Within[task[w].depth]}
        BY <2>0, <3>3, WithinLemma
      <4> HIDE DEF Within
      <4>3. QED BY <3>2, <4>1, <4>2
    <3>5. QED BY <2>1, <3>2, <3>3, <3>4 DEF Near, Task, LinkDepth
  <2>4. /\ \A i \in 1..Len(taskQueue) : taskQueue[i] \in T
        /\ \A w \in Worker : pc[w] \in BusyPc => task[w] \in T
    BY <2>0, <2>1 DEF Nearby
  <2>5. /\ \A i \in 1..Len(taskQueue') : taskQueue'[i] \in T
        /\ \A w \in Worker : pc'[w] \in BusyPc => task'[w] \in T
    BY <2>0, <2>2, <2>3, <2>4, TasksNext
  <2>6. /\ web' = web
        /\ \/ visitedUrls' = visitedUrls
           \/ \E w \in Worker : pc[w] = "insert" /\ visitedUrls' = visitedUrls \cup {task[w].url}
    BY <2>0, VisitedNext
  <2>7. Within' = Within
    BY <2>6 DEF Within
  <2>8. Nearby'
    BY <2>1, <2>5, <2>7 DEF Nearby, Near
  <2>9. ASSUME NEW w \in Worker, pc[w] = "insert" PROVE task[w].url \in Within[MaxDepth - 1]
    <3>1. task[w] \in Task /\ Near(task[w]) /\ task[w].depth < MaxDepth
      BY <2>0, <2>9 DEF Nearby, DepthBounded, BusyPc
    <3>2. task[w].depth \in 0..MaxDepth - 1
      BY <2>0, <3>1 DEF Task
    <3>3. QED BY <2>0, <3>1, <3>2, WithinGrows DEF Near
  <2>10. NothingDeeper'
    BY <2>6, <2>7, <2>9 DEF NothingDeeper
  <2>11. QED BY <2>8, <2>10
<1>3. QED
  BY <1>1, <1>2, InductiveCorrect, PendingCorrect, PTL DEF Spec

-----------------------------------------------------------------------------
(* Coverage, at recursion depth 1 and 2.                                   *)

\* Without failures a worker that has a page stores it, and goes on to its
\* links if the page is above the last level.
LEMMA ProgressNext ==
  ASSUME TypeOK, Faults = {}, [Next]_vars
  PROVE  /\ indexed \subseteq indexed' /\ expanded \subseteq expanded'
         /\ \A w \in Worker :
              /\ pc[w] \in {"fetch", "document", "words", "extract"} => task'[w] = task[w]
              /\ pc[w] \in {"fetch", "document"} => pc'[w] \in {"fetch", "document", "words"}
              /\ pc[w] = "words" => \/ pc'[w] = "words"
                                    \/ /\ task[w].url \in indexed'
                                       /\ Follows(task[w]) => pc'[w] = "extract"
              /\ pc[w] = "extract" => pc'[w] = "extract" \/ task[w].url \in expanded'
<1>0. /\ pc \in [Worker -> IdlePc \cup BusyPc] /\ task \in [Worker -> Task \cup {NoTask}]
      /\ \A call \in FaultKind : ~MayFail(call)
  BY DEF TypeOK, MayFail
<1> DEFINE Same == /\ indexed' = indexed /\ expanded' = expanded
                   /\ \A v \in Worker : pc[v] \in {"fetch", "document", "words", "extract"}
                        => pc'[v] = pc[v] /\ task'[v] = task[v]
           Goal == /\ indexed \subseteq indexed' /\ expanded \subseteq expanded'
                   /\ \A w \in Worker :
                        /\ pc[w] \in {"fetch", "document", "words", "extract"} => task'[w] = task[w]
                        /\ pc[w] \in {"fetch", "document"} => pc'[w] \in {"fetch", "document", "words"}
                        /\ pc[w] = "words" => \/ pc'[w] = "words"
                                              \/ /\ task[w].url \in indexed'
                                                 /\ Follows(task[w]) => pc'[w] = "extract"
                        /\ pc[w] = "extract" => pc'[w] = "extract" \/ task[w].url \in expanded'
<1>1. Same => Goal
  OBVIOUS
<1>2. ASSUME NEW w \in Worker, Fetch(w) \/ StoreDocument(w) PROVE Goal
  BY <1>0, <1>2 DEF Fetch, StoreDocument, Goto, FaultKind, history
<1>3. ASSUME NEW w \in Worker, StoreWords(w) PROVE Goal
  BY <1>0, <1>3 DEF StoreWords, Goto, FaultKind, history
<1>4. ASSUME NEW w \in Worker, BeginAddLinks(w) PROVE Goal
  BY <1>0, <1>4 DEF BeginAddLinks, Goto
<1>5. ASSUME NEW w \in Worker, ExtractFails(w) PROVE FALSE
  BY <1>0, <1>5 DEF ExtractFails, FaultKind
<1>6. ASSUME NEW w \in Worker, Finish(w) \/ DropDuplicate(w) PROVE Same
  BY <1>0, <1>6, LeaveLemma DEF Finish, DropDuplicate, history
<1>7. ASSUME NEW w \in Worker,
             \/ SpawnWorker(w) \/ Sleep(w) \/ SpuriousWake(w) \/ Exit(w) \/ Take(w)
             \/ CheckDepth(w) \/ LockVisited(w) \/ EndInsert(w)
      PROVE  Same
  BY <1>0, <1>7 DEF SpawnWorker, Sleep, SpuriousWake, Exit, Take, CheckDepth, LockVisited, EndInsert,
     Goto, history
<1>8. ASSUME NEW w \in Worker, AddLink(w) \/ RaceCrash(w) \/ EndAddLinks(w) \/ LogSize(w)
      PROVE  Same
  BY <1>0, <1>8 DEF AddLink, RaceCrash, EndAddLinks, LogSize, NotifyAll, history
<1>9. ASSUME PushStart \/ SpawnFails \/ JoinAll \/ UNCHANGED vars PROVE Goal
  BY <1>0, <1>1, <1>9 DEF PushStart, SpawnFails, JoinAll, vars, history, NotifyAll
<1> HIDE DEF Same, Goal
<1>10. ASSUME NEW w \in Worker, Step(w) \/ SpawnWorker(w) \/ SpuriousWake(w) PROVE Goal
  BY <1>1, <1>2, <1>3, <1>4, <1>5, <1>6, <1>7, <1>8, <1>10 DEF Step
<1>11. Goal
  BY <1>9, <1>10 DEF Next, Main
<1>12. QED BY <1>11 DEF Goal

\* A worker leaves its loop when the stop flag is up, and run() joins them all.
ExitsLast ==
  /\ \A w \in Worker : pc[w] = "exited" => stopWorkers
  /\ mainPc = "returned" => \A w \in Worker : pc[w] = "exited"

LEMMA ExitsNext == TypeOK /\ ExitsLast /\ [Next]_vars => ExitsLast'
<1> SUFFICES ASSUME TypeOK, ExitsLast, [Next]_vars PROVE ExitsLast'
  OBVIOUS
<1>0. pc \in [Worker -> IdlePc \cup BusyPc]
  BY DEF TypeOK
<1> USE <1>0 DEF ExitsLast
<1>1. ASSUME NEW w \in Worker, Exit(w) PROVE ExitsLast'
  BY <1>1 DEF Exit, Goto
<1>2. ASSUME NEW w \in Worker, Finish(w) \/ DropDuplicate(w) PROVE ExitsLast'
  <2>1. /\ \A v \in Worker : pc'[v] = "exited" <=> pc[v] = "exited"
        /\ stopWorkers => stopWorkers'
    BY <1>2, LeaveLemma DEF Finish, DropDuplicate, Leave
  <2>2. mainPc' = mainPc
    BY <1>2 DEF Finish, DropDuplicate
  <2>3. QED BY <2>1, <2>2
<1>3. ASSUME NEW w \in Worker,
             \/ SpawnWorker(w) \/ Sleep(w) \/ SpuriousWake(w) \/ Take(w)
             \/ CheckDepth(w) \/ LockVisited(w) \/ EndInsert(w)
      PROVE  ExitsLast'
  BY <1>3 DEF SpawnWorker, Sleep, SpuriousWake, Take, CheckDepth, LockVisited, EndInsert, Goto
<1>4. ASSUME NEW w \in Worker,
             \/ Fetch(w) \/ StoreDocument(w) \/ StoreWords(w) \/ ExtractFails(w)
             \/ BeginAddLinks(w) \/ AddLink(w)
      PROVE  ExitsLast'
  BY <1>4 DEF Fetch, StoreDocument, StoreWords, ExtractFails, BeginAddLinks, AddLink, Goto
<1>5. ASSUME NEW w \in Worker, RaceCrash(w) \/ EndAddLinks(w) \/ LogSize(w) PROVE ExitsLast'
  BY <1>5 DEF RaceCrash, EndAddLinks, LogSize, NotifyAll
<1>6. CASE PushStart \/ SpawnFails \/ JoinAll \/ UNCHANGED vars
  BY <1>6 DEF PushStart, SpawnFails, JoinAll, vars, NotifyAll
<1>7. QED
  BY <1>1, <1>2, <1>3, <1>4, <1>5, <1>6 DEF Next, Main, Step

\* The start page comes first: as long as it was not visited nothing was, and
\* there is no other task.  Then it is stored, and its links are followed.
StartFirst ==
  /\ mainPc # "push" => Accounted(StartUrl)
  /\ StartUrl \notin visitedUrls => /\ visitedUrls = {}
                                    /\ \A i \in 1..Len(taskQueue) : taskQueue[i] = Start
                                    /\ \A w \in Worker : pc[w] \in BusyPc => task[w] = Start

StartFollowed ==
  StartUrl \in visitedUrls =>
    \/ StartUrl \in expanded
    \/ \E w \in Worker : pc[w] \in {"fetch", "document", "words", "extract"} /\ task[w] = Start

VisitedStored ==
  \A u \in visitedUrls :
    u \in indexed \/ \E w \in Worker : pc[w] \in {"fetch", "document", "words"} /\ task[w].url = u

LEMMA StartNext == Inductive /\ StartFirst /\ [Next]_vars => StartFirst'
<1> SUFFICES ASSUME Inductive, StartFirst, [Next]_vars PROVE StartFirst'
  OBVIOUS
<1>0. TypeOK /\ DepthBounded /\ VisitedMarks /\ WorkCounted
  BY DEF Inductive
<1>1. mainPc' # "push" => Accounted(StartUrl)'
  <2>1. CASE mainPc # "push"
    BY <1>0, <2>1, AccountedNext DEF StartFirst
  <2>2. CASE PushStart
    <3>1. taskQueue' = Append(taskQueue, Start) /\ Start \in Task /\ taskQueue \in Seq(Task)
      BY <1>0, <2>2, UrlAssumption DEF PushStart, Push, Start, Task, TypeOK
    <3>2. Len(taskQueue) + 1 \in 1..Len(taskQueue') /\ taskQueue'[Len(taskQueue) + 1] = Start
      BY <3>1, AppendLemma
    <3>3. QED BY <3>2 DEF Accounted, Start
  <2>3. CASE mainPc = "push" /\ ~PushStart
    <3>1. \A w \in Worker : pc[w] = "unborn"
      BY <1>0, <2>3 DEF WorkCounted
    <3>2. mainPc' = mainPc
      BY <2>3, <3>1 DEF Next, Main, Step, SpawnWorker, SpawnFails, JoinAll, Sleep, Exit, Take, Finish,
         CheckDepth, LockVisited, DropDuplicate, EndInsert, Fetch, StoreDocument, StoreWords,
         ExtractFails, BeginAddLinks, AddLink, RaceCrash, EndAddLinks, LogSize, SpuriousWake, vars
    <3>3. QED BY <2>3, <3>2
  <2>4. QED BY <2>1, <2>2, <2>3
<1>2. ASSUME StartUrl \notin visitedUrls'
      PROVE  /\ visitedUrls' = {}
             /\ \A i \in 1..Len(taskQueue') : taskQueue'[i] = Start
             /\ \A w \in Worker : pc'[w] \in BusyPc => task'[w] = Start
  <2>1. StartUrl \notin visitedUrls
    BY <1>0, <1>2, VisitedNext
  <2>2. /\ visitedUrls = {}
        /\ \A i \in 1..Len(taskQueue) : taskQueue[i] = Start
        /\ \A w \in Worker : pc[w] \in BusyPc => task[w] = Start
    BY <2>1 DEF StartFirst
  <2>3. \A w \in Worker : pc[w] # "adding"
    BY <1>0, <2>2 DEF VisitedMarks, ClaimedPc
  <2>4. PICK T : T = {Start}
    OBVIOUS
  <2>5. /\ \A i \in 1..Len(taskQueue') : taskQueue'[i] \in T
        /\ \A w \in Worker : pc'[w] \in BusyPc => task'[w] \in T
    BY <1>0, <2>2, <2>3, <2>4, TasksNext
  <2>6. visitedUrls' = {}
    <3>1. ASSUME NEW w \in Worker, pc[w] = "insert", visitedUrls' = visitedUrls \cup {task[w].url}
          PROVE  FALSE
      <4>1. task[w] = Start
        BY <2>2, <3>1 DEF BusyPc
      <4>2. QED BY <1>2, <3>1, <4>1 DEF Start
    <3>2. QED BY <1>0, <2>2, <3>1, VisitedNext
  <2>7. QED BY <2>4, <2>5, <2>6
<1>3. QED BY <1>1, <1>2 DEF StartFirst

LEMMA StoredNext ==
  TypeOK /\ Faults = {} /\ VisitedStored /\ [Next]_vars => VisitedStored'
<1> SUFFICES ASSUME TypeOK, Faults = {}, VisitedStored, [Next]_vars,
                    NEW u \in visitedUrls'
             PROVE  \/ u \in indexed'
                    \/ \E w \in Worker : pc'[w] \in {"fetch", "document", "words"} /\ task'[w].url = u
  BY DEF VisitedStored
<1>1. CASE u \in visitedUrls
  BY <1>1, ProgressNext DEF VisitedStored
<1>2. CASE u \notin visitedUrls
  BY <1>2, VisitedNext
<1>3. QED BY <1>1, <1>2

LEMMA FollowedNext ==
  Inductive /\ StartFirst /\ Faults = {} /\ MaxDepth = 2 /\ StartFollowed /\ [Next]_vars => StartFollowed'
<1> SUFFICES ASSUME Inductive, StartFirst, Faults = {}, MaxDepth = 2, StartFollowed, [Next]_vars,
                    StartUrl \in visitedUrls'
             PROVE  \/ StartUrl \in expanded'
                    \/ \E w \in Worker : /\ pc'[w] \in {"fetch", "document", "words", "extract"}
                                         /\ task'[w] = Start
  BY DEF StartFollowed
<1>0. TypeOK /\ Follows(Start) /\ Start.url = StartUrl
  BY DEF Inductive, Follows, Start
<1>1. CASE StartUrl \in visitedUrls
  <2>1. CASE StartUrl \in expanded
    BY <1>0, <2>1, ProgressNext
  <2>2. ASSUME NEW w \in Worker, pc[w] \in {"fetch", "document", "words", "extract"}, task[w] = Start
        PROVE  \/ StartUrl \in expanded'
               \/ pc'[w] \in {"fetch", "document", "words", "extract"} /\ task'[w] = Start
    BY <1>0, <2>2, ProgressNext
  <2>3. QED BY <1>1, <2>1, <2>2 DEF StartFollowed
<1>2. CASE StartUrl \notin visitedUrls
  <2>1. PICK w \in Worker : pc[w] = "insert" /\ pc'[w] = "fetch" /\ task'[w] = task[w]
    BY <1>0, <1>2, VisitedNext
  <2>2. task[w] = Start
    BY <1>2, <2>1 DEF StartFirst, BusyPc
  <2>3. QED BY <2>1, <2>2
<1>3. QED BY <1>1, <1>2

\* README.md:63, as far as it is true: a crawl of one or two levels in which
\* nothing fails has stored every page within the depth when run() returns, for
\* every number of workers and every web.  From three levels on a worker may
\* come to a page by a longer way first, and its links are not followed.
THEOREM CoveredCorrect == MaxDepth <= 2 => (Spec => []DepthCovered)
<1> SUFFICES ASSUME MaxDepth <= 2 PROVE Spec => []DepthCovered
  OBVIOUS
<1> DEFINE Inv == /\ ExitsLast /\ StartFirst
                  /\ Faults = {} => VisitedStored
                  /\ Faults = {} /\ MaxDepth = 2 => StartFollowed
<1>1. Init => Inv
  BY DEF Init, ExitsLast, StartFirst, VisitedStored, StartFollowed, BusyPc
<1>2. Inductive /\ Inv /\ [Next]_vars => Inv'
  <2>1. Inductive => TypeOK
    BY DEF Inductive
  <2>2. QED BY <2>1, ExitsNext, StartNext, StoredNext, FollowedNext
<1>3. Inductive /\ Inv => DepthCovered
  <2> SUFFICES ASSUME Inductive, Inv, mainPc = "returned", Faults = {}
               PROVE  Within[MaxDepth - 1] \subseteq indexed
    BY DEF DepthCovered
  <2>1. taskQueue = <<>> /\ \A w \in Worker : pc[w] \notin BusyPc
    BY WorkerAssumption DEF ExitsLast, Inductive, StopMeansNoWork, Busy
  <2>2. \A u : Accounted(u) => u \in visitedUrls
    BY <2>1 DEF Accounted, BusyPc
  <2>3. \A u \in visitedUrls : u \in indexed
    BY <2>1 DEF VisitedStored, BusyPc
  <2>4. StartUrl \in visitedUrls
    BY <2>2 DEF StartFirst
  <2>5. MaxDepth = 2 => \A l \in Range(web[StartUrl]) : l \in visitedUrls
    <3>1. MaxDepth = 2 => StartUrl \in expanded
      BY <2>1, <2>4 DEF StartFollowed, BusyPc
    <3>2. QED BY <2>1, <2>2, <3>1 DEF Inductive, NoLinkLost, BusyPc
  <2>6. MaxDepth = 1 \/ MaxDepth = 2
    BY DepthAssumption
  <2>7. Within[0] = {StartUrl} /\ Within[1] = {StartUrl} \cup Range(web[StartUrl])
    <3>1. TypeOK
      BY DEF Inductive
    <3>2. Within[0] = {StartUrl} /\ Within[0+1] = Within[0] \cup UNION {Range(web[u]) : u \in Within[0]}
      BY <3>1, WithinLemma
    <3>3. 0 + 1 = 1
      OBVIOUS
    <3> HIDE DEF Within
    <3>4. QED BY <3>2, <3>3
  <2>8. CASE MaxDepth = 1
    BY <2>3, <2>4, <2>7, <2>8
  <2>9. CASE MaxDepth = 2
    BY <2>3, <2>4, <2>5, <2>7, <2>9
  <2>10. QED BY <2>6, <2>8, <2>9
<1>4. QED
  BY <1>1, <1>2, <1>3, InductiveCorrect, PTL DEF Spec

-----------------------------------------------------------------------------
(* The unsynchronised lookup, at recursion depth 1 and 2.                  *)

FollowingPc == {"fetch", "document", "words", "extract"}

\* What a step does to the pages whose links are extracted.
LEMMA ExpandNext ==
  ASSUME TypeOK, [Next]_vars
  PROVE  /\ expanded' = expanded \/ \E w \in Worker : BeginAddLinks(w)
         /\ \A w \in Worker : pc'[w] \in FollowingPc =>
              (pc[w] \in FollowingPc \/ pc[w] = "insert") /\ task'[w] = task[w]
         /\ \A w \in Worker : pc'[w] = "adding" => pc[w] = "adding" \/ BeginAddLinks(w)
<1>0. pc \in [Worker -> IdlePc \cup BusyPc] /\ task \in [Worker -> Task \cup {NoTask}]
  BY DEF TypeOK
<1> DEFINE Goal == /\ expanded' = expanded \/ \E w \in Worker : BeginAddLinks(w)
                   /\ \A w \in Worker : pc'[w] \in FollowingPc =>
                        (pc[w] \in FollowingPc \/ pc[w] = "insert") /\ task'[w] = task[w]
                   /\ \A w \in Worker : pc'[w] = "adding" => pc[w] = "adding" \/ BeginAddLinks(w)
<1> USE DEF FollowingPc
<1>1. ASSUME NEW w \in Worker, BeginAddLinks(w) PROVE Goal
  <2>1. /\ task' = task /\ pc[w] = "extract" /\ pc'[w] = "adding"
        /\ \A v \in Worker \ {w} : pc'[v] = pc[v]
    BY <1>0, <1>1 DEF BeginAddLinks, Goto
  <2>2. QED BY <1>1, <2>1
<1>2. ASSUME NEW w \in Worker, Finish(w) \/ DropDuplicate(w) PROVE Goal
  BY <1>0, <1>2, LeaveLemma DEF Finish, DropDuplicate, history
<1>3. ASSUME NEW w \in Worker,
             \/ SpawnWorker(w) \/ Sleep(w) \/ SpuriousWake(w) \/ Exit(w) \/ Take(w)
             \/ CheckDepth(w) \/ LockVisited(w) \/ EndInsert(w)
      PROVE  Goal
  BY <1>0, <1>3 DEF SpawnWorker, Sleep, SpuriousWake, Exit, Take, CheckDepth, LockVisited, EndInsert,
     Goto, history
<1>4. ASSUME NEW w \in Worker,
             \/ Fetch(w) \/ StoreDocument(w) \/ StoreWords(w) \/ ExtractFails(w)
             \/ AddLink(w) \/ RaceCrash(w) \/ EndAddLinks(w) \/ LogSize(w)
      PROVE  Goal
  BY <1>0, <1>4 DEF Fetch, StoreDocument, StoreWords, ExtractFails, AddLink, RaceCrash,
     EndAddLinks, LogSize, Goto, NotifyAll, history
<1>5. ASSUME PushStart \/ SpawnFails \/ JoinAll \/ UNCHANGED vars PROVE Goal
  BY <1>0, <1>5 DEF PushStart, SpawnFails, JoinAll, vars, history, NotifyAll
<1> HIDE DEF Goal
<1>6. ASSUME NEW w \in Worker, Step(w) \/ SpawnWorker(w) \/ SpuriousWake(w) PROVE Goal
  BY <1>1, <1>2, <1>3, <1>4, <1>6 DEF Step
<1>7. Goal
  BY <1>5, <1>6 DEF Next, Main
<1>8. QED BY <1>7 DEF Goal

\* Only the start page is on the first level; a page is expanded once, by the
\* worker that holds it.
FirstLevel ==
  /\ \A i \in 1..Len(taskQueue) : taskQueue[i].depth = 0 => taskQueue[i] = Start
  /\ \A w \in Worker : pc[w] \in BusyPc /\ task[w].depth = 0 => task[w] = Start

ExpandedOnce ==
  /\ expanded \subseteq visitedUrls
  /\ \A w \in Worker : pc[w] \in FollowingPc => task[w].url \notin expanded
  /\ \A w \in Worker : pc[w] = "adding" => task[w].url \in expanded

\* Until the links of the start page are all queued there is one task only.
OneBusy == \A v, w \in Worker : pc[v] \in BusyPc /\ pc[w] \in BusyPc => v = w
Alone ==
  /\ StartUrl \notin expanded => OneBusy /\ (taskQueue = <<>> \/ (Len(taskQueue) = 1 /\ Busy = {}))
  /\ \A w \in Worker : pc[w] = "adding" => OneBusy

LEMMA FirstLevelNext == TypeOK /\ FirstLevel /\ [Next]_vars => FirstLevel'
<1> SUFFICES ASSUME TypeOK, FirstLevel, [Next]_vars PROVE FirstLevel'
  OBVIOUS
<1>1. PICK T : T = {t \in Task : t.depth = 0 => t = Start}
  OBVIOUS
<1>2. Start \in T
  BY <1>1, UrlAssumption DEF Start, Task
<1>3. ASSUME NEW w \in Worker, pc[w] = "adding", pending[w] # <<>>
      PROVE  [url |-> Head(pending[w]), depth |-> LinkDepth(task[w])] \in T
  <2>1. task[w].depth \in Nat /\ Head(pending[w]) \in Url
    BY <1>3, HeadTailLemma DEF TypeOK, BusyPc, Task
  <2>2. LinkDepth(task[w]) \in Nat /\ LinkDepth(task[w]) # 0
    BY <2>1 DEF LinkDepth
  <2>3. QED BY <1>1, <2>1, <2>2 DEF Task
<1>4. /\ \A i \in 1..Len(taskQueue) : taskQueue[i] \in T
      /\ \A w \in Worker : pc[w] \in BusyPc => task[w] \in T
  <2>1. \A i \in 1..Len(taskQueue) : taskQueue[i] \in Task
    BY DEF TypeOK
  <2>2. \A w \in Worker : pc[w] \in BusyPc => task[w] \in Task
    BY DEF TypeOK
  <2>3. \A i \in 1..Len(taskQueue) : taskQueue[i] \in T
    BY <2>1, <1>1 DEF FirstLevel
  <2>4. \A w \in Worker : pc[w] \in BusyPc => task[w] \in T
    BY <2>2, <1>1 DEF FirstLevel
  <2>5. QED BY <2>3, <2>4
<1>5. /\ \A i \in 1..Len(taskQueue') : taskQueue'[i] \in T
      /\ \A w \in Worker : pc'[w] \in BusyPc => task'[w] \in T
  BY <1>2, <1>3, <1>4, TasksNext
<1>6. QED BY <1>1, <1>5 DEF FirstLevel

LEMMA ExpandedNext == Inductive /\ ExpandedOnce /\ [Next]_vars => ExpandedOnce'
<1> SUFFICES ASSUME Inductive, ExpandedOnce, [Next]_vars PROVE ExpandedOnce'
  OBVIOUS
<1>0. /\ TypeOK /\ pc \in [Worker -> IdlePc \cup BusyPc]
      /\ VisitedMarks /\ FetchedOnce
  BY DEF Inductive, TypeOK
<1>1. visitedUrls \subseteq visitedUrls'
  BY <1>0, VisitedNext
<1>2. ASSUME NEW x \in Worker, BeginAddLinks(x) PROVE ExpandedOnce'
  <2>1. /\ expanded' = expanded \cup {task[x].url} /\ task' = task
        /\ pc[x] = "extract" /\ pc'[x] = "adding" /\ \A v \in Worker \ {x} : pc'[v] = pc[v]
    BY <1>0, <1>2 DEF BeginAddLinks, Goto
  <2>2. task[x].url \in visitedUrls
    BY <1>0, <2>1 DEF VisitedMarks, ClaimedPc
  <2>3. \A v \in Worker \ {x} : pc[v] \in FollowingPc => task[v].url # task[x].url
    BY <1>0, <2>1 DEF FetchedOnce, ClaimedPc, FollowingPc
  <2>4. QED BY <1>1, <2>1, <2>2, <2>3 DEF ExpandedOnce, FollowingPc
<1>3. CASE ~ \E x \in Worker : BeginAddLinks(x)
  <2>1. expanded' = expanded
    BY <1>0, <1>3, ExpandNext
  <2>2. ASSUME NEW w \in Worker, pc'[w] \in FollowingPc PROVE task'[w].url \notin expanded
    BY <1>0, <2>2, ExpandNext DEF ExpandedOnce, VisitedMarks
  <2>3. ASSUME NEW w \in Worker, pc'[w] = "adding" PROVE task'[w].url \in expanded
    <3>1. pc[w] = "adding"
      BY <1>0, <1>3, <2>3, ExpandNext
    <3>2. ~ \E v \in Worker : Take(v)
      BY <1>0, <3>1, WorkerAssumption DEF Take, Inductive, LocksHeld
    <3>3. task'[w] = task[w]
      BY <1>0, <2>3, <3>2, HeldNext DEF BusyPc
    <3>4. QED BY <3>1, <3>3 DEF ExpandedOnce
  <2>4. QED BY <1>1, <2>1, <2>2, <2>3 DEF ExpandedOnce
<1>4. QED BY <1>2, <1>3

LEMMA AloneNext ==
  Inductive /\ MaxDepth <= 2 /\ FirstLevel /\ ExpandedOnce /\ Alone /\ [Next]_vars => Alone'
<1> SUFFICES ASSUME Inductive, MaxDepth <= 2, FirstLevel, ExpandedOnce, Alone, [Next]_vars PROVE Alone'
  OBVIOUS
<1>0. /\ TypeOK /\ pc \in [Worker -> IdlePc \cup BusyPc] /\ taskQueue \in Seq(Task)
      /\ pending \in [Worker -> Seq(Url)] /\ LocksHeld /\ WorkCounted /\ Expanding
  BY DEF Inductive, TypeOK
<1>1. \A w \in Worker : pc[w] \in {"extract", "adding"} => task[w] = Start
  <2> SUFFICES ASSUME NEW w \in Worker, pc[w] \in {"extract", "adding"} PROVE task[w] = Start
    OBVIOUS
  <2>1. task[w] \in Task /\ task[w].depth + 1 < MaxDepth
    BY <1>0 DEF TypeOK, BusyPc, Expanding
  <2>2. task[w].depth = 0
    BY <2>1, DepthAssumption DEF Task
  <2>3. QED BY <2>2 DEF FirstLevel, BusyPc
<1>2. \A w \in Worker : pc[w] = "adding" => StartUrl \in expanded
  BY <1>1 DEF ExpandedOnce, Start
<1>3. \A w \in Worker : pc[w] = "extract" => StartUrl \notin expanded
  BY <1>1 DEF ExpandedOnce, Start, FollowingPc
<1>4. expanded \subseteq expanded'
  BY <1>0, ExpandNext DEF BeginAddLinks
<1>5. CASE \E w \in Worker : Take(w)
  <2>1. PICK x \in Worker : Take(x)
    BY <1>5
  <2>2. /\ taskQueue # <<>> /\ taskQueue' = Tail(taskQueue) /\ queueMutex = Free
        /\ pc'[x] = "depth" /\ \A v \in Worker \ {x} : pc'[v] = pc[v]
    BY <1>0, <2>1 DEF Take, Goto
  <2>3. \A w \in Worker : pc'[w] # "adding"
    BY <1>0, <2>2, WorkerAssumption DEF LocksHeld
  <2>4. ASSUME StartUrl \notin expanded' PROVE OneBusy' /\ taskQueue' = <<>>
    <3>1. Len(taskQueue) = 1 /\ Busy = {}
      BY <1>4, <2>2, <2>4 DEF Alone
    <3>2. Len(Tail(taskQueue)) = 0 /\ Tail(taskQueue) \in Seq(Task)
      BY <1>0, <2>2, <3>1, HeadTailLemma
    <3>3. taskQueue' = <<>>
      BY <2>2, <3>2
    <3>4. \A v \in Worker : pc'[v] \in BusyPc => v = x
      BY <2>2, <3>1 DEF Busy
    <3>5. QED BY <3>3, <3>4 DEF OneBusy
  <2>5. QED BY <2>3, <2>4 DEF Alone
<1>6. CASE ~ \E w \in Worker : Take(w)
  <2>1. \A v \in Worker : pc'[v] \in BusyPc => pc[v] \in BusyPc
    BY <1>0, <1>6, HeldNext
  <2>2. OneBusy => OneBusy'
    BY <2>1 DEF OneBusy
  <2>3. Busy = {} => Busy' = {}
    BY <2>1 DEF Busy
  <2>4. ASSUME NEW w \in Worker, pc'[w] = "adding" PROVE OneBusy'
    <3>1. pc[w] \in {"extract", "adding"}
      BY <1>0, <2>4, ExpandNext DEF BeginAddLinks
    <3>2. OneBusy
      BY <1>3, <3>1 DEF Alone
    <3>3. QED BY <2>2, <3>2
  <2>5. ASSUME StartUrl \notin expanded'
        PROVE  OneBusy' /\ (taskQueue' = <<>> \/ (Len(taskQueue') = 1 /\ Busy' = {}))
    <3>1. OneBusy /\ (taskQueue = <<>> \/ (Len(taskQueue) = 1 /\ Busy = {}))
      BY <1>4, <2>5 DEF Alone
    <3>2. CASE taskQueue' = taskQueue
      BY <2>2, <2>3, <3>1, <3>2
    <3>3. CASE PushStart
      <4>1. taskQueue = <<>> /\ Busy = {} /\ taskQueue' = Append(taskQueue, Start) /\ Start \in Task
        BY <1>0, <3>3, UrlAssumption DEF PushStart, Push, Start, WorkCounted, Busy, BusyPc, Task
      <4>2. Len(taskQueue') = 1
        BY <4>1
      <4>3. QED BY <2>2, <2>3, <3>1, <4>1, <4>2
    <3>4. ~ \E w \in Worker : AddLink(w)
      BY <1>2, <1>4, <2>5 DEF AddLink
    <3>5. QED BY <1>0, <1>6, <3>2, <3>3, <3>4, HeldNext
  <2>6. QED BY <2>4, <2>5 DEF Alone
<1>7. QED BY <1>5, <1>6

\* The lookup of visitedUrls without visitedMutex (Spider.cpp:148) meets no
\* insert as long as only the start page is expanded: the race needs a recursion
\* depth of three.
THEOREM SynchronisedCorrect == MaxDepth <= 2 => (Spec => []VisitedReadSynchronised)
<1> SUFFICES ASSUME MaxDepth <= 2 PROVE Spec => []VisitedReadSynchronised
  OBVIOUS
<1> DEFINE Inv == FirstLevel /\ ExpandedOnce /\ Alone
<1>1. Init => Inv
  BY DEF Init, FirstLevel, ExpandedOnce, Alone, OneBusy, Busy, BusyPc, FollowingPc
<1>2. Inductive /\ Inv /\ [Next]_vars => Inv'
  <2>1. Inductive => TypeOK
    BY DEF Inductive
  <2>2. QED BY <2>1, FirstLevelNext, ExpandedNext, AloneNext
<1>3. Inductive /\ Inv => VisitedReadSynchronised
  BY DEF Alone, OneBusy, BusyPc, VisitedReadSynchronised, BeingInserted
<1>4. QED
  BY <1>1, <1>2, <1>3, InductiveCorrect, PTL DEF Spec
=============================================================================
