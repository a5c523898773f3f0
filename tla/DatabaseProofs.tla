--------------------------- MODULE DatabaseProofs ---------------------------
(***************************************************************************)
(* The tables under one crawler, for every number of workers, pages,       *)
(* contents, words and failures: what is indexed for a page is what is     *)
(* stored for it, and Database implements SearchIndex.  Two workers of one *)
(* crawler never hold the same page; the rest follows the two transactions *)
(* of a page statement by statement.                                       *)
(*                                                                         *)
(* Then what a search answers: the relevance of a page is a sum over its   *)
(* rows, and the same as the sum over the words searched for.              *)
(***************************************************************************)
EXTENDS Database, FiniteSetTheorems, WellFoundedInduction, TLAPS

OneCrawler == \A v, w \in Writer : ProcessOf[v] = ProcessOf[w]

\* Behind the commit of insertDocument, and behind the DELETE of insertWords.
Past(w)      == pc[w] \in {"delete", "deleting", "words", "commitWords"}
Replacing(w) == pc[w] \in {"deleting", "words", "commitWords"}

\* S holds rows of url u for words of content c, one for each at most.
RowsFor(S, u, c) ==
  /\ IsFiniteSet(S)
  /\ \A r \in S : r.url = u /\ r.word \in WordsOf(c) /\ r.frequency = Index[c][r.word]
  /\ \A r, s \in S : r.word = s.word => r = s

\* ... and one for each word.
AllRowsFor(S, u, c) == RowsFor(S, u, c) /\ \A x \in WordsOf(c) : \E r \in S : r.word = x

\* TypeOK, without the answers, on which nothing here depends.
Typed ==
  /\ documents \in [Url -> Content \cup {NoDoc}]
  /\ words \subseteq Row
  /\ pc \in [Writer -> Pc]
  /\ job \in [Writer -> Job \cup {NoJob}]
  /\ \A w \in Writer : pc[w] = "idle" <=> job[w] = NoJob
  /\ target \in [Writer -> SUBSET Row] /\ inserted \in [Writer -> SUBSET Row]
  /\ txns \in Nat

Apart ==
  \A v, w \in Writer : v # w /\ job[v] # NoJob /\ job[w] # NoJob => job[v].url # job[w].url

\* What a worker has done of its page.
Writing(w) ==
  /\ Past(w) => documents[job[w].url] = job[w].content
  /\ Replacing(w) => target[w] = RowsOf(job[w].url)
  /\ pc[w] \in {"words", "commitWords"} => RowsFor(inserted[w], job[w].url, job[w].content)
  /\ pc[w] = "commitWords" => AllRowsFor(inserted[w], job[w].url, job[w].content)
  /\ pc[w] \notin {"words", "commitWords"} => inserted[w] = {}

CaughtUp(u) ==
  documents[u] # NoDoc /\ u \notin stale /\ (\A w \in Writer : Past(w) => job[w].url # u)
    => AllRowsFor(RowsOf(u), u, documents[u])

IInv ==
  /\ Typed
  /\ Apart
  /\ \A w \in Writer : Writing(w)
  /\ \A u \in Url : CaughtUp(u)

-----------------------------------------------------------------------------
\* RowsAre, of any rows.
WordsAre(S, c) ==
  /\ \A r \in S : Index[c][r.word] = r.frequency
  /\ {r.word : r \in S} = WordsOf(c)
  /\ Cardinality(S) = Cardinality(WordsOf(c))

\* Rows for all words of a content are as many as its words.
LEMMA RowsCounted ==
  ASSUME NEW S, NEW u \in Url, NEW c \in Content, AllRowsFor(S, u, c)
  PROVE  WordsAre(S, c)
<1> DEFINE f == [r \in S |-> r.word]
<1>1. /\ \A r \in S : Index[c][r.word] = r.frequency
      /\ {r.word : r \in S} = WordsOf(c)
  BY DEF AllRowsFor, RowsFor
<1>2. f \in Bijection(S, WordsOf(c))
  <2>1. f \in [S -> WordsOf(c)]
    BY <1>1
  <2>2. \A r, s \in S : f[r] = f[s] => r = s
    BY DEF AllRowsFor, RowsFor
  <2>3. \A x \in WordsOf(c) : \E r \in S : f[r] = x
    BY DEF AllRowsFor
  <2> QED
    BY <2>1, <2>2, <2>3, Zenon DEF Bijection, Injection, Surjection, IsInjective
<1>3. IsFiniteSet(S) /\ ExistsBijection(S, WordsOf(c))
  BY <1>2 DEF AllRowsFor, RowsFor, ExistsBijection
<1>4. Cardinality(WordsOf(c)) = Cardinality(S)
  BY <1>3, FS_Bijection
<1> QED
  BY <1>1, <1>4 DEF WordsAre

\* What a step of w leaves to the other workers.
Others(w) ==
  \A v \in Writer \ {w} :
    pc'[v] = pc[v] /\ job'[v] = job[v] /\ target'[v] = target[v] /\ inserted'[v] = inserted[v]

\* A worker whose page is left alone goes on as it was.
LEMMA OthersWriting ==
  ASSUME IInv, NEW w \in Writer, Others(w), NEW v \in Writer \ {w},
         \/ UNCHANGED <<documents, words>>
         \/ /\ job[w] # NoJob
            /\ \A u \in Url \ {job[w].url} : documents'[u] = documents[u] /\ RowsOf(u)' = RowsOf(u)
  PROVE  Writing(v)'
<1>1. /\ Writing(v)
      /\ pc'[v] = pc[v] /\ job'[v] = job[v] /\ target'[v] = target[v] /\ inserted'[v] = inserted[v]
  BY DEF IInv, Others
<1>2. Past(v) => job[v] # NoJob /\ job[v].url \in Url
  BY DEF IInv, Typed, Past, Job
<1>3. Past(v) => /\ documents'[job[v].url] = documents[job[v].url]
                 /\ RowsOf(job[v].url)' = RowsOf(job[v].url)
  BY <1>1, <1>2 DEF IInv, Apart, RowsOf
<1>4. Replacing(v) => Past(v)
  BY DEF Replacing, Past
<1>5. /\ Past(v)' <=> Past(v)
      /\ Replacing(v)' <=> Replacing(v)
  BY <1>1 DEF Past, Replacing
<1>6. Past(v)' => documents'[job'[v].url] = job'[v].content
  BY <1>1, <1>3, <1>5 DEF Writing
<1>7. Replacing(v)' => target'[v] = {r \in words' : r.url = job'[v].url}
  BY <1>1, <1>3, <1>4, <1>5 DEF Writing, RowsOf
<1>8. /\ pc'[v] \in {"words", "commitWords"}
           => RowsFor(inserted'[v], job'[v].url, job'[v].content)
      /\ pc'[v] = "commitWords" => AllRowsFor(inserted'[v], job'[v].url, job'[v].content)
      /\ pc'[v] \notin {"words", "commitWords"} => inserted'[v] = {}
  BY <1>1 DEF Writing
<1> QED
  BY <1>6, <1>7, <1>8 DEF Writing, RowsOf, RowsFor, AllRowsFor

\* The other pages are as they were.
LEMMA OthersCaughtUp ==
  ASSUME IInv, NEW w \in Writer, Others(w), NEW u \in Url,
         Past(w) => (Past(w)' /\ job'[w].url = job[w].url) \/ job[w].url # u,
         documents'[u] = documents[u], RowsOf(u)' = RowsOf(u), u \in stale => u \in stale'
  PROVE  CaughtUp(u)'
<1>1. CaughtUp(u)
  BY DEF IInv
<1>2. ASSUME NEW v \in Writer, Past(v), job[v].url = u
      PROVE  Past(v)' /\ job'[v].url = u
  BY <1>2 DEF Others, Past
<1>3. /\ documents'[u] # NoDoc /\ u \notin stale' /\ (\A v \in Writer : Past(v)' => job'[v].url # u)
           => AllRowsFor(RowsOf(u), u, documents[u])
  BY <1>1, <1>2 DEF CaughtUp
<1> QED
  BY <1>3 DEF CaughtUp, AllRowsFor, RowsFor

\* A statement of w that changes no table and does not end its job.
LEMMA StatementStep ==
  ASSUME IInv, NEW w \in Writer, Others(w), UNCHANGED <<documents, words, stale, job>>,
         Typed', Writing(w)', Past(w) => Past(w)'
  PROVE  IInv'
<1>1. Apart'
  BY DEF IInv, Apart
<1>2. ASSUME NEW v \in Writer PROVE Writing(v)'
  <2>1. CASE v = w
    BY <2>1
  <2>2. CASE v # w
    BY <2>2, OthersWriting
  <2> QED
    BY <2>1, <2>2
<1>3. ASSUME NEW u \in Url PROVE CaughtUp(u)'
  BY OthersCaughtUp DEF RowsOf
<1> QED
  BY <1>1, <1>2, <1>3 DEF IInv

\* The job of w ends.
LEMMA EndStep ==
  ASSUME IInv, NEW w \in Writer, pc[w] # "idle", EndJob(w),
         documents' \in [Url -> Content \cup {NoDoc}], words' \subseteq Row, txns' = txns,
         \A u \in Url \ {job[w].url} : /\ documents'[u] = documents[u] /\ RowsOf(u)' = RowsOf(u)
                                       /\ u \in stale => u \in stale',
         \A u \in Url : u = job[w].url => CaughtUp(u)'
  PROVE  IInv'
<1>1. /\ pc' = [pc EXCEPT ![w] = "idle"] /\ job' = [job EXCEPT ![w] = NoJob]
      /\ target' = [target EXCEPT ![w] = {}] /\ inserted' = [inserted EXCEPT ![w] = {}]
  BY DEF EndJob, Goto
<1>2. Typed'
  BY <1>1 DEF IInv, Typed, Pc
<1>3. Others(w) /\ pc'[w] = "idle" /\ job'[w] = NoJob /\ inserted'[w] = {}
  BY <1>1 DEF IInv, Typed, Others
<1>4. Apart'
  BY <1>1 DEF IInv, Apart, Typed
<1>5. job[w] # NoJob
  BY DEF IInv, Typed
<1>6. ASSUME NEW v \in Writer PROVE Writing(v)'
  <2>1. CASE v = w
    BY <1>3, <2>1 DEF Writing, Past, Replacing
  <2>2. CASE v # w
    BY <1>3, <1>5, <2>2, OthersWriting
  <2> QED
    BY <2>1, <2>2
<1>7. ASSUME NEW u \in Url PROVE CaughtUp(u)'
  <2>1. CASE u = job[w].url
    BY <2>1
  <2>2. CASE u # job[w].url
    BY <1>3, <2>2, OthersCaughtUp
  <2> QED
    BY <2>1, <2>2
<1> QED
  BY <1>2, <1>4, <1>6, <1>7 DEF IInv

-----------------------------------------------------------------------------
(* The actions.                                                            *)

LEMMA BeginStep ==
  ASSUME OneCrawler, IInv, NEW w \in Writer, NEW u \in Url, NEW c \in Content, Begin(w, u, c)
  PROVE  IInv'
<1>1. /\ pc[w] = "idle" /\ job[w] = NoJob
      /\ pc' = [pc EXCEPT ![w] = "select"]
      /\ job' = [job EXCEPT ![w] = [url |-> u, content |-> c]]
      /\ UNCHANGED <<documents, words, target, inserted, txns, stale>>
  BY DEF Begin, Goto, tables, history, IInv, Typed
<1>2. [url |-> u, content |-> c] \in Job /\ [url |-> u, content |-> c] # NoJob
  BY NoJobAssumption DEF Job
<1>3. Typed'
  BY <1>1, <1>2 DEF IInv, Typed, Pc
<1>4. /\ Others(w) /\ pc'[w] = "select" /\ inserted'[w] = {}
      /\ job'[w] # NoJob /\ job'[w].url = u
  BY <1>1, <1>2 DEF IInv, Typed, Others, Writing
<1>5. \A v \in Writer \ {w} : job'[v] # NoJob => job'[v].url # u
  BY <1>4 DEF Begin, OneCrawler, Others
<1>6. Apart'
  BY <1>4, <1>5 DEF IInv, Apart, Others
<1>7. ASSUME NEW v \in Writer PROVE Writing(v)'
  <2>1. CASE v = w
    BY <1>4, <2>1 DEF Writing, Past, Replacing
  <2>2. CASE v # w
    BY <1>1, <1>4, <2>2, OthersWriting
  <2> QED
    BY <2>1, <2>2
<1>8. ASSUME NEW x \in Url PROVE CaughtUp(x)'
  <2>1. ~Past(w)
    BY <1>1 DEF Past
  <2> QED
    BY <1>1, <1>4, <2>1, OthersCaughtUp DEF RowsOf
<1> QED
  BY <1>3, <1>6, <1>7, <1>8 DEF IInv

\* SELECT, UPDATE and INSERT of insertDocument.
LEMMA DocumentStep ==
  ASSUME IInv, NEW w \in Writer, Select(w) \/ Update(w) \/ Insert(w)
  PROVE  IInv'
<1>1. /\ pc[w] \in {"select", "update", "insert"}
      /\ \E l \in {"update", "insert", "commitDocument"} : pc' = [pc EXCEPT ![w] = l]
      /\ UNCHANGED <<documents, words, job, target, inserted, txns, stale>>
  BY DEF Select, Update, Insert, Goto, tables, history
<1>2. Typed'
  BY <1>1 DEF IInv, Typed, Pc
<1>3. Others(w) /\ pc'[w] \in {"update", "insert", "commitDocument"} /\ inserted'[w] = {}
  BY <1>1 DEF IInv, Typed, Others, Writing
<1>4. Writing(w)' /\ ~Past(w)
  BY <1>1, <1>3 DEF Writing, Past, Replacing
<1> QED
  BY <1>1, <1>2, <1>3, <1>4, StatementStep

\* The page is stored by w, and its words are still the old ones.
LEMMA StoredLemma ==
  ASSUME IInv, NEW w \in Writer, pc[w] = "commitDocument", StoreDocument(w)
  PROVE  /\ job[w] # NoJob /\ job[w].url \in Url /\ job[w].content \in Content
         /\ documents' \in [Url -> Content \cup {NoDoc}]
         /\ documents'[job[w].url] = job[w].content
         /\ \A u \in Url \ {job[w].url} : documents'[u] = documents[u]
BY DEF IInv, Typed, StoreDocument, Job

LEMMA CommitDocumentStep ==
  ASSUME IInv, NEW w \in Writer, CommitDocument(w)
  PROVE  IInv'
<1>1. /\ pc[w] = "commitDocument" /\ pc' = [pc EXCEPT ![w] = "delete"]
      /\ UNCHANGED <<words, job, target, inserted, txns, stale>>
      /\ StoreDocument(w)
  BY DEF CommitDocument, Goto
<1>2. /\ job[w] # NoJob /\ job[w].url \in Url
      /\ documents' \in [Url -> Content \cup {NoDoc}]
      /\ documents'[job[w].url] = job[w].content
      /\ \A u \in Url \ {job[w].url} : documents'[u] = documents[u]
  BY <1>1, StoredLemma
<1>3. Typed'
  BY <1>1, <1>2 DEF IInv, Typed, Pc
<1>4. Others(w) /\ pc'[w] = "delete" /\ inserted'[w] = {}
  BY <1>1 DEF IInv, Typed, Others, Writing
<1>5. Apart'
  BY <1>1 DEF IInv, Apart
<1>6. \A u \in Url : RowsOf(u)' = RowsOf(u)
  BY <1>1 DEF RowsOf
<1>7. ASSUME NEW v \in Writer PROVE Writing(v)'
  <2>1. CASE v = w
    BY <1>1, <1>2, <1>4, <2>1 DEF Writing, Past, Replacing
  <2>2. CASE v # w
    BY <1>2, <1>4, <1>6, <2>2, OthersWriting
  <2> QED
    BY <2>1, <2>2
<1>8. ASSUME NEW u \in Url PROVE CaughtUp(u)'
  <2>1. CASE u = job[w].url
    BY <1>1, <1>4, <2>1 DEF CaughtUp, Past
  <2>2. CASE u # job[w].url
    BY <1>1, <1>2, <1>4, <1>6, <2>2, OthersCaughtUp
  <2> QED
    BY <2>1, <2>2
<1> QED
  BY <1>3, <1>5, <1>7, <1>8 DEF IInv

\* The DELETE, whether it finds the rows or has waited for those who delete some.
LEMMA DeleteStep ==
  ASSUME IInv, NEW w \in Writer, FindOldWords(w) \/ DeleteOldWords(w)
  PROVE  IInv'
<1>1. UNCHANGED <<documents, words, job, inserted, stale>>
  BY DEF FindOldWords, DeleteOldWords, tables, history
<1>2. Past(w) /\ inserted[w] = {} /\ job[w] # NoJob
  BY DEF FindOldWords, DeleteOldWords, Past, IInv, Writing, Typed
<1>3. CASE FindOldWords(w)
  <2>1. /\ pc' = [pc EXCEPT ![w] = "deleting"] /\ txns' = txns + 1
        /\ target' = [target EXCEPT ![w] = RowsOf(job[w].url)]
    BY <1>3 DEF FindOldWords, Goto
  <2>2. RowsOf(job[w].url) \subseteq Row
    BY DEF RowsOf, IInv, Typed
  <2>3. Typed'
    BY <1>1, <1>2, <2>1, <2>2 DEF IInv, Typed, Pc, Past
  <2>4. Others(w) /\ pc'[w] = "deleting" /\ target'[w] = RowsOf(job[w].url)
    BY <1>1, <2>1 DEF IInv, Typed, Others
  <2>5. Writing(w)'
    BY <1>1, <1>2, <2>4 DEF IInv, Writing, Past, Replacing, RowsOf
  <2> QED
    BY <1>1, <2>3, <2>4, <2>5, StatementStep DEF Past
<1>4. CASE DeleteOldWords(w)
  <2>1. /\ pc[w] = "deleting" /\ pc' = [pc EXCEPT ![w] = "words"]
        /\ UNCHANGED <<target, txns>>
    BY <1>4 DEF DeleteOldWords, Goto
  <2>2. Typed'
    BY <1>1, <1>2, <2>1 DEF IInv, Typed, Pc
  <2>3. Others(w) /\ pc'[w] = "words"
    BY <1>1, <2>1 DEF IInv, Typed, Others
  <2>4. RowsFor({}, job[w].url, job[w].content)
    BY FS_EmptySet DEF RowsFor
  <2>5. Writing(w)'
    BY <1>1, <1>2, <2>1, <2>3, <2>4 DEF IInv, Writing, Past, Replacing, RowsOf, RowsFor, AllRowsFor
  <2> QED
    BY <1>1, <2>2, <2>3, <2>5, StatementStep DEF Past
<1> QED
  BY <1>3, <1>4

\* One row more, of a word that had none.
LEMMA InsertWordStep ==
  ASSUME IInv, NEW w \in Writer, NEW x \in Word, InsertWord(w, x)
  PROVE  IInv'
<1> DEFINE u == job[w].url
           c == job[w].content
           row == [txn |-> txns, url |-> u, word |-> x, frequency |-> Index[c][x]]
           S == inserted[w]
<1>1. /\ pc[w] = "words" /\ x \in Missing(w)
      /\ inserted' = [inserted EXCEPT ![w] = @ \cup {row}]
      /\ UNCHANGED <<documents, words, pc, job, target, txns, stale>>
  BY DEF InsertWord, tables, history
<1>2. job[w] # NoJob /\ u \in Url /\ c \in Content
  BY <1>1 DEF IInv, Typed, Job
<1>3. row \in Row
  BY <1>2, IndexAssumption DEF Row, IInv, Typed
<1>4. Typed'
  BY <1>1, <1>3 DEF IInv, Typed
<1>5. Others(w) /\ inserted'[w] = S \cup {row}
  BY <1>1 DEF IInv, Typed, Others
<1>6. x \in WordsOf(c) /\ \A r \in S : r.word # x
  BY <1>1 DEF Missing
<1>7. row.url = u /\ row.word = x /\ row.frequency = Index[c][x]
  OBVIOUS
<1>8. RowsFor(S, u, c)
  BY <1>1 DEF IInv, Writing
<1>9. IsFiniteSet(S \cup {row})
  BY <1>8, FS_AddElement DEF RowsFor
<1> HIDE DEF row
<1>10. RowsFor(S \cup {row}, u, c)
  BY <1>6, <1>7, <1>8, <1>9 DEF RowsFor
<1>11. Writing(w)'
  BY <1>1, <1>5, <1>10 DEF IInv, Writing, Past, Replacing, RowsOf, RowsFor
<1> QED
  BY <1>1, <1>4, <1>5, <1>11, StatementStep DEF Past

LEMMA EndInsertsStep ==
  ASSUME IInv, NEW w \in Writer, EndInserts(w)
  PROVE  IInv'
<1>1. /\ pc[w] = "words" /\ Missing(w) = {} /\ pc' = [pc EXCEPT ![w] = "commitWords"]
      /\ UNCHANGED <<documents, words, job, target, inserted, txns, stale>>
  BY DEF EndInserts, Goto, tables, history
<1>2. Typed'
  BY <1>1 DEF IInv, Typed, Pc
<1>3. Others(w) /\ pc'[w] = "commitWords"
  BY <1>1 DEF IInv, Typed, Others
<1>4. AllRowsFor(inserted[w], job[w].url, job[w].content)
  BY <1>1 DEF IInv, Writing, AllRowsFor, Missing
<1>5. Writing(w)'
  BY <1>1, <1>3, <1>4 DEF IInv, Writing, Past, Replacing, RowsOf, RowsFor, AllRowsFor
<1> QED
  BY <1>1, <1>2, <1>3, <1>5, StatementStep DEF Past

\* The commit of insertWords exchanges the rows of the page, and of no other.
LEMMA ReplaceLemma ==
  ASSUME IInv, NEW w \in Writer, pc[w] = "commitWords", ReplaceWords(w)
  PROVE  /\ job[w] # NoJob /\ job[w].url \in Url /\ job[w].content \in Content
         /\ documents[job[w].url] = job[w].content
         /\ words' \subseteq Row
         /\ {r \in words' : r.url = job[w].url} = inserted[w]
         /\ AllRowsFor(inserted[w], job[w].url, job[w].content)
         /\ \A u \in Url \ {job[w].url} : RowsOf(u)' = RowsOf(u)
<1>1. job[w] # NoJob /\ job[w].url \in Url /\ job[w].content \in Content
  BY DEF IInv, Typed, Job
<1>2. /\ documents[job[w].url] = job[w].content
      /\ target[w] = RowsOf(job[w].url)
      /\ AllRowsFor(inserted[w], job[w].url, job[w].content)
  BY DEF IInv, Writing, Past, Replacing
<1>3. words' = (words \ RowsOf(job[w].url)) \cup inserted[w]
  BY <1>2 DEF ReplaceWords
<1>4. \A r \in inserted[w] : r.url = job[w].url
  BY <1>2 DEF AllRowsFor, RowsFor
<1>5. words \subseteq Row /\ inserted[w] \subseteq Row
  BY DEF IInv, Typed
<1>6. {r \in words' : r.url = job[w].url} = inserted[w]
  BY <1>3, <1>4 DEF RowsOf
<1>7. \A u \in Url \ {job[w].url} : RowsOf(u)' = RowsOf(u)
  BY <1>3, <1>4 DEF RowsOf
<1> QED
  BY <1>1, <1>2, <1>3, <1>5, <1>6, <1>7

\* COMMIT of insertWords, whether its answer arrives or not.
LEMMA CommitWordsStep ==
  ASSUME IInv, NEW w \in Writer, pc[w] = "commitWords", ReplaceWords(w), EndJob(w),
         UNCHANGED <<documents, txns>>
  PROVE  IInv'
<1>1. /\ job[w].url \in Url
      /\ documents[job[w].url] = job[w].content
      /\ words' \subseteq Row
      /\ {r \in words' : r.url = job[w].url} = inserted[w]
      /\ AllRowsFor(inserted[w], job[w].url, job[w].content)
      /\ \A u \in Url \ {job[w].url} : RowsOf(u)' = RowsOf(u)
  BY ReplaceLemma
<1>2. ASSUME NEW u \in Url, u = job[w].url PROVE CaughtUp(u)'
  BY <1>1, <1>2 DEF CaughtUp, RowsOf, AllRowsFor, RowsFor
<1>3. \A u \in Url \ {job[w].url} : u \in stale => u \in stale'
  BY DEF ReplaceWords
<1>4. documents' \in [Url -> Content \cup {NoDoc}]
  BY DEF IInv, Typed
<1> QED
  BY <1>1, <1>2, <1>3, <1>4, EndStep

\* The worker gives up its page: with every kind of failure a page whose content
\* is stored and whose words are not is stale.
LEMMA GiveUpStep ==
  ASSUME IInv, NEW w \in Writer, Refused(w) \/ Rollback(w)
  PROVE  IInv'
<1>1. /\ pc[w] # "idle" /\ EndJob(w)
      /\ UNCHANGED <<documents, words, txns>>
      /\ stale' = Lagging(w)
  BY DEF Refused, Rollback, Lagging, tables, history
<1>2. stale \subseteq stale' /\ (Past(w) => job[w].url \in stale')
  BY <1>1 DEF Lagging, Past
<1>3. job[w] # NoJob /\ Others(w)
  BY <1>1 DEF IInv, Typed, EndJob, Goto, Others
<1>4. ASSUME NEW u \in Url, u = job[w].url PROVE CaughtUp(u)'
  <2>1. CASE Past(w)
    BY <1>2, <1>4, <2>1 DEF CaughtUp
  <2>2. CASE ~Past(w)
    BY <1>1, <1>2, <1>3, <2>2, OthersCaughtUp DEF RowsOf
  <2> QED
    BY <2>1, <2>2
<1>5. documents' \in [Url -> Content \cup {NoDoc}] /\ words' \subseteq Row
  BY <1>1 DEF IInv, Typed
<1>6. \A u \in Url : documents'[u] = documents[u] /\ RowsOf(u)' = RowsOf(u)
  BY <1>1 DEF RowsOf
<1> QED
  BY <1>1, <1>2, <1>4, <1>5, <1>6, EndStep

LEMMA LostCommitStep ==
  ASSUME IInv, NEW w \in Writer, LostCommit(w)
  PROVE  IInv'
<1>1. CASE pc[w] = "commitDocument"
  <2>1. /\ StoreDocument(w) /\ EndJob(w) /\ words' = words /\ txns' = txns
        /\ stale' = stale \cup {job[w].url}
    BY <1>1 DEF LostCommit
  <2>2. /\ documents' \in [Url -> Content \cup {NoDoc}]
        /\ \A u \in Url \ {job[w].url} : documents'[u] = documents[u]
    BY <1>1, <2>1, StoredLemma
  <2>3. \A u \in Url : u = job[w].url => CaughtUp(u)'
    BY <2>1 DEF CaughtUp
  <2>4. words' \subseteq Row /\ \A u \in Url : RowsOf(u)' = RowsOf(u)
    BY <2>1 DEF IInv, Typed, RowsOf
  <2> QED
    BY <1>1, <2>1, <2>2, <2>3, <2>4, EndStep
<1>2. CASE pc[w] # "commitDocument"
  <2>1. /\ pc[w] = "commitWords" /\ ReplaceWords(w) /\ EndJob(w)
        /\ UNCHANGED <<documents, txns>>
    BY <1>2 DEF LostCommit
  <2> QED
    BY <2>1, CommitWordsStep
<1> QED
  BY <1>1, <1>2

\* What changes none of this, a search above all.
LEMMA QuietStep ==
  ASSUME IInv, UNCHANGED <<documents, words, pc, job, target, inserted, txns, stale>>
  PROVE  IInv'
<1>1. Typed' /\ Apart'
  BY DEF IInv, Typed, Apart
<1>2. \A w \in Writer : Writing(w)'
  BY DEF IInv, Writing, Past, Replacing, RowsOf, RowsFor, AllRowsFor
<1>3. \A u \in Url : CaughtUp(u)'
  BY DEF IInv, CaughtUp, Past, RowsOf, RowsFor, AllRowsFor
<1> QED
  BY <1>1, <1>2, <1>3 DEF IInv

-----------------------------------------------------------------------------
LEMMA InitIInv == Init => IInv
<1> SUFFICES ASSUME Init PROVE IInv
  OBVIOUS
<1>1. Typed
  BY DEF Init, Typed, Pc
<1>2. Apart /\ \A w \in Writer : Writing(w)
  BY DEF Init, Apart, Writing, Past, Replacing
<1>3. \A u \in Url : CaughtUp(u)
  BY DEF Init, CaughtUp
<1> QED
  BY <1>1, <1>2, <1>3 DEF IInv

LEMMA NextIInv ==
  ASSUME OneCrawler, IInv, [Next]_vars
  PROVE  IInv'
<1>1. ASSUME NEW w \in Writer, Work(w) PROVE IInv'
  <2>1. CASE CommitWords(w)
    BY <2>1, CommitWordsStep DEF CommitWords
  <2> QED
    BY <1>1, <2>1, DocumentStep, GiveUpStep, CommitDocumentStep, DeleteStep, InsertWordStep,
       EndInsertsStep DEF Work
<1>2. ASSUME NEW w \in Writer, Rollback(w) \/ LostCommit(w) PROVE IInv'
  BY <1>2, GiveUpStep, LostCommitStep
<1>3. ASSUME NEW w \in Writer, NEW u \in Url, NEW c \in Content, Begin(w, u, c) PROVE IInv'
  BY <1>3, BeginStep
<1>4. ASSUME NEW q \in Queries, Search(q) \/ SearchFails(q) PROVE IInv'
  BY <1>4, QuietStep DEF Search, SearchFails, tables, history
<1>5. CASE UNCHANGED vars
  BY <1>5, QuietStep DEF vars
<1> QED
  BY <1>1, <1>2, <1>3, <1>4, <1>5 DEF Next

\* The inductive invariant: no two workers hold one page, and each has done of
\* its page what its place in the two transactions says.
THEOREM InductiveCorrect == ASSUME OneCrawler PROVE Spec => []IInv
<1>1. IInv /\ [Next]_vars => IInv'
  BY NextIInv
<1> QED
  BY InitIInv, <1>1, PTL DEF Spec

\* A page that nobody is writing and whose last write went through is found by
\* exactly the words of the content stored for it.
THEOREM IndexCorrect == ASSUME OneCrawler PROVE Spec => []IndexCaughtUp
<1>1. IInv => IndexCaughtUp
  <2> SUFFICES ASSUME IInv, NEW u \in Url, documents[u] # NoDoc, u \notin stale,
                      \A w \in Writer : job[w] # NoJob => job[w].url # u
               PROVE  RowsAre(u, documents[u])
    BY DEF IndexCaughtUp
  <2>1. \A w \in Writer : Past(w) => job[w].url # u
    BY DEF IInv, Typed, Past
  <2>2. AllRowsFor(RowsOf(u), u, documents[u])
    BY <2>1 DEF IInv, CaughtUp
  <2>3. documents[u] \in Content
    BY DEF IInv, Typed
  <2> QED
    BY <2>2, <2>3, RowsCounted DEF WordsAre, RowsAre
<1> QED
  BY <1>1, InductiveCorrect, PTL

-----------------------------------------------------------------------------
(* The tables implement SearchIndex.                                       *)

\* Each content has words, and no two contents have the same ones as often:
\* otherwise the rows of a page do not tell which content they are of.
ContentsTold ==
  \A c, d \in Content : WordsOf(c) # {} /\ (Index[c] = Index[d] => c = d)

\* IndexedContent, of any rows.
IndexedOf(S) == IF S = {} THEN NoDoc ELSE CHOOSE d \in Content : WordsAre(S, d)

LEMMA IndexedIs ==
  ASSUME ContentsTold, NEW S, NEW u \in Url, NEW c \in Content, AllRowsFor(S, u, c)
  PROVE  S # {} /\ (CHOOSE d \in Content : WordsAre(S, d)) = c
<1>1. WordsAre(S, c)
  BY RowsCounted
<1>2. ASSUME NEW d \in Content, WordsAre(S, d) PROVE d = c
  <2>1. \A x \in Word : Index[c][x] \in Nat /\ Index[d][x] \in Nat
    BY IndexAssumption
  <2>2. {r.word : r \in S} = WordsOf(d) /\ {r.word : r \in S} = WordsOf(c)
    BY <1>1, <1>2 DEF WordsAre
  <2>3. ASSUME NEW x \in Word PROVE Index[c][x] = Index[d][x]
    <3>1. CASE x \in WordsOf(c)
      <4>1. PICK r \in S : r.word = x
        BY <3>1 DEF AllRowsFor
      <4> QED
        BY <4>1, <1>1, <1>2 DEF WordsAre
    <3>2. CASE x \notin WordsOf(c)
      BY <2>1, <2>2, <3>2 DEF WordsOf
    <3> QED
      BY <3>1, <3>2
  <2>4. Index[c] \in [Word -> Nat] /\ Index[d] \in [Word -> Nat]
    BY IndexAssumption
  <2>5. Index[c] = Index[d]
    BY <2>3, <2>4
  <2> QED
    BY <2>5 DEF ContentsTold
<1>3. S # {}
  BY DEF AllRowsFor, ContentsTold
<1> QED
  BY <1>1, <1>2, <1>3

\* Steps that write no table stutter.
LEMMA StutterLemma ==
  ASSUME UNCHANGED tables
  PROVE  UNCHANGED Abstract!vars
BY DEF tables, Abstract!vars, IndexedContent, RowsOf, RowsAre

\* The commit of insertDocument stores the page.
LEMMA StoreLemma ==
  ASSUME IInv, NEW w \in Writer, pc[w] = "commitDocument", StoreDocument(w), UNCHANGED words
  PROVE  Abstract!Next
<1>1. job[w].url \in Url /\ job[w].content \in Content
  BY StoredLemma
<1>2. [u \in Url |-> IndexedContent(u)]' = [u \in Url |-> IndexedContent(u)]
  BY DEF IndexedContent, RowsOf, RowsAre
<1>3. Abstract!Store(job[w].url, job[w].content)
  BY <1>2 DEF Abstract!Store, StoreDocument
<1> QED
  BY <1>1, <1>3 DEF Abstract!Next

\* The commit of insertWords makes it searchable under the content stored now.
LEMMA ReindexLemma ==
  ASSUME ContentsTold, IInv, IInv', NEW w \in Writer, pc[w] = "commitWords", ReplaceWords(w),
         EndJob(w), UNCHANGED documents
  PROVE  Abstract!Next
<1> DEFINE p == job[w].url
           c == job[w].content
           bar == [u \in Url |-> IndexedContent(u)]
<1>1. /\ p \in Url /\ c \in Content
      /\ documents[p] = c
      /\ {r \in words' : r.url = p} = inserted[w]
      /\ AllRowsFor(inserted[w], p, c)
      /\ \A u \in Url \ {p} : RowsOf(u)' = RowsOf(u)
  BY ReplaceLemma
<1> HIDE DEF p, c
<1>2. IndexedOf({r \in words' : r.url = p}) = c
  BY <1>1, IndexedIs DEF IndexedOf
<1>3. /\ \A u \in Url : IndexedContent(u) = IndexedOf(RowsOf(u))
      /\ \A u \in Url : IndexedContent(u)' = IndexedOf({r \in words' : r.url = u})
  BY DEF IndexedContent, IndexedOf, RowsOf, RowsAre, WordsAre
<1>4. \A u \in Url \ {p} : IndexedContent(u)' = IndexedContent(u)
  BY <1>1, <1>3 DEF RowsOf
<1>5. bar' = [bar EXCEPT ![p] = documents[p]]
  BY <1>1, <1>2, <1>3, <1>4
<1>6. documents[p] # NoDoc
  BY <1>1, NoneAssumption
<1>7. Abstract!Reindex(p)
  BY <1>5, <1>6 DEF Abstract!Reindex
<1> QED
  BY <1>1, <1>7 DEF Abstract!Next

LEMMA RefineStep ==
  ASSUME ContentsTold, IInv, IInv', [Next]_vars
  PROVE  Abstract!Next \/ UNCHANGED Abstract!vars
<1>1. ASSUME NEW w \in Writer, Work(w) PROVE Abstract!Next \/ UNCHANGED Abstract!vars
  <2>1. CASE CommitDocument(w)
    BY <2>1, StoreLemma DEF CommitDocument
  <2>2. CASE CommitWords(w)
    BY <2>2, ReindexLemma DEF CommitWords
  <2>3. CASE ~CommitDocument(w) /\ ~CommitWords(w)
    <3>1. UNCHANGED tables
      BY <1>1, <2>3 DEF Work, Select, Update, Insert, Refused, FindOldWords, DeleteOldWords,
         InsertWord, EndInserts
    <3> QED
      BY <3>1, StutterLemma
  <2> QED
    BY <2>1, <2>2, <2>3
<1>2. ASSUME NEW w \in Writer, LostCommit(w) PROVE Abstract!Next
  BY <1>2, StoreLemma, ReindexLemma DEF LostCommit
<1>3. ASSUME NEW w \in Writer, Rollback(w) PROVE UNCHANGED Abstract!vars
  BY <1>3, StutterLemma DEF Rollback
<1>4. ASSUME NEW w \in Writer, NEW u \in Url, NEW c \in Content, Begin(w, u, c)
      PROVE  UNCHANGED Abstract!vars
  BY <1>4, StutterLemma DEF Begin
<1>5. ASSUME NEW q \in Queries, Search(q) \/ SearchFails(q) PROVE UNCHANGED Abstract!vars
  BY <1>5, StutterLemma DEF Search, SearchFails
<1>6. CASE UNCHANGED vars
  BY <1>6, StutterLemma DEF vars, tables
<1> QED
  BY <1>1, <1>2, <1>3, <1>4, <1>5, <1>6 DEF Next

\* With one crawler, and contents that their words tell apart, the tables
\* implement SearchIndex, for every number of workers, pages and failures.
THEOREM SearchIndexRefined == ASSUME OneCrawler, ContentsTold PROVE Spec => RefinesSearchIndex
<1>1. Init => Abstract!Init
  <2> SUFFICES ASSUME Init PROVE Abstract!Init
    OBVIOUS
  <2>1. \A u \in Url : RowsOf(u) = {}
    BY DEF Init, RowsOf
  <2>2. [u \in Url |-> IndexedContent(u)] = [u \in Url |-> NoDoc]
    BY <2>1 DEF IndexedContent
  <2> QED
    BY <2>2 DEF Init, Abstract!Init
<1>2. IInv /\ IInv' /\ [Next]_vars => [Abstract!Next]_(Abstract!vars)
  BY RefineStep
<1> QED
  BY <1>1, <1>2, InductiveCorrect, PTL DEF Spec, RefinesSearchIndex, Abstract!Spec

-----------------------------------------------------------------------------
(* Sums over finite sets, as MapThenSumSet adds them up.                   *)

\* Induction over the natural numbers, for a set of them.
LEMMA NatSet ==
  ASSUME NEW S, 0 \in S, \A n \in Nat : n \in S => n + 1 \in S
  PROVE  Nat \subseteq S
<1> SUFFICES ASSUME Nat \ S # {} PROVE FALSE
  OBVIOUS
<1> DEFINE R == {ss \in Nat \X Nat : ss[1] < ss[2]}
<1>1. IsWellFoundedOn(R, Nat)
  BY NatLessThanWellFounded DEF OpToRel
<1> HIDE DEF R
<1>2. PICK m \in Nat \ S : \A k \in Nat \ S : ~ (<<k, m>> \in R)
  BY <1>1, WFMin
<1>3. \A k \in Nat \ S : ~ (k < m)
  BY <1>2 DEF R
<1>4. m # 0 /\ m - 1 \in Nat /\ m - 1 < m
  OBVIOUS
<1>5. QED BY <1>3, <1>4

Some(s) == CHOOSE x \in s : TRUE

\* One step of the sum of f over s, where g has the sums of the smaller sets.
Adding(g, f, s) == IF s = {} THEN 0 ELSE f[Some(s)] + g[s \ {Some(s)}]

\* g sums f up over the subsets of S, as MapThenSumSet does.
Adds(g, f, S) == g = [s \in SUBSET S |-> Adding(g, f, s)]

\* A nonempty set is one larger than without any of its elements.
LEMMA OneLess ==
  ASSUME NEW S, IsFiniteSet(S), NEW s \in SUBSET S
  PROVE  /\ IsFiniteSet(s) /\ Cardinality(s) \in Nat
         /\ Cardinality(s) = 0 <=> s = {}
         /\ \A x \in s : s \ {x} \in SUBSET S /\ Cardinality(s \ {x}) = Cardinality(s) - 1
         /\ s # {} => Some(s) \in s
<1>1. IsFiniteSet(s)
  BY FS_Subset
<1>2. \A x \in s : Cardinality(s \ {x}) = Cardinality(s) - 1
  BY <1>1, FS_RemoveElement
<1>3. Cardinality(s) \in Nat /\ (Cardinality(s) = 0 <=> s = {})
  BY <1>1, FS_CardinalityType, FS_EmptySet
<1>4. s # {} => Some(s) \in s
  BY DEF Some
<1> QED BY <1>1, <1>2, <1>3, <1>4

\* The recursive definition of the sum has a solution.
LEMMA AddsExists ==
  ASSUME NEW S, IsFiniteSet(S), NEW f
  PROVE  \E g : Adds(g, f, S)
<1> DEFINE D(n) == {s \in SUBSET S : Cardinality(s) <= n}
           M == {n \in Nat : \E g : g = [s \in D(n) |-> Adding(g, f, s)]}
<1>1. 0 \in M
  <2>1. \A s \in D(0) : s = {}
    BY OneLess
  <2>2. \A s \in D(0) : Adding([t \in D(0) |-> 0], f, s) = 0
    BY <2>1 DEF Adding
  <2>3. [t \in D(0) |-> 0] = [s \in D(0) |-> Adding([t \in D(0) |-> 0], f, s)]
    BY <2>2
  <2> QED BY <2>3
<1>2. ASSUME NEW n \in Nat, n \in M PROVE n + 1 \in M
  <2>1. PICK g : g = [s \in D(n) |-> Adding(g, f, s)]
    BY <1>2
  <2> DEFINE h == [s \in D(n+1) |-> Adding(g, f, s)]
  <2>2. \A s \in D(n) : s \in D(n+1) /\ g[s] = Adding(g, f, s)
    <3>1. \A s \in D(n) : g[s] = Adding(g, f, s)
      BY <2>1
    <3>2. \A s \in D(n) : s \in D(n+1)
      BY OneLess
    <3> QED BY <3>1, <3>2
  <2>3. \A s \in D(n) : h[s] = g[s]
    BY <2>2
  <2>4. \A s \in D(n+1) : s # {} => s \ {Some(s)} \in D(n)
    BY OneLess
  <2> HIDE DEF D
  <2>5. \A s \in D(n+1) : Adding(g, f, s) = Adding(h, f, s)
    BY <2>3, <2>4 DEF Adding
  <2>6. h = [s \in D(n+1) |-> Adding(h, f, s)]
    BY <2>5
  <2> HIDE DEF h
  <2> QED BY <2>6
<1> HIDE DEF M
<1>3. Cardinality(S) \in M
  BY <1>1, <1>2, NatSet, FS_CardinalityType
<1>4. D(Cardinality(S)) = SUBSET S
  BY FS_Subset
<1> QED BY <1>3, <1>4 DEF M, Adds

LEMMA AddsStep ==
  ASSUME NEW S, NEW f, NEW g, Adds(g, f, S)
  PROVE  g[{}] = 0 /\ \A s \in SUBSET S : g[s] = Adding(g, f, s)
<1>1. \A s \in SUBSET S : g[s] = Adding(g, f, s)
  BY DEF Adds
<1>2. g[{}] = Adding(g, f, {})
  BY <1>1
<1> QED BY <1>1, <1>2 DEF Adding

\* ... for a finite set of natural numbers.
Sums(g, f, S) == IsFiniteSet(S) /\ (\A x \in S : f[x] \in Nat) /\ Adds(g, f, S)

\* Sums of natural numbers are natural numbers.
LEMMA AddsNat ==
  ASSUME NEW S, NEW f, NEW g, Sums(g, f, S)
  PROVE  \A s \in SUBSET S : g[s] \in Nat
<1> USE DEF Sums
<1> DEFINE M == {n \in Nat : \A s \in SUBSET S : Cardinality(s) = n => g[s] \in Nat}
<1>1. 0 \in M
  <2>1. g[{}] = 0
    BY AddsStep
  <2>2. \A s \in SUBSET S : Cardinality(s) = 0 => s = {}
    BY OneLess
  <2> QED BY <2>1, <2>2
<1>2. ASSUME NEW n \in Nat, n \in M PROVE n + 1 \in M
  <2> SUFFICES ASSUME NEW s \in SUBSET S, Cardinality(s) = n + 1 PROVE g[s] \in Nat
    OBVIOUS
  <2>1. s # {} /\ Some(s) \in s /\ s \ {Some(s)} \in SUBSET S /\ Cardinality(s \ {Some(s)}) = n
    BY OneLess
  <2>2. g[s] = f[Some(s)] + g[s \ {Some(s)}]
    <3>1. g[s] = Adding(g, f, s)
      BY AddsStep
    <3> QED BY <2>1, <3>1 DEF Adding
  <2>3. g[s \ {Some(s)}] \in Nat
    BY <1>2, <2>1
  <2>4. f[Some(s)] \in Nat
    BY <2>1
  <2> QED BY <2>2, <2>3, <2>4
<1> HIDE DEF M
<1>3. Nat \subseteq M
  BY <1>1, <1>2, NatSet
<1> QED BY <1>3, OneLess DEF M

\* A sum does not depend on the order: any element can be taken out first.
LEMMA AddsAny ==
  ASSUME NEW S, NEW f, NEW g, Sums(g, f, S)
  PROVE  \A s \in SUBSET S : \A x \in S : x \in s => g[s] = f[x] + g[s \ {x}]
<1> USE DEF Sums
<1> DEFINE M == {n \in Nat : \A s \in SUBSET S : Cardinality(s) = n =>
                               \A x \in s : g[s] = f[x] + g[s \ {x}]}
<1>1. 0 \in M
  BY OneLess
<1>2. ASSUME NEW n \in Nat, n \in M PROVE n + 1 \in M
  <2> SUFFICES ASSUME NEW s \in SUBSET S, Cardinality(s) = n + 1, NEW x \in s
               PROVE  g[s] = f[x] + g[s \ {x}]
    OBVIOUS
  <2> DEFINE y == Some(s)
  <2>1. s # {} /\ y \in s /\ g[s] = f[y] + g[s \ {y}]
    BY OneLess, AddsStep DEF Adding
  <2> HIDE DEF y
  <2>2. CASE x = y
    BY <2>1, <2>2
  <2>3. CASE x # y
    <3>1. /\ s \ {y} \in SUBSET S /\ Cardinality(s \ {y}) = n /\ x \in s \ {y}
          /\ s \ {x} \in SUBSET S /\ Cardinality(s \ {x}) = n /\ y \in s \ {x}
      BY <2>1, <2>3, OneLess
    <3>2. g[s \ {y}] = f[x] + g[(s \ {y}) \ {x}] /\ g[s \ {x}] = f[y] + g[(s \ {x}) \ {y}]
      BY <1>2, <3>1
    <3>3. (s \ {y}) \ {x} = (s \ {x}) \ {y} /\ (s \ {y}) \ {x} \in SUBSET S
      OBVIOUS
    <3>4. \A t \in SUBSET S : g[t] \in Nat
      BY AddsNat
    <3>5. g[(s \ {y}) \ {x}] \in Nat /\ f[x] \in Nat /\ f[y] \in Nat
      BY <2>1, <3>3, <3>4
    <3> QED BY <2>1, <3>2, <3>3, <3>5
  <2> QED BY <2>2, <2>3
<1>3. Nat \subseteq M
  <2> HIDE DEF M
  <2> QED BY <1>1, <1>2, NatSet
<1>4. ASSUME NEW s \in SUBSET S, NEW x \in s PROVE g[s] = f[x] + g[s \ {x}]
  <2>1. Cardinality(s) \in M
    BY <1>3, OneLess
  <2> QED BY <2>1
<1> QED BY <1>4

\* Two sums are equal when the elements of one set stand for elements of the
\* other that count as much, and what nothing stands for counts nothing.
LEMMA AddsSame ==
  ASSUME NEW S, NEW f, NEW g, Sums(g, f, S), NEW T, NEW e, NEW k, Sums(k, e, T),
         NEW h, \A x \in S : h[x] \in T /\ f[x] = e[h[x]],
         \A x, y \in S : h[x] = h[y] => x = y,
         \A z \in T : e[z] = 0 \/ \E x \in S : h[x] = z
  PROVE  g[S] = k[T]
<1>a. \A r \in SUBSET T : k[r] \in Nat
  BY AddsNat
<1>b. \A r \in SUBSET T : \A x \in T : x \in r => k[r] = e[x] + k[r \ {x}]
  BY AddsAny
<1>c. \A s \in SUBSET S : \A x \in S : x \in s => g[s] = f[x] + g[s \ {x}]
  BY AddsAny
<1>0. IsFiniteSet(S) /\ IsFiniteSet(T) /\ Adds(g, f, S) /\ Adds(k, e, T)
  BY DEF Sums
<1> DEFINE Matches(s, t) == /\ \A x \in s : h[x] \in t
                            /\ \A z \in t : e[z] = 0 \/ \E x \in s : h[x] = z
           M == {n \in Nat : \A t \in SUBSET T : Cardinality(t) = n =>
                               \A s \in SUBSET S : Matches(s, t) => g[s] = k[t]}
<1>1. 0 \in M
  <2> SUFFICES ASSUME NEW t \in SUBSET T, Cardinality(t) = 0, NEW s \in SUBSET S, Matches(s, t)
               PROVE  g[s] = k[t]
    OBVIOUS
  <2>1. t = {} /\ s = {}
    BY <1>0, OneLess
  <2>2. g[{}] = 0
    BY <1>0, AddsStep
  <2>3. k[{}] = 0
    BY <1>0, AddsStep
  <2> QED BY <2>1, <2>2, <2>3
<1>2. ASSUME NEW n \in Nat, n \in M PROVE n + 1 \in M
  <2> SUFFICES ASSUME NEW t \in SUBSET T, Cardinality(t) = n + 1,
                      NEW s \in SUBSET S, Matches(s, t)
               PROVE  g[s] = k[t]
    OBVIOUS
  <2>1. PICK z \in t : TRUE
    BY <1>0, OneLess
  <2>2. t \ {z} \in SUBSET T /\ Cardinality(t \ {z}) = n
    BY <1>0, <2>1, OneLess
  <2>3. k[t] = e[z] + k[t \ {z}] /\ k[t \ {z}] \in Nat
    BY <1>a, <1>b, <2>1, <2>2
  <2>4. CASE \E x \in s : h[x] = z
    <3>1. PICK x \in s : h[x] = z
      BY <2>4
    <3>2. g[s] = f[x] + g[s \ {x}]
      BY <1>c, <3>1
    <3>3. s \ {x} \in SUBSET S /\ Matches(s \ {x}, t \ {z})
      BY <3>1
    <3>4. g[s \ {x}] = k[t \ {z}]
      BY <1>2, <2>2, <3>3
    <3> QED BY <2>3, <3>1, <3>2, <3>4
  <2>5. CASE ~ \E x \in s : h[x] = z
    <3>1. e[z] = 0 /\ Matches(s, t \ {z})
      BY <2>1, <2>5
    <3>2. g[s] = k[t \ {z}]
      BY <1>2, <2>2, <3>1
    <3> QED BY <2>3, <3>1, <3>2
  <2> QED BY <2>4, <2>5
<1>3. Nat \subseteq M
  <2> HIDE DEF M
  <2> QED BY <1>1, <1>2, NatSet
<1>4. Matches(S, T)
  OBVIOUS
<1> HIDE DEF Matches
<1> QED BY <1>0, <1>3, <1>4, FS_CardinalityType

\* The sums of the model, over rows and over words.
LEMMA RowSum ==
  ASSUME NEW S \in SUBSET Row, IsFiniteSet(S)
  PROVE  \E g : /\ Adds(g, [r \in S |-> r.frequency], S)
                /\ MapThenSumSet(LAMBDA r : r.frequency, S) = g[S]
<1> DEFINE f == [r \in S |-> r.frequency]
           P(g) == g = [s \in SUBSET S |->
                          IF s = {} THEN 0
                          ELSE (CHOOSE x \in s : TRUE).frequency + g[s \ {CHOOSE x \in s : TRUE}]]
<1>1. \A g : P(g) <=> Adds(g, f, S)
  <2> SUFFICES ASSUME NEW g PROVE P(g) <=> Adds(g, f, S)
    OBVIOUS
  <2>1. ASSUME NEW s \in SUBSET S
        PROVE  (IF s = {} THEN 0
                ELSE (CHOOSE x \in s : TRUE).frequency + g[s \ {CHOOSE x \in s : TRUE}])
               = Adding(g, f, s)
    BY OneLess DEF Adding, Some
  <2> QED BY <2>1 DEF Adds
<1>2. \E g : P(g)
  <2>1. \E g : Adds(g, f, S)
    BY AddsExists
  <2> HIDE DEF P, f
  <2> QED BY <1>1, <2>1
<1>3. MapThenSumSet(LAMBDA r : r.frequency, S) = (CHOOSE g : P(g))[S]
  BY DEF MapThenSumSet, MapThenFoldSet
<1> HIDE DEF P, f
<1>4. P(CHOOSE g : P(g))
  BY <1>2
<1> QED BY <1>1, <1>3, <1>4 DEF f

LEMMA WordSum ==
  ASSUME NEW c \in Content, NEW T \in SUBSET Word, IsFiniteSet(T)
  PROVE  \E k : /\ Adds(k, Index[c], T)
                /\ MapThenSumSet(LAMBDA x : Index[c][x], T) = k[T]
<1> DEFINE P(k) == k = [s \in SUBSET T |->
                          IF s = {} THEN 0
                          ELSE Index[c][CHOOSE x \in s : TRUE] + k[s \ {CHOOSE x \in s : TRUE}]]
<1>1. \A k : P(k) <=> Adds(k, Index[c], T)
  BY DEF Adds, Adding, Some
<1>2. \E k : P(k)
  <2>1. \E k : Adds(k, Index[c], T)
    BY AddsExists
  <2> HIDE DEF P
  <2> QED BY <1>1, <2>1
<1>3. MapThenSumSet(LAMBDA x : Index[c][x], T) = (CHOOSE k : P(k))[T]
  BY DEF MapThenSumSet, MapThenFoldSet
<1> HIDE DEF P
<1>4. P(CHOOSE k : P(k))
  BY <1>2
<1> QED BY <1>1, <1>3, <1>4

-----------------------------------------------------------------------------
(* Types, for any number of crawlers.                                      *)

Finite == IsFiniteSet(words) /\ \A w \in Writer : IsFiniteSet(inserted[w])

\* A search finds finitely many pages, and looks for finitely many words.
LEMMA FoundFinite ==
  ASSUME words \subseteq Row, IsFiniteSet(words), NEW q
  PROVE  IsFiniteSet(Found(q)) /\ Found(q) \subseteq Url
<1> DEFINE W == {r \in words : r.word \in Range(q)}
           f == [r \in W |-> r.url]
<1>1. IsFiniteSet(W)
  BY FS_Subset
<1>2. f \in Surjection(W, Found(q))
  <2>1. \A r \in W : r.url \in Found(q)
    BY DEF Found, RowsOf, Row
  <2>2. \A u \in Found(q) : \E r \in W : r.url = u
    BY DEF Found, RowsOf
  <2> QED BY <2>1, <2>2 DEF Surjection
<1>3. IsFiniteSet(Found(q))
  BY <1>1, <1>2, FS_Surjection
<1> QED BY <1>3 DEF Found

LEMMA RangeFinite ==
  ASSUME NEW q \in Seq(Word)
  PROVE  IsFiniteSet(Range(q)) /\ Range(q) \subseteq Word
<1>1. q \in Surjection(1..Len(q), Range(q))
  BY DEF Range, Surjection
<1>2. IsFiniteSet(1..Len(q))
  BY FS_Interval
<1>3. IsFiniteSet(Range(q))
  BY <1>1, <1>2, FS_Surjection
<1> QED BY <1>3 DEF Range

\* The relevance of a page is a sum of finitely many frequencies.
LEMMA RelevanceNat ==
  ASSUME words \subseteq Row, IsFiniteSet(words), NEW u, NEW q
  PROVE  Relevance(u, q) \in Nat
<1> DEFINE S == {r \in RowsOf(u) : r.word \in Range(q)}
           f == [r \in S |-> r.frequency]
<1>1. S \in SUBSET Row /\ IsFiniteSet(S)
  BY FS_Subset DEF RowsOf
<1>2. PICK g : Adds(g, f, S) /\ Relevance(u, q) = g[S]
  BY <1>1, RowSum DEF Relevance
<1>3. \A r \in S : f[r] \in Nat
  BY <1>1 DEF Row
<1> HIDE DEF S, f
<1>4. Sums(g, f, S)
  BY <1>1, <1>2, <1>3 DEF Sums
<1>5. \A s \in SUBSET S : g[s] \in Nat
  BY <1>4, AddsNat
<1> QED BY <1>2, <1>5

\* What a search answers is a list of pages with a number.
LEMMA SearchType ==
  ASSUME TypeOK, Finite, NEW q \in Queries, Search(q) \/ SearchFails(q)
  PROVE  answer' \in [query : Seq(Word), results : Seq(Result),
                      failed : BOOLEAN, page : {"none", "list", "error"}]
<1>1. q \in Seq(Word)
  BY QueryAssumption
<1>2. ASSUME NEW r \in Seq(Result), NEW b \in BOOLEAN, Answered(q, r, b)
      PROVE  answer' \in [query : Seq(Word), results : Seq(Result),
                          failed : BOOLEAN, page : {"none", "list", "error"}]
  <2>1. Page(r) \in {"none", "list", "error"}
    BY DEF Page
  <2> QED BY <1>1, <1>2, <2>1 DEF Answered
<1>3. CASE Search(q)
  <2>1. PICK s \in Ranked(q) :
          Answered(q, [i \in DOMAIN s |-> [url |-> s[i], relevance |-> Relevance(s[i], q)]], FALSE)
    BY <1>3 DEF Search
  <2>2. IsFiniteSet(Found(q)) /\ Found(q) \subseteq Url
    BY FoundFinite DEF TypeOK, Finite
  <2>3. PICK n \in Nat : s \in [1..n -> Found(q)]
    BY <2>2, FS_CardinalityType, BoundAssumption DEF Ranked
  <2>4. \A i \in 1..n : [url |-> s[i], relevance |-> Relevance(s[i], q)] \in Result
    BY <2>2, <2>3, RelevanceNat DEF Result, TypeOK, Finite
  <2>5. DOMAIN s = 1..n
    BY <2>3
  <2>6. [i \in DOMAIN s |-> [url |-> s[i], relevance |-> Relevance(s[i], q)]] \in Seq(Result)
    BY <2>4, <2>5
  <2> QED BY <1>2, <2>1, <2>6
<1>4. CASE SearchFails(q)
  <2>1. Answered(q, <<>>, TRUE)
    BY <1>4 DEF SearchFails
  <2>2. <<>> \in Seq(Result)
    OBVIOUS
  <2> QED BY <1>2, <2>1, <2>2
<1> QED BY <1>3, <1>4

LEMMA EndJobType ==
  ASSUME TypeOK, Finite, NEW w \in Writer, EndJob(w)
  PROVE  /\ pc' \in [Writer -> Pc] /\ job' \in [Writer -> Job \cup {NoJob}]
         /\ \A v \in Writer : pc'[v] = "idle" <=> job'[v] = NoJob
         /\ target' \in [Writer -> SUBSET Row] /\ inserted' \in [Writer -> SUBSET Row]
         /\ \A v \in Writer : IsFiniteSet(inserted'[v])
BY FS_EmptySet DEF TypeOK, Finite, EndJob, Goto, Pc

\* A busy worker has a page.
LEMMA BusyJob ==
  ASSUME TypeOK, NEW w \in Writer, pc[w] # "idle"
  PROVE  job[w] \in Job /\ job[w].url \in Url /\ job[w].content \in Content
BY DEF TypeOK, Job

LEMMA StoreType ==
  ASSUME TypeOK, NEW w \in Writer, pc[w] # "idle", StoreDocument(w)
  PROVE  documents' \in [Url -> Content \cup {NoDoc}] /\ versions' \subseteq Url \X Content
BY BusyJob DEF TypeOK, StoreDocument

LEMMA ReplaceType ==
  ASSUME TypeOK, Finite, NEW w \in Writer, pc[w] # "idle", ReplaceWords(w)
  PROVE  words' \subseteq Row /\ IsFiniteSet(words') /\ stale' \subseteq Url
<1>1. words' = (words \ target[w]) \cup inserted[w] /\ stale' \subseteq stale
  BY DEF ReplaceWords
<1>2. IsFiniteSet(words \ target[w])
  BY FS_Difference DEF Finite
<1>3. IsFiniteSet((words \ target[w]) \cup inserted[w])
  BY <1>2, FS_Union DEF Finite
<1> QED BY <1>1, <1>3 DEF TypeOK

LEMMA NextType == TypeOK /\ Finite /\ [Next]_vars => (TypeOK /\ Finite)'
<1> SUFFICES ASSUME TypeOK, Finite, [Next]_vars PROVE (TypeOK /\ Finite)'
  OBVIOUS
<1> USE DEF tables, history
<1>1. ASSUME NEW w \in Writer, Select(w) \/ Update(w) \/ Insert(w) \/ DeleteOldWords(w) \/ EndInserts(w)
      PROVE  (TypeOK /\ Finite)'
  <2>1. /\ pc[w] \in Pc \ {"idle"}
        /\ \E l \in Pc \ {"idle"} : pc' = [pc EXCEPT ![w] = l]
        /\ UNCHANGED <<documents, words, job, target, inserted, txns, begun, answer, versions, stale>>
    BY <1>1 DEF Select, Update, Insert, DeleteOldWords, EndInserts, Goto, Pc
  <2>2. \A v \in Writer : pc'[v] = "idle" <=> job'[v] = NoJob
    BY <2>1 DEF TypeOK
  <2> QED BY <2>1, <2>2 DEF TypeOK, Finite
<1>2. ASSUME NEW w \in Writer, CommitDocument(w) PROVE (TypeOK /\ Finite)'
  <2>1. documents' \in [Url -> Content \cup {NoDoc}] /\ versions' \subseteq Url \X Content
    BY <1>2, StoreType DEF CommitDocument
  <2> QED BY <1>2, <2>1 DEF CommitDocument, TypeOK, Finite, Goto, Pc
<1>3. ASSUME NEW w \in Writer, FindOldWords(w) PROVE (TypeOK /\ Finite)'
  <2>1. RowsOf(job[w].url) \in SUBSET Row
    BY DEF RowsOf, TypeOK
  <2> QED BY <1>3, <2>1 DEF FindOldWords, TypeOK, Finite, Goto, Pc
<1>4. ASSUME NEW w \in Writer, NEW x \in Word, InsertWord(w, x) PROVE (TypeOK /\ Finite)'
  <2> DEFINE row == [txn |-> txns, url |-> job[w].url, word |-> x,
                     frequency |-> Index[job[w].content][x]]
  <2>1. /\ inserted' = [inserted EXCEPT ![w] = @ \cup {row}] /\ pc[w] # "idle"
        /\ UNCHANGED <<documents, words, pc, job, target, txns, begun, answer, versions, stale>>
    BY <1>4 DEF InsertWord
  <2>2. row \in Row
    BY <2>1, BusyJob, IndexAssumption DEF Row, TypeOK
  <2>3. IsFiniteSet(inserted[w] \cup {row})
    BY FS_AddElement DEF Finite
  <2> HIDE DEF row
  <2>4. inserted' \in [Writer -> SUBSET Row] /\ \A v \in Writer : IsFiniteSet(inserted'[v])
    BY <2>1, <2>2, <2>3 DEF TypeOK, Finite
  <2> QED BY <2>1, <2>4 DEF TypeOK, Finite
<1>5. ASSUME NEW w \in Writer, CommitWords(w) PROVE (TypeOK /\ Finite)'
  <2>1. words' \subseteq Row /\ IsFiniteSet(words') /\ stale' \subseteq Url
    BY <1>5, ReplaceType DEF CommitWords
  <2> QED BY <1>5, <2>1, EndJobType DEF CommitWords, TypeOK, Finite
<1>6. ASSUME NEW w \in Writer, Refused(w) \/ Rollback(w) PROVE (TypeOK /\ Finite)'
  <2>1. /\ pc[w] # "idle" /\ EndJob(w) /\ stale' \in {stale, Lagging(w)}
        /\ UNCHANGED <<documents, words, txns, begun, answer, versions>>
    BY <1>6 DEF Refused, Rollback
  <2>2. stale' \subseteq Url
    BY <2>1, BusyJob DEF Lagging, TypeOK
  <2> QED BY <2>1, <2>2, EndJobType DEF TypeOK, Finite
<1>7. ASSUME NEW w \in Writer, LostCommit(w) PROVE (TypeOK /\ Finite)'
  <2>1. EndJob(w) /\ pc[w] # "idle" /\ UNCHANGED <<txns, begun, answer>>
    BY <1>7 DEF LostCommit
  <2>2. CASE StoreDocument(w) /\ stale' = stale \cup {job[w].url} /\ UNCHANGED words
    <3>1. documents' \in [Url -> Content \cup {NoDoc}] /\ versions' \subseteq Url \X Content
      BY <2>1, <2>2, StoreType
    <3>2. stale' \subseteq Url
      BY <2>1, <2>2, BusyJob DEF TypeOK
    <3> QED BY <2>1, <2>2, <3>1, <3>2, EndJobType DEF TypeOK, Finite
  <2>3. CASE ReplaceWords(w) /\ UNCHANGED <<documents, versions>>
    <3>1. words' \subseteq Row /\ IsFiniteSet(words') /\ stale' \subseteq Url
      BY <2>1, <2>3, ReplaceType
    <3> QED BY <2>1, <2>3, <3>1, EndJobType DEF TypeOK, Finite
  <2> QED BY <1>7, <2>2, <2>3 DEF LostCommit
<1>8. ASSUME NEW w \in Writer, NEW u \in Url, NEW c \in Content, Begin(w, u, c)
      PROVE  (TypeOK /\ Finite)'
  <2>1. [url |-> u, content |-> c] \in Job /\ [url |-> u, content |-> c] # NoJob
    BY NoJobAssumption DEF Job
  <2>2. /\ pc' = [pc EXCEPT ![w] = "select"]
        /\ job' = [job EXCEPT ![w] = [url |-> u, content |-> c]]
        /\ begun' = begun + 1 /\ begun < MaxJobs
        /\ UNCHANGED <<documents, words, target, inserted, txns, answer, versions, stale>>
    BY <1>8 DEF Begin, Goto
  <2>3. /\ job' \in [Writer -> Job \cup {NoJob}] /\ pc' \in [Writer -> Pc]
        /\ \A v \in Writer : pc'[v] = "idle" <=> job'[v] = NoJob
    BY <2>1, <2>2 DEF TypeOK, Pc
  <2>4. begun' \in 0..MaxJobs
    BY <2>2, BoundAssumption DEF TypeOK
  <2> QED BY <2>2, <2>3, <2>4 DEF TypeOK, Finite
<1>9. ASSUME NEW q \in Queries, Search(q) \/ SearchFails(q) PROVE (TypeOK /\ Finite)'
  <2>1. answer' \in [query : Seq(Word), results : Seq(Result),
                     failed : BOOLEAN, page : {"none", "list", "error"}]
    BY <1>9, SearchType
  <2>2. UNCHANGED <<documents, words, pc, job, target, inserted, txns, begun, versions, stale>>
    BY <1>9 DEF Search, SearchFails
  <2> QED BY <2>1, <2>2 DEF TypeOK, Finite
<1>10. CASE UNCHANGED vars
  BY <1>10 DEF vars, TypeOK, Finite
<1> QED
  BY <1>1, <1>2, <1>3, <1>4, <1>5, <1>6, <1>7, <1>8, <1>9, <1>10 DEF Next, Work

\* Every variable has its type, for every number of crawlers, workers, pages,
\* contents and words and all failures: a search adds up finitely many numbers.
THEOREM TypeCorrect == Spec => []TypeOK
<1>1. Init => TypeOK /\ Finite
  BY FS_EmptySet, BoundAssumption DEF Init, TypeOK, Finite, Pc
<1> QED BY <1>1, NextType, PTL DEF Spec

-----------------------------------------------------------------------------
(* What a search answers, with one crawler.                                *)

Occurrences(c, q) == MapThenSumSet(LAMBDA x : Index[c][x], Range(q))

\* AnswerCountsOnePage, with a name for the number of occurrences.
Counted ==
  answer # NoAnswer =>
    \A i \in DOMAIN answer.results :
      \E c \in Content : /\ <<answer.results[i].url, c>> \in versions
                         /\ answer.results[i].relevance = Occurrences(c, answer.query)

LEMMA CountedMeans == Counted <=> AnswerCountsOnePage
BY DEF Counted, Occurrences, AnswerCountsOnePage

\* What is written comes of a content that was committed, and what was found
\* for a page are the rows of one such content.
Known ==
  /\ \A w \in Writer : Past(w) => <<job[w].url, job[w].content>> \in versions
  /\ \A u \in Url : RowsOf(u) = {} \/ \E c \in Content : /\ <<u, c>> \in versions
                                                         /\ AllRowsFor(RowsOf(u), u, c)
  /\ Counted

\* The rows of a content add up to the occurrences of the words searched for.
LEMMA CountsContent ==
  ASSUME words \subseteq Row, IsFiniteSet(words), NEW u \in Url, NEW c \in Content,
         AllRowsFor(RowsOf(u), u, c), NEW q \in Seq(Word)
  PROVE  Relevance(u, q) = Occurrences(c, q)
<1> DEFINE S == {r \in RowsOf(u) : r.word \in Range(q)}
           T == Range(q)
           f == [r \in S |-> r.frequency]
           e == Index[c]
           h == [r \in S |-> r.word]
<1>1. S \in SUBSET Row /\ IsFiniteSet(S)
  BY FS_Subset DEF RowsOf
<1>2. T \in SUBSET Word /\ IsFiniteSet(T)
  BY RangeFinite
<1>3. PICK g : Adds(g, f, S) /\ Relevance(u, q) = g[S]
  BY <1>1, RowSum DEF Relevance
<1>4. PICK k : Adds(k, e, T) /\ MapThenSumSet(LAMBDA x : Index[c][x], T) = k[T]
  BY <1>2, WordSum
<1>5. \A r \in S : f[r] \in Nat
  BY <1>1 DEF Row
<1>6. \A x \in T : e[x] \in Nat
  BY <1>2, IndexAssumption
<1>7. \A r \in S : h[r] \in T /\ f[r] = e[h[r]]
  BY DEF AllRowsFor, RowsFor
<1>8. \A r, s \in S : h[r] = h[s] => r = s
  BY DEF AllRowsFor, RowsFor
<1>9. ASSUME NEW x \in T, e[x] # 0 PROVE \E r \in S : h[r] = x
  <2>1. x \in WordsOf(c)
    BY <1>2, <1>6, <1>9 DEF WordsOf
  <2>2. PICK r \in RowsOf(u) : r.word = x
    BY <2>1 DEF AllRowsFor
  <2>3. r \in S /\ h[r] = x
    BY <2>2
  <2> QED BY <2>3
<1> HIDE DEF S, T, f, e, h
<1>10. Sums(g, f, S) /\ Sums(k, e, T)
  BY <1>1, <1>2, <1>3, <1>4, <1>5, <1>6 DEF Sums
<1>11. \A x \in T : e[x] = 0 \/ \E r \in S : h[r] = x
  BY <1>9
<1>12. g[S] = k[T]
  BY <1>7, <1>8, <1>10, <1>11, AddsSame
<1> QED BY <1>3, <1>4, <1>12 DEF T, Occurrences

\* A search answers with the occurrences in a content of each page.
LEMMA SearchCounts ==
  ASSUME TypeOK, Finite, Known, NEW q \in Queries, Search(q) \/ SearchFails(q)
  PROVE  Counted'
<1>1. q \in Seq(Word) /\ words \subseteq Row /\ IsFiniteSet(words)
  BY QueryAssumption DEF TypeOK, Finite
<1>2. CASE Search(q)
  <2>1. PICK s \in Ranked(q) :
          Answered(q, [i \in DOMAIN s |-> [url |-> s[i], relevance |-> Relevance(s[i], q)]], FALSE)
    BY <1>2 DEF Search
  <2>2. versions' = versions
    BY <1>2 DEF Search, history
  <2>3. /\ answer'.query = q /\ DOMAIN answer'.results = DOMAIN s
        /\ \A i \in DOMAIN s : /\ answer'.results[i].url = s[i]
                               /\ answer'.results[i].relevance = Relevance(s[i], q)
    BY <2>1 DEF Answered
  <2>4. \A i \in DOMAIN s : s[i] \in Found(q)
    BY DEF Ranked
  <2>5. ASSUME NEW i \in DOMAIN s
        PROVE  \E c \in Content : /\ <<s[i], c>> \in versions
                                 /\ Relevance(s[i], q) = Occurrences(c, q)
    <3>1. s[i] \in Url /\ RowsOf(s[i]) # {}
      BY <2>4, <2>5 DEF Found
    <3>2. PICK c \in Content : <<s[i], c>> \in versions /\ AllRowsFor(RowsOf(s[i]), s[i], c)
      BY <3>1 DEF Known
    <3>3. Relevance(s[i], q) = Occurrences(c, q)
      BY <1>1, <3>1, <3>2, CountsContent
    <3> QED BY <3>2, <3>3
  <2> QED BY <2>2, <2>3, <2>5 DEF Counted
<1>3. CASE SearchFails(q)
  BY <1>3 DEF SearchFails, Answered, Counted
<1> QED BY <1>2, <1>3

\* The steps of the crawler, as far as Known can tell.
LEMMA CrawlerStep ==
  ASSUME TypeOK, IInv, NEW w \in Writer,
         Work(w) \/ Rollback(w) \/ LostCommit(w) \/ \E u \in Url, c \in Content : Begin(w, u, c)
  PROVE  /\ answer' = answer /\ versions \subseteq versions'
         /\ \A v \in Writer : Past(v)' => \/ Past(v) /\ job'[v] = job[v]
                                         \/ <<job'[v].url, job'[v].content>> \in versions'
         /\ words' = words \/ (pc[w] = "commitWords" /\ ReplaceWords(w))
<1> USE DEF tables, history
<1>1. CASE CommitDocument(w)
  BY <1>1 DEF CommitDocument, StoreDocument, Goto, Past, TypeOK
<1>2. CASE EndJob(w)
  <2>1. \A v \in Writer : Past(v)' => Past(v) /\ job'[v] = job[v]
    BY <1>2 DEF EndJob, Goto, Past, TypeOK
  <2>2. /\ answer' = answer /\ versions \subseteq versions'
        /\ words' = words \/ (pc[w] = "commitWords" /\ ReplaceWords(w))
    <3>1. CASE Work(w) \/ Rollback(w)
      BY <3>1 DEF Work, Select, Update, Insert, CommitDocument, FindOldWords, DeleteOldWords, InsertWord,
         EndInserts, CommitWords, Refused, Rollback, StoreDocument
    <3>2. CASE LostCommit(w)
      BY <3>2 DEF LostCommit, StoreDocument
    <3>3. CASE \E u \in Url, c \in Content : Begin(w, u, c)
      BY <3>3 DEF Begin
    <3> QED BY <3>1, <3>2, <3>3
  <2> QED BY <2>1, <2>2
<1>3. CASE ~CommitDocument(w) /\ ~EndJob(w)
  <2>1. /\ answer' = answer /\ versions' = versions /\ words' = words
        /\ \A v \in Writer : Past(v)' => Past(v) /\ job'[v] = job[v]
    <3>1. CASE Work(w)
      BY <1>3, <3>1 DEF Work, Select, Update, Insert, Refused, FindOldWords, DeleteOldWords, InsertWord,
         EndInserts, CommitWords, Goto, Past, TypeOK
    <3>2. CASE \E u \in Url, c \in Content : Begin(w, u, c)
      BY <3>2 DEF Begin, Goto, Past, TypeOK
    <3> QED BY <1>3, <3>1, <3>2 DEF Rollback, LostCommit
  <2> QED BY <2>1
<1> QED BY <1>1, <1>2, <1>3

LEMMA QuietKnown ==
  ASSUME Known, UNCHANGED <<words, pc, job, versions>>, Counted'
  PROVE  Known'
<1>1. \A w \in Writer : Past(w)' => <<job'[w].url, job'[w].content>> \in versions'
  BY DEF Known, Past
<1>2. \A u \in Url : RowsOf(u)' = RowsOf(u)
  BY DEF RowsOf
<1>3. \A u \in Url : RowsOf(u)' = {} \/ \E c \in Content : /\ <<u, c>> \in versions'
                                                          /\ AllRowsFor(RowsOf(u)', u, c)
  BY <1>2 DEF Known
<1> QED BY <1>1, <1>3 DEF Known, AllRowsFor, RowsFor

LEMMA NextKnown == TypeOK /\ Finite /\ IInv /\ Known /\ [Next]_vars => Known'
<1> SUFFICES ASSUME TypeOK, Finite, IInv, Known, [Next]_vars PROVE Known'
  OBVIOUS
<1>1. ASSUME NEW w \in Writer,
             Work(w) \/ Rollback(w) \/ LostCommit(w) \/ \E u \in Url, c \in Content : Begin(w, u, c)
      PROVE  Known'
  <2>1. /\ answer' = answer /\ versions \subseteq versions'
        /\ \A v \in Writer : Past(v)' => \/ Past(v) /\ job'[v] = job[v]
                                        \/ <<job'[v].url, job'[v].content>> \in versions'
        /\ words' = words \/ (pc[w] = "commitWords" /\ ReplaceWords(w))
    BY <1>1, CrawlerStep
  <2>2. \A v \in Writer : Past(v)' => <<job'[v].url, job'[v].content>> \in versions'
    BY <2>1 DEF Known
  <2>3. ASSUME NEW u \in Url
        PROVE  RowsOf(u)' = {} \/ \E c \in Content : <<u, c>> \in versions' /\ AllRowsFor(RowsOf(u)', u, c)
    <3>1. CASE RowsOf(u)' = RowsOf(u)
      BY <2>1, <3>1 DEF Known
    <3>2. CASE pc[w] = "commitWords" /\ ReplaceWords(w) /\ RowsOf(u)' # RowsOf(u)
      <4>1. u = job[w].url /\ job[w].content \in Content
            /\ {r \in words' : r.url = u} = inserted[w]
            /\ AllRowsFor(inserted[w], u, job[w].content)
        BY <3>2, ReplaceLemma
      <4>2. <<u, job[w].content>> \in versions'
        BY <2>1, <3>2, <4>1 DEF Known, Past
      <4>3. RowsOf(u)' = inserted[w]
        BY <4>1 DEF RowsOf
      <4> QED BY <4>1, <4>2, <4>3
    <3> QED BY <2>1, <3>1, <3>2 DEF RowsOf
  <2>4. Counted'
    BY <2>1 DEF Known, Counted
  <2> QED BY <2>2, <2>3, <2>4 DEF Known, AllRowsFor, RowsFor
<1>2. ASSUME NEW q \in Queries, Search(q) \/ SearchFails(q) PROVE Known'
  <2>1. Counted'
    BY <1>2, SearchCounts
  <2>2. UNCHANGED <<words, pc, job, versions>>
    BY <1>2 DEF Search, SearchFails, tables, history
  <2> QED BY <2>1, <2>2, QuietKnown
<1>3. CASE UNCHANGED vars
  <2>1. Counted'
    BY <1>3 DEF vars, Known, Counted
  <2> QED BY <1>3, <2>1, QuietKnown DEF vars
<1> QED BY <1>1, <1>2, <1>3 DEF Next

\* README.md:80 - the relevance of each page found is the number of occurrences
\* of the words searched for in one content of that page, whatever is being
\* rewritten or given up at the same time.
THEOREM AnswerCorrect == ASSUME OneCrawler PROVE Spec => []AnswerCountsOnePage
<1>1. Init => TypeOK /\ Finite /\ Known
  <2>1. Init => TypeOK /\ Finite
    BY FS_EmptySet, BoundAssumption DEF Init, TypeOK, Finite, Pc
  <2>2. Init => Known
    BY DEF Init, Known, Past, RowsOf, Counted
  <2> QED BY <2>1, <2>2
<1>2. TypeOK /\ Finite /\ IInv /\ Known /\ [Next]_vars => (TypeOK /\ Finite /\ Known)'
  BY NextType, NextKnown
<1>3. Known => AnswerCountsOnePage
  BY CountedMeans DEF Known
<1> QED BY <1>1, <1>2, <1>3, InductiveCorrect, PTL DEF Spec
=============================================================================
