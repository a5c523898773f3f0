--------------------------- MODULE PipelineProofs ---------------------------
(***************************************************************************)
(* pqxx::pipeline, for every number of queries and however many of them    *)
(* are retained: retrieve gives each its own result or an error that is    *)
(* explained.  What makes it right is that the results to be read are      *)
(* those of the issued range, from its first query on, whatever call reads *)
(* them and however far it gets, so the inductive invariant says where the *)
(* range lies, what stands on the connection and what has been kept.       *)
(***************************************************************************)
EXTENDS MachineProofs

-----------------------------------------------------------------------------
(* Queries in their order.                                                 *)

\* The least of a set of numbers.
LEMMA LeastIs ==
  ASSUME NEW set \in SUBSET Nat, set # {}
  PROVE  P!Min(set) \in set /\ \A m \in set : P!Min(set) <= m
<1> DEFINE below == {n \in Nat : \A m \in set : n <= m}
<1>1. \E n \in Nat : n \in below /\ n + 1 \notin below
  <2>1. SUFFICES ASSUME \A n \in Nat : n \in below => n + 1 \in below PROVE FALSE
    OBVIOUS
  <2>2. Nat \subseteq below
    <3> HIDE DEF below
    <3>1. 0 \in below
      BY DEF below
    <3> QED BY <2>1, <3>1, NatSet
  <2>3. PICK m \in set : TRUE
    OBVIOUS
  <2>4. m + 1 \in below
    BY <2>2
  <2> QED BY <2>4
<1>2. PICK n \in Nat : n \in below /\ n + 1 \notin below
  BY <1>1
<1>3. n \in set /\ \A m \in set : n <= m
  BY <1>2
<1> QED BY <1>3 DEF P!Min

\* The sizes are numbers.
Sized == MaxQueries \in Nat /\ MaxRetain \in Nat

\* What comes after a query: the next that is there, or the end.
LEMMA AfterIs ==
  ASSUME Sized, NEW s, s.present \subseteq P!Query, NEW q \in Int, q <= MaxQueries
  PROVE  /\ P!After(s, q) \in s.present \cup {P!End} /\ P!After(s, q) > q
         /\ \A p \in s.present : p > q => P!After(s, q) <= p
         /\ P!After(s, q) <= P!End
<1> DEFINE set == {p \in s.present : p > q} \cup {P!End}
<1>1. set \in SUBSET Nat /\ set # {} /\ P!End > q
  BY DEF Sized, P!Query, P!End
<1>2. P!After(s, q) = P!Min(set)
  BY DEF P!After
<1>3. P!Min(set) \in set /\ \A m \in set : P!Min(set) <= m
  <2> HIDE DEF set
  <2> QED BY <1>1, LeastIs
<1>4. \A p \in s.present : p > q => p \in set
  OBVIOUS
<1>5. P!End \in set
  OBVIOUS
<1>6. \A m \in set : m \in s.present \cup {P!End} /\ m > q
  BY <1>1
<1> HIDE DEF set
<1> QED BY <1>2, <1>3, <1>4, <1>5, <1>6

\* And what it is when one is known to be it.
LEMMA AfterKnown ==
  ASSUME Sized, NEW s, s.present \subseteq P!Query, NEW q \in Int, q <= MaxQueries,
         NEW a \in s.present \cup {P!End}, a > q, \A p \in s.present : p > q => a <= p
  PROVE  P!After(s, q) = a
<1>1. a \in Int /\ P!After(s, q) \in Int /\ P!End \in Int
  BY AfterIs DEF Sized, P!Query, P!End
<1>2. a <= P!End
  BY DEF Sized, P!Query, P!End
<1>3. P!After(s, q) <= a /\ a <= P!After(s, q)
  BY <1>2, AfterIs
<1> QED BY <1>1, <1>3

\* The least of two numbers.
LEMMA LesserOfTwo ==
  ASSUME NEW m \in Int, NEW n \in Int
  PROVE  P!Min({m, n}) = IF m <= n THEN m ELSE n
<1>1. CASE m <= n
  <2>1. \A k \in {m, n} : m <= k
    BY <1>1
  <2>2. \A k \in {m, n} : (\A j \in {m, n} : k <= j) => k = m
    BY <1>1
  <2> QED BY <1>1, <2>1, <2>2 DEF P!Min
<1>2. CASE ~(m <= n)
  <2>1. \A k \in {m, n} : n <= k
    BY <1>2
  <2>2. \A k \in {m, n} : (\A j \in {m, n} : k <= j) => k = n
    BY <1>2
  <2> QED BY <1>2, <2>1, <2>2 DEF P!Min
<1> QED BY <1>1, <1>2


\* The model's number of elements is that of the theorems about finite sets.
LEMMA SameCount == ASSUME NEW set PROVE P!Cardinality(set) = Cardinality(set)
  BY DEF P!Cardinality, Cardinality

Reply == [of : Int, ok : BOOLEAN]

\* A pipeline keeps its fields.
PipeFields ==
  {"present", "res", "first", "second", "retain", "waiting", "last", "dummy", "error", "focus",
   "unread", "active", "failed", "ran", "cancelled", "any", "thrown"}

Shaped(s) == DOMAIN s = PipeFields

\* What no receiving changes, and what only the server does.
Calls(s, t) ==
  /\ Shaped(t)
  /\ t.present = s.present /\ t.last = s.last /\ t.retain = s.retain /\ t.cancelled = s.cancelled
Serves(s, t) == t.failed = s.failed /\ t.ran = s.ran

-----------------------------------------------------------------------------
(* The inductive invariant.                                                *)

\* What the fields hold.
PipeTyped(s) ==
  /\ Shaped(s)
  /\ s.present \subseteq P!Query /\ s.res \in [P!Query -> Reply]
  /\ s.waiting \in Nat /\ s.last \in 0..MaxQueries /\ s.retain \in Nat /\ s.error \in 0..P!NoError
  /\ s.unread \in Seq(Reply) /\ s.ran \in Seq(P!Query)

\* A query whose own fault, or that of another one in its transaction, explains an error.
Spoilt(p) == fault[p] # "fine" \/ (inWork /\ \E e \in P!Query : fault[e] # "fine")

\* What is in m_queries, and where the issued range lies in it.
Placed(s) ==
  /\ s.present \subseteq 1..s.last
  /\ {s.first, s.second} \subseteq s.present \cup {P!End} /\ s.first <= s.second
  /\ s.error # P!NoError => s.error <= s.second /\ s.error <= s.last + 1
  /\ ~P!Pending(s) /\ ~s.cancelled => s.unread = <<>> /\ ~s.dummy
  /\ ~s.cancelled /\ s.first = P!End => \A q \in s.present : q < s.error

\* The results b that are still to be read are those of the queries from the first one issued on,
\* one after the other.
Chain(s, b) ==
  /\ Len(b) <= MaxQueries
  /\ b # <<>> => b[1].of = s.first
  /\ \A i \in 1..Len(b) :
       /\ b[i].of \in s.present /\ s.first <= b[i].of /\ b[i].of < s.second
       /\ ~b[i].ok => Spoilt(b[i].of)
       /\ i < Len(b) => b[i + 1].of = P!After(s, b[i].of)
       /\ \A j \in 1..Len(b) : i < j => b[i].of < b[j].of

\* The query behind those of b.
Behind(s, b) == IF b = <<>> THEN s.first ELSE P!After(s, b[Len(b)].of)

\* They end with the string, or with a query that fails.
Ending(s, b) == Behind(s, b) = s.second \/ \E p \in 1..Behind(s, b) - 1 : Spoilt(p)

\* The dummy failed: some query of the string will, when it is run again.
Failing(s) ==
  /\ Len(s.unread) = 1
  /\ s.failed \/ \E p \in s.present : s.first <= p /\ p < s.second /\ fault[p] = "syntax"
  /\ \A i \in 1..Len(s.ran) : s.ran[i] < s.first

\* What stands on the connection while results are pending: the dummy's and those of the range.
Reads(s) ==
  P!Pending(s) =>
    /\ s.error = P!NoError /\ s.active
    /\ s.dummy => s.unread # <<>> /\ s.unread[1].of = P!Dummy
    /\ s.dummy /\ ~s.unread[1].ok => Failing(s)
    /\ s.dummy /\ s.unread[1].ok => Chain(s, Tail(s.unread)) /\ Ending(s, Tail(s.unread))
    /\ ~s.dummy => Chain(s, s.unread) /\ Ending(s, s.unread)

\* What has been received is each query's own, or a failure that is explained.
Kept(s) ==
  /\ \A q \in s.present : q < s.first /\ q < s.error =>
       IF s.res[q].ok THEN s.res[q].of = q ELSE Spoilt(q)
  /\ s.error = P!NoError => \A q \in P!Query : q >= s.first \/ q > s.last => s.res[q] = P!NoResult

\* The queries that are still to be sent are counted, up to an error.
Unissued(s) == {q \in s.present : q >= s.second}

Counted(s) ==
  /\ s.waiting <= Cardinality(Unissued(s))
  /\ s.error = P!NoError => s.waiting = Cardinality(Unissued(s))

\* What took effect.
RanInOrder(s) ==
  /\ \A i, j \in 1..Len(s.ran) : i < j => s.ran[i] < s.ran[j]
  /\ \A i \in 1..Len(s.ran) : s.ran[i] <= s.last /\ (s.error = P!NoError => s.ran[i] < s.second)

\* An error is the program's, or some query's before it; only a work fails as a whole.
Blamed(s) ==
  /\ s.error # P!NoError => s.cancelled \/ \E p \in 1..s.error - 1 : Spoilt(p)
  /\ s.failed => inWork /\ \E e \in P!Query : fault[e] # "fine"

\* What a call may throw.
Excused(s) ==
  /\ s.thrown # "undefined"
  /\ ~s.cancelled => s.thrown \in {"none", "sql", "earlier error"}

PipeKept(s) ==
  /\ PipeTyped(s) /\ Placed(s) /\ Reads(s) /\ Kept(s) /\ Counted(s) /\ RanInOrder(s) /\ Blamed(s)
  /\ Excused(s)

-----------------------------------------------------------------------------
(* obtain_result, case by case.                                            *)

\* obtain_result, without and with its argument expect_none.
Obtained(s) == P!ObtainResult(s, FALSE)
NoneLeft(s) == P!ObtainResult(s, TRUE)

\* There is no result left, and none is expected.
LEMMA ObtainEnd ==
  ASSUME NEW s, Shaped(s), NEW t, s.unread = <<>>,
         (t = Obtained(s) /\ ~P!Pending(s)) \/ t = NoneLeft(s)
  PROVE  /\ Calls(s, t) /\ Serves(s, t)
         /\ t.waiting = s.waiting /\ t.dummy = s.dummy /\ t.res = s.res /\ t.focus = s.focus
         /\ t.first = s.first /\ t.second = s.second /\ t.error = s.error /\ t.thrown = s.thrown
         /\ ~t.any /\ ~t.active /\ t.unread = s.unread
<1>1. t = [[s EXCEPT !.active = FALSE] EXCEPT !.any = FALSE]
  BY DEF Obtained, NoneLeft, P!ObtainResult, P!TakeEnd
<1> QED BY <1>1 DEF Shaped, PipeFields, Calls, Serves

\* There is none left though one is expected.
LEMMA ObtainShort ==
  ASSUME NEW s, Shaped(s), NEW t, t = Obtained(s),
         s.unread = <<>>, P!Pending(s), s.first # P!End
  PROVE  /\ Calls(s, t) /\ Serves(s, t)
         /\ t.waiting = s.waiting /\ t.dummy = s.dummy /\ t.res = s.res /\ t.focus = s.focus
         /\ t.first = s.first /\ t.second = s.first /\ t.error = P!Min({s.error, s.first})
         /\ t.thrown = s.thrown
         /\ ~t.any /\ ~t.active /\ t.unread = s.unread
<1>0. PICK f, e : f = s.first /\ e = P!Min({s.error, s.first})
  OBVIOUS
<1>1. PICK u : u = [[s EXCEPT !.active = FALSE] EXCEPT !.any = FALSE]
  OBVIOUS
<1>2. t = [[u EXCEPT !.error = P!Min({@, s.first})] EXCEPT !.second = s.first]
  BY <1>1 DEF Obtained, NoneLeft, P!ObtainResult, P!TakeEnd, P!SetErrorAt
<1>3. u.error = s.error
  BY <1>1 DEF Shaped, PipeFields
<1>4. t = [[u EXCEPT !.error = e] EXCEPT !.second = f]
  BY <1>0, <1>2, <1>3
<1> QED BY <1>0, <1>1, <1>4 DEF Shaped, PipeFields, Calls, Serves

\* There is one though none is expected.
LEMMA ObtainMore ==
  ASSUME NEW s, Shaped(s), NEW t, t = Obtained(s),
         s.unread # <<>>, ~P!Pending(s), s.present # {}
  PROVE  /\ Calls(s, t) /\ Serves(s, t)
         /\ t.waiting = s.waiting /\ t.dummy = s.dummy /\ t.res = s.res /\ t.focus = s.focus
         /\ t.first = s.first /\ t.second = s.second /\ t.error = P!Min({s.error, P!Min(s.present)})
         /\ t.thrown = "more results"
         /\ t.any /\ t.active = s.active /\ t.unread = Tail(s.unread)
<1>0. PICK rest, e : rest = Tail(s.unread) /\ e = P!Min({s.error, P!Min(s.present)})
  OBVIOUS
<1>1. PICK u : u = [[s EXCEPT !.unread = rest] EXCEPT !.any = TRUE]
  OBVIOUS
<1>2. t = [[u EXCEPT !.error = P!Min({@, P!Min(s.present)})] EXCEPT !.thrown = "more results"]
  BY <1>0, <1>1 DEF Obtained, NoneLeft, P!ObtainResult, P!TakeResult, P!SetErrorAt, P!Throw
<1>3. u.error = s.error
  BY <1>1 DEF Shaped, PipeFields
<1>4. t = [[u EXCEPT !.error = e] EXCEPT !.thrown = "more results"]
  BY <1>0, <1>2, <1>3
<1> QED BY <1>0, <1>1, <1>4 DEF Shaped, PipeFields, Calls, Serves

\* There is one, and one is expected.
LEMMA ObtainOne ==
  ASSUME NEW s, Shaped(s), NEW t, t = Obtained(s),
         s.unread # <<>>, s.present # {}, P!Pending(s), s.first # P!End, s.res[s.first] = P!NoResult
  PROVE  /\ Calls(s, t) /\ Serves(s, t)
         /\ t.waiting = s.waiting /\ t.dummy = s.dummy /\ t.focus = s.focus
         /\ t.res = [s.res EXCEPT ![s.first] = Head(s.unread)]
         /\ t.first = P!After(s, s.first) /\ t.second = s.second /\ t.error = s.error
         /\ t.thrown = s.thrown
         /\ t.any /\ t.active = s.active /\ t.unread = Tail(s.unread)
<1>0. PICK a, rest, r : /\ a = P!After(s, s.first) /\ rest = Tail(s.unread)
                        /\ r = [s.res EXCEPT ![s.first] = Head(s.unread)]
  OBVIOUS
<1>1. PICK u : u = [[s EXCEPT !.unread = rest] EXCEPT !.any = TRUE]
  OBVIOUS
<1>2. t = [u EXCEPT !.res[s.first] = Head(s.unread), !.first = P!After(s, @)]
  BY <1>0, <1>1 DEF Obtained, NoneLeft, P!ObtainResult, P!TakeResult
<1>3. u.res = s.res /\ u.first = s.first /\ DOMAIN u = PipeFields
  BY <1>1 DEF Shaped, PipeFields
<1>4. t = [[u EXCEPT !.res = r] EXCEPT !.first = a]
  BY <1>0, <1>2, <1>3 DEF PipeFields
<1> QED BY <1>0, <1>1, <1>4 DEF Shaped, PipeFields, Calls, Serves

-----------------------------------------------------------------------------
(* Reading results.                                                        *)

\* In the middle of a string: the dummy is behind, nothing went wrong in the call.
Reading(s) ==
  /\ PipeKept(s) /\ ~s.dummy /\ s.thrown = "none"
  /\ P!Pending(s) \/ s.unread = <<>>

\* The issued range only shrinks, from below, unless an error closes it.
Follows(s, t) ==
  /\ Calls(s, t)
  /\ s.first <= t.first /\ s.waiting <= t.waiting
  /\ t.error = P!NoError => t.second = s.second /\ s.error = P!NoError

\* When the first result of a chain has been taken, the rest is one.
LEMMA ChainOn ==
  ASSUME Sized, NEW s, NEW t, s.present \subseteq P!Query, t.present = s.present,
         s.first \in s.present, s.second \in s.present \cup {P!End},
         t.second = s.second, t.first = P!After(s, s.first),
         NEW b \in Seq(Reply), b # <<>>, Chain(s, b), Ending(s, b)
  PROVE  /\ Chain(t, Tail(b)) /\ Ending(t, Tail(b))
         /\ t.first <= t.second /\ (t.first = t.second => Tail(b) = <<>>)
<1>1. PICK n \in Nat : n = Len(b)
  OBVIOUS
<1>2. n > 0 /\ n <= MaxQueries /\ b[1].of = s.first
  BY <1>1 DEF Chain
<1>3. PICK c \in Seq(Reply) : c = Tail(b)
  <2>1. Tail(b) \in Seq(Reply)
    BY ONLY b \in Seq(Reply), b # <<>>
  <2> QED BY ONLY <2>1
<1>4. Len(c) = n - 1 /\ \A i \in 1..n - 1 : c[i] = b[i + 1]
  BY <1>1, <1>3
<1>5. \A q : P!After(t, q) = P!After(s, q)
  BY DEF P!After
<1>6. /\ s.first \in Nat /\ s.second \in Nat /\ s.first <= MaxQueries /\ t.first \in Nat
      /\ MaxQueries \in Nat
  BY AfterIs DEF Sized, P!Query, P!End
<1>7. s.first < s.second
  BY <1>1, <1>2 DEF Chain
<1>8. t.first <= s.second /\ t.first > s.first
  BY <1>6, <1>7, AfterIs DEF P!Query
<1>9. n > 1 => c[1].of = t.first /\ t.first < s.second
  BY <1>1, <1>2, <1>4 DEF Chain
<1>10. ASSUME NEW i \in 1..n - 1
       PROVE  /\ c[i].of \in s.present /\ t.first <= c[i].of /\ c[i].of < s.second
              /\ ~c[i].ok => Spoilt(c[i].of)
              /\ i < n - 1 => c[i + 1].of = P!After(s, c[i].of)
              /\ \A j \in 1..n - 1 : i < j => c[i].of < c[j].of
  <2>1. i + 1 \in 1..n /\ 1 \in 1..n /\ 1 < i + 1 /\ c[i] = b[i + 1]
    BY <1>2, <1>4
  <2>2. b[i + 1].of \in s.present /\ b[1].of < b[i + 1].of /\ b[i + 1].of < s.second
        /\ (~b[i + 1].ok => Spoilt(b[i + 1].of))
    BY <1>1, <2>1 DEF Chain
  <2>3. t.first <= b[i + 1].of
    BY <1>2, <1>6, <2>2, AfterIs DEF P!Query
  <2>4. i < n - 1 => c[i + 1].of = P!After(s, c[i].of)
    <3> SUFFICES ASSUME i < n - 1 PROVE c[i + 1].of = P!After(s, c[i].of)
      OBVIOUS
    <3>1. i + 1 \in 1..n - 1 /\ i + 1 < n /\ c[i + 1] = b[(i + 1) + 1]
      BY <1>4
    <3>2. b[(i + 1) + 1].of = P!After(s, b[i + 1].of)
      BY <1>1, <2>1, <3>1 DEF Chain
    <3> QED BY <2>1, <3>1, <3>2
  <2>5. ASSUME NEW j \in 1..n - 1, i < j PROVE c[i].of < c[j].of
    <3>1. j + 1 \in 1..n /\ i + 1 < j + 1 /\ c[j] = b[j + 1]
      BY <1>2, <1>4, <2>5
    <3>2. b[i + 1].of < b[j + 1].of
      BY <1>1, <2>1, <3>1 DEF Chain
    <3> QED BY <2>1, <3>1, <3>2
  <2> QED BY <2>1, <2>2, <2>3, <2>4, <2>5
<1>11. Chain(t, c)
  <2>1. Len(c) <= MaxQueries /\ Len(c) \in Nat
    BY <1>2, <1>4, <1>6
  <2>2. c # <<>> => c[1].of = t.first
    BY <1>4, <1>9
  <2> QED BY <1>4, <1>5, <1>10, <2>1, <2>2 DEF Chain
<1>12. Behind(t, c) = Behind(s, b)
  <2>1. Behind(s, b) = P!After(s, b[n].of)
    BY <1>1 DEF Behind
  <2>2. CASE n = 1
    <3>1. c = <<>> /\ b[n].of = s.first
      BY <1>2, <1>4, <2>2
    <3> QED BY <2>1, <3>1 DEF Behind
  <2>3. CASE n # 1
    <3>1. c # <<>> /\ Len(c) = n - 1 /\ c[n - 1] = b[(n - 1) + 1] /\ (n - 1) + 1 = n
      BY <1>2, <1>4, <2>3
    <3> QED BY <1>5, <2>1, <3>1 DEF Behind
  <2> QED BY <2>2, <2>3
<1>13. Ending(t, c)
  BY <1>12 DEF Ending
<1>14. t.first = t.second => c = <<>>
  <2>1. n > 1 => t.first < t.second
    BY <1>9
  <2>2. t.first = t.second => n = 1
    BY <1>2, <1>6, <2>1
  <2> QED BY <1>4, <2>2
<1> QED BY <1>3, <1>8, <1>11, <1>13, <1>14

\* There are finitely many queries that are not issued.
LEMMA UnissuedFinite ==
  ASSUME Sized, NEW s, s.present \subseteq P!Query
  PROVE  IsFiniteSet(Unissued(s)) /\ Cardinality(Unissued(s)) \in Nat
<1>1. IsFiniteSet(1..MaxQueries)
  <2>1. MaxQueries \in Int /\ 1 \in Int
    BY DEF Sized
  <2> QED BY ONLY <2>1, FS_Interval
<1>2. Unissued(s) \subseteq 1..MaxQueries
  BY DEF Unissued, P!Query
<1> QED BY <1>1, <1>2, FS_Subset, FS_CardinalityType

\* When the range becomes longer at its lower end there is no less to be issued.
LEMMA UnissuedMore ==
  ASSUME Sized, NEW s, NEW t, s.present \subseteq P!Query, t.present = s.present,
         s.second \in Int, t.second \in Int, t.second <= s.second
  PROVE  Cardinality(Unissued(s)) <= Cardinality(Unissued(t))
<1>1. Unissued(s) \subseteq Unissued(t)
  BY DEF Unissued, P!Query, Sized
<1> QED BY <1>1, UnissuedFinite, FS_Subset

\* What the numbers of an invariant state are.
LEMMA PipeNumbers ==
  ASSUME Sized, NEW s, PipeKept(s)
  PROVE  /\ s.first \in Nat /\ s.second \in Nat /\ s.error \in Nat /\ s.last \in Nat
         /\ s.present \subseteq P!Query /\ s.waiting \in Nat
         /\ s.first <= s.second /\ s.second <= P!End
         /\ P!Pending(s) => s.first \in s.present /\ s.first < s.second /\ s.first # P!End
                          /\ s.first \in P!Query
<1>1. /\ s.present \subseteq P!Query /\ s.waiting \in Nat /\ s.last \in 0..MaxQueries
      /\ s.error \in 0..P!NoError /\ MaxQueries \in Nat /\ P!NoError = MaxQueries + 2
  BY DEF Sized, PipeKept, PipeTyped, P!NoError
<1>2. s.error \in Nat /\ s.last \in Nat
  BY <1>1
<1>3. P!End \in Nat /\ \A q \in P!Query : q \in Nat /\ q < P!End
  BY <1>1 DEF P!Query, P!End
<1>4. {s.first, s.second} \subseteq s.present \cup {P!End} /\ s.first <= s.second
  BY DEF PipeKept, Placed
<1>5. s.first \in Nat /\ s.second \in Nat /\ s.second <= P!End
  BY <1>1, <1>3, <1>4
<1>6. P!Pending(s) => s.first < s.second
  BY <1>4, <1>5 DEF P!Pending
<1>7. P!Pending(s) => s.first # P!End
  BY <1>3, <1>5, <1>6
<1> QED BY <1>1, <1>2, <1>4, <1>5, <1>6, <1>7

\* A turn of a loop that reads results.
LEMMA ReadingOn ==
  ASSUME Sized, NEW s, Reading(s), NEW t, t = Obtained(s)
  PROVE  /\ Reading(t) /\ Follows(s, t)
         /\ ~P!Pending(s) => ~P!Pending(t)
         /\ P!Pending(s) => ~P!Pending(t) \/ (t.any /\ Len(t.unread) = Len(s.unread) - 1)
<1>1. /\ PipeTyped(s) /\ Placed(s) /\ Reads(s) /\ Kept(s) /\ Counted(s) /\ RanInOrder(s)
      /\ Blamed(s) /\ Excused(s) /\ ~s.dummy /\ s.thrown = "none" /\ Shaped(s)
      /\ s.present \subseteq P!Query
  BY DEF Reading, PipeKept, PipeTyped
<1>2. /\ s.first \in Nat /\ s.second \in Nat /\ s.error \in Nat /\ s.last \in Nat
      /\ s.waiting \in Nat /\ s.first <= s.second /\ s.second <= P!End /\ P!End \in Nat /\ MaxQueries \in Nat
      /\ P!End = MaxQueries + 1 /\ P!NoError = MaxQueries + 2
      /\ P!Pending(s) => s.first \in s.present /\ s.first < s.second /\ s.first # P!End /\ s.first \in P!Query
  BY PipeNumbers DEF Reading, P!End, Sized, P!NoError
<1>3. CASE ~P!Pending(s)
  <2>1. s.unread = <<>>
    BY <1>3 DEF Reading
  <2>2. /\ Calls(s, t) /\ Serves(s, t)
        /\ t.waiting = s.waiting /\ t.dummy = s.dummy /\ t.res = s.res
        /\ t.first = s.first /\ t.second = s.second /\ t.error = s.error /\ t.thrown = s.thrown
        /\ ~t.any /\ ~t.active /\ t.unread = s.unread
    BY <1>1, <1>3, <2>1, ObtainEnd
  <2>3. ~P!Pending(t)
    BY <1>3, <2>2 DEF P!Pending
  <2>4. PipeTyped(t)
    BY <1>1, <2>2 DEF PipeTyped, Calls, Serves
  <2>5. Placed(t) /\ Reads(t) /\ Kept(t)
    BY <1>1, <2>2, <2>3 DEF Placed, Reads, Kept, Calls, Serves, P!Pending
  <2>6. Counted(t) /\ RanInOrder(t)
    BY <1>1, <2>2 DEF Counted, Unissued, RanInOrder, Calls, Serves
  <2>7. Blamed(t) /\ Excused(t)
    BY <1>1, <2>2 DEF Blamed, Excused, Calls, Serves
  <2>8. Follows(s, t)
    BY <1>2, <2>2 DEF Follows
  <2> QED BY <1>1, <1>3, <2>1, <2>2, <2>3, <2>4, <2>5, <2>6, <2>7, <2>8 DEF Reading, PipeKept
<1>4. CASE P!Pending(s) /\ s.unread = <<>>
  <2>1. /\ s.error = P!NoError /\ Ending(s, s.unread)
    BY <1>1, <1>4 DEF Reads
  <2>2. PICK p \in 1..s.first - 1 : Spoilt(p)
    <3>1. Behind(s, s.unread) = s.first /\ s.first # s.second
      BY <1>4 DEF Behind, P!Pending
    <3> QED BY <2>1, <3>1 DEF Ending
  <2>3. P!Min({s.error, s.first}) = s.first
    BY <1>2, <2>1, LesserOfTwo DEF P!Query
  <2>4. /\ Calls(s, t) /\ Serves(s, t)
        /\ t.waiting = s.waiting /\ t.dummy = s.dummy /\ t.res = s.res
        /\ t.first = s.first /\ t.second = s.first /\ t.error = s.first
        /\ t.thrown = s.thrown
        /\ ~t.any /\ ~t.active /\ t.unread = s.unread
    BY <1>1, <1>2, <1>4, <2>3, ObtainShort
  <2>5. s.first \in s.present /\ s.first < s.second /\ s.first \in P!Query /\ s.first # P!NoError
        /\ s.first \in 0..P!NoError
    BY <1>2, <1>4 DEF P!Query
  <2>6. PipeTyped(t)
    BY <1>1, <2>4, <2>5 DEF PipeTyped, Calls, Serves
  <2>7. ~P!Pending(t)
    BY <2>4 DEF P!Pending
  <2>8. s.first <= s.last + 1
    BY <1>1, <1>2, <2>5 DEF Placed
  <2>9. Placed(t)
    BY <1>1, <1>2, <1>4, <2>4, <2>5, <2>8 DEF Placed, Calls
  <2>10. Kept(t)
    BY <1>1, <1>2, <2>1, <2>4, <2>5 DEF Kept, Calls, P!NoError, P!Query
  <2>11. Counted(t)
    <3>1. Cardinality(Unissued(s)) <= Cardinality(Unissued(t))
      BY <1>1, <1>2, <2>4, UnissuedMore DEF Calls
    <3>2. Cardinality(Unissued(s)) \in Nat /\ Cardinality(Unissued(t)) \in Nat
      BY <1>1, <2>4, UnissuedFinite DEF Calls
    <3>3. s.waiting <= Cardinality(Unissued(s))
      BY <1>1 DEF Counted
    <3> QED BY <1>2, <2>4, <2>5, <3>1, <3>2, <3>3 DEF Counted
  <2>12. RanInOrder(t)
    BY <1>1, <2>4, <2>5 DEF RanInOrder, Calls, Serves
  <2>13. Blamed(t) /\ Excused(t)
    BY <1>1, <2>2, <2>4 DEF Blamed, Excused, Calls, Serves
  <2>14. Follows(s, t)
    BY <1>2, <2>4, <2>5 DEF Follows
  <2>15. PipeKept(t)
    <3>1. Reads(t)
      BY <2>7 DEF Reads
    <3> QED BY <2>6, <2>9, <2>10, <2>11, <2>12, <2>13, <3>1 DEF PipeKept
  <2> QED BY <1>1, <1>4, <2>4, <2>7, <2>14, <2>15 DEF Reading
<1>5. CASE P!Pending(s) /\ s.unread # <<>>
  <2>1. /\ s.error = P!NoError /\ Chain(s, s.unread) /\ Ending(s, s.unread) /\ s.active
    BY <1>1, <1>5 DEF Reads
  <2>2. s.first \in s.present /\ s.first < s.second /\ s.first \in P!Query /\ s.first # P!End
        /\ s.second \in s.present \cup {P!End}
    BY <1>1, <1>2, <1>5 DEF Placed
  <2>3. s.res[s.first] = P!NoResult
    BY <1>1, <1>2, <2>1, <2>2 DEF Kept
  <2>4. s.unread \in Seq(Reply)
    BY <1>1 DEF PipeTyped
  <2>5. PICK r \in Reply, rest \in Seq(Reply) :
          r = Head(s.unread) /\ r = s.unread[1] /\ rest = Tail(s.unread)
          /\ Len(rest) = Len(s.unread) - 1
    <3>1. PICK b \in Seq(Reply) : b = s.unread /\ b # <<>>
      BY <1>5, <2>4
    <3>2. Head(b) \in Reply /\ Tail(b) \in Seq(Reply) /\ Head(b) = b[1] /\ Len(Tail(b)) = Len(b) - 1
      <4>1. Tail(b) \in Seq(Reply) /\ Len(Tail(b)) = Len(b) - 1
        BY ONLY <3>1, b \in Seq(Reply)
      <4>2. Len(b) \in Nat /\ Len(b) > 0
        BY ONLY <3>1, b \in Seq(Reply)
      <4>3. b[1] \in Reply
        BY ONLY <4>2, b \in Seq(Reply)
      <4>4. Head(b) = b[1]
        BY ONLY <3>1, b \in Seq(Reply)
      <4> QED BY <4>1, <4>3, <4>4
    <3> QED BY <3>1, <3>2
  <2>6. PICK a : a = P!After(s, s.first)
    OBVIOUS
  <2>7. /\ Calls(s, t) /\ Serves(s, t)
        /\ t.waiting = s.waiting /\ t.dummy = s.dummy
        /\ t.res = [s.res EXCEPT ![s.first] = r]
        /\ t.first = a /\ t.second = s.second /\ t.error = s.error
        /\ t.thrown = s.thrown
        /\ t.any /\ t.active = s.active /\ t.unread = rest
    <3>1. s.present # {}
      BY <2>2
    <3>2. /\ Calls(s, t) /\ Serves(s, t)
          /\ t.waiting = s.waiting /\ t.dummy = s.dummy
          /\ t.res = [s.res EXCEPT ![s.first] = Head(s.unread)]
          /\ t.first = P!After(s, s.first) /\ t.second = s.second /\ t.error = s.error
          /\ t.thrown = s.thrown
          /\ t.any /\ t.active = s.active /\ t.unread = Tail(s.unread)
      BY <1>1, <1>5, <2>2, <2>3, <3>1, ObtainOne
    <3> QED BY <2>5, <2>6, <3>2
  <2>8. /\ Chain(t, rest) /\ Ending(t, rest)
        /\ t.first <= t.second /\ (t.first = t.second => rest = <<>>)
    BY <1>1, <1>5, <2>1, <2>2, <2>4, <2>5, <2>6, <2>7, ChainOn DEF Calls
  <2>9. /\ a \in s.present \cup {P!End} /\ a > s.first /\ a \in Nat
        /\ \A p \in s.present : p > s.first => a <= p
    BY <1>1, <1>2, <2>2, <2>6, AfterIs DEF P!Query
  <2>10. r.of = s.first /\ (~r.ok => Spoilt(s.first))
    <3>1. Len(s.unread) \in Nat /\ Len(s.unread) > 0
      BY <1>5, <2>4
    <3>2. s.unread[1].of = s.first /\ (~s.unread[1].ok => Spoilt(s.unread[1].of))
      BY <1>5, <2>1, <3>1 DEF Chain
    <3> QED BY <2>5, <3>2
  <2>11. s.res \in [P!Query -> Reply]
    BY <1>1 DEF PipeTyped
  <2>12. t.res \in [P!Query -> Reply] /\ t.res[s.first] = r
         /\ \A q \in P!Query : q # s.first => t.res[q] = s.res[q]
    BY <2>2, <2>5, <2>7, <2>11
  <2>13. PipeTyped(t)
    BY <1>1, <2>5, <2>7, <2>12 DEF PipeTyped, Calls, Serves
  <2>14. Placed(t)
    <3>1. ~P!Pending(t) => t.unread = <<>>
      BY <2>7, <2>8 DEF P!Pending
    <3>2. t.error = P!NoError /\ \A q \in t.present : q < P!NoError
      BY <1>1, <1>2, <2>1, <2>7 DEF Calls, P!Query
    <3>3. {t.first, t.second} \subseteq t.present \cup {P!End}
      BY <2>2, <2>7, <2>9 DEF Calls
    <3> QED BY <1>1, <2>7, <2>8, <3>1, <3>2, <3>3 DEF Placed, Calls
  <2>15. Reads(t)
    BY <1>1, <2>1, <2>7, <2>8 DEF Reads
  <2>16. Kept(t)
    <3>1. ASSUME NEW q \in t.present, q < t.first, q < t.error
          PROVE  IF t.res[q].ok THEN t.res[q].of = q ELSE Spoilt(q)
      <4>0. q \in s.present /\ q \in P!Query /\ q \in Nat /\ q < s.error
        BY <1>1, <2>7, <3>1 DEF Calls, P!Query
      <4>1. q <= s.first
        BY <1>2, <2>7, <2>9, <3>1, <4>0
      <4>2. CASE q = s.first
        BY <2>10, <2>12, <4>2
      <4>3. CASE q # s.first
        BY <1>1, <1>2, <2>12, <4>0, <4>1, <4>3 DEF Kept
      <4> QED BY <4>2, <4>3
    <3>2. ASSUME NEW q \in P!Query, q >= t.first \/ q > t.last
          PROVE  t.res[q] = P!NoResult
      <4>1. q \in Nat /\ s.first <= s.last
        BY <1>1, <1>2, <2>2 DEF P!Query, Placed
      <4>2. q # s.first /\ (q >= s.first \/ q > s.last)
        BY <1>2, <2>7, <2>9, <3>2, <4>1 DEF Calls
      <4> QED BY <1>1, <2>1, <2>12, <4>2 DEF Kept
    <3> QED BY <3>1, <3>2 DEF Kept
  <2>17. Counted(t) /\ RanInOrder(t)
    BY <1>1, <2>7 DEF Counted, Unissued, RanInOrder, Calls, Serves
  <2>18. Blamed(t) /\ Excused(t)
    BY <1>1, <2>7 DEF Blamed, Excused, Calls, Serves
  <2>19. Follows(s, t)
    BY <1>2, <2>1, <2>7, <2>9 DEF Follows
  <2>20. P!Pending(t) \/ t.unread = <<>>
    BY <2>7, <2>8 DEF P!Pending
  <2> QED BY <1>1, <1>5, <2>5, <2>7, <2>13, <2>14, <2>15, <2>16, <2>17, <2>18, <2>19, <2>20
          DEF Reading, PipeKept
<1> QED BY <1>3, <1>4, <1>5

-----------------------------------------------------------------------------
(* The loops. Each is a recursive function over the number of its turns,   *)
(* which is shown to exist for all of them at once.                        *)

\* A turn of each loop.
FurtherTurn(k, n, t) ==
  IF (n = 1 \/ t.any) /\ t.thrown = "none" /\ ~(t.active /\ n > k) THEN Obtained(t) ELSE t

HaulTurn(stop, n, t) ==
  IF n = 1 \/ (t.any /\ t.thrown = "none" /\ t.first # stop) THEN Obtained(t) ELSE t

ReplayTurn(stop, n, r) == IF r.goes THEN P!RunAgain(r.state, stop) ELSE r

OrderTurn(queries, n, t) == IF n \in queries THEN Append(t, n) ELSE t

\* A turn of any of them.
Turn(loop, n, t) ==
  IF loop[1] = "further" THEN FurtherTurn(loop[2], n, t)
  ELSE IF loop[1] = "haul" THEN HaulTurn(loop[2], n, t)
  ELSE IF loop[1] = "replay" THEN ReplayTurn(loop[2], n, t)
  ELSE OrderTurn(loop[2], n, t)

\* The states a loop goes through.
Course(g, s, loop, last) ==
  g = [n \in 0..last |-> IF n = 0 THEN s ELSE Turn(loop, n, g[n - 1])]

\* Every loop has a course.
LEMMA CourseExists ==
  ASSUME NEW s, NEW loop, NEW last \in Nat
  PROVE  \E g : Course(g, s, loop, last)
<1> DEFINE Upto(g, k) == g = [n \in 0..k |-> IF n = 0 THEN s ELSE Turn(loop, n, g[n - 1])]
           good == {k \in Nat : \E g : Upto(g, k)}
<1>1. 0 \in good
  <2> DEFINE g == [n \in 0..0 |-> IF n = 0 THEN s ELSE Turn(loop, n, s)]
  <2>1. \A n \in 0..0 : n = 0
    OBVIOUS
  <2>2. Upto(g, 0)
    BY <2>1
  <2> QED BY <2>2
<1>2. ASSUME NEW k \in Nat, k \in good PROVE k + 1 \in good
  <2>1. PICK g : Upto(g, k)
    BY <1>2
  <2> DEFINE h == [n \in 0..k + 1 |-> IF n = k + 1 THEN Turn(loop, n, g[k]) ELSE g[n]]
  <2>2. ASSUME NEW n \in 0..k + 1 PROVE h[n] = IF n = 0 THEN s ELSE Turn(loop, n, h[n - 1])
    <3>1. CASE n = k + 1
      <4>1. k \in 0..k + 1 /\ k # k + 1 /\ n # 0 /\ n - 1 = k
        BY <3>1
      <4>2. h[k] = g[k] /\ h[n] = Turn(loop, n, g[k])
        BY <3>1, <4>1
      <4> HIDE DEF h
      <4> QED BY <4>1, <4>2
    <3>2. CASE n # k + 1
      <4>1. /\ n \in 0..k /\ (n = 0 \/ (n - 1 \in 0..k + 1 /\ n - 1 # k + 1))
        BY <3>2
      <4>2. h[n] = g[n] /\ (n # 0 => h[n - 1] = g[n - 1])
        BY <3>2, <4>1
      <4>3. g[n] = IF n = 0 THEN s ELSE Turn(loop, n, g[n - 1])
        BY <2>1, <4>1
      <4> HIDE DEF h
      <4> QED BY <4>2, <4>3
    <3> QED BY <3>1, <3>2
  <2>3. h = [n \in 0..k + 1 |-> h[n]]
    OBVIOUS
  <2> HIDE DEF h
  <2>4. Upto(h, k + 1)
    BY <2>2, <2>3
  <2> HIDE DEF Upto
  <2> QED BY <2>4
<1> HIDE DEF good
<1>3. Nat \subseteq good
  BY <1>1, <1>2, NatSet
<1>4. last \in good
  BY <1>3
<1> QED BY <1>4 DEF good, Course

\* get_further_available_results has one,
LEMMA FurtherCourse ==
  ASSUME Sized, NEW s, NEW k
  PROVE  \E g : /\ g = [n \in 0..P!Longest |-> IF n = 0 THEN s ELSE FurtherTurn(k, n, g[n - 1])]
                /\ P!GetFurther(s, k) = g[P!Longest]
<1> DEFINE Upto(g) == g = [n \in 0..P!Longest |-> IF n = 0 THEN s ELSE FurtherTurn(k, n, g[n - 1])]
           run == CHOOSE g : Upto(g)
<1> PICK loop : loop = <<"further", k>>
  OBVIOUS
<1>1. \A n, t : Turn(loop, n, t) = FurtherTurn(k, n, t)
  BY DEF Turn
<1>2. P!Longest \in Nat
  BY DEF Sized, P!Longest
<1>3. PICK g : Course(g, s, loop, P!Longest)
  BY <1>2, CourseExists
<1>4. Upto(g)
  BY <1>1, <1>3, Zenon DEF Course
<1>5. Upto(run)
  BY <1>4, Zenon
<1>6. P!GetFurther(s, k) = run[P!Longest]
  BY Zenon DEF P!GetFurther, FurtherTurn, Obtained
<1> HIDE DEF run
<1> QED BY <1>5, <1>6

\* so have the loop of receive,
LEMMA HaulCourse ==
  ASSUME Sized, NEW s, NEW stop
  PROVE  \E g : /\ g = [n \in 0..P!Longest |-> IF n = 0 THEN s ELSE HaulTurn(stop, n, g[n - 1])]
                /\ P!Haul(s, stop) = g[P!Longest]
<1> DEFINE Upto(g) == g = [n \in 0..P!Longest |-> IF n = 0 THEN s ELSE HaulTurn(stop, n, g[n - 1])]
           run == CHOOSE g : Upto(g)
<1> PICK loop : loop = <<"haul", stop>>
  OBVIOUS
<1>1. \A n, t : Turn(loop, n, t) = HaulTurn(stop, n, t)
  BY DEF Turn
<1>2. P!Longest \in Nat
  BY DEF Sized, P!Longest
<1>3. PICK g : Course(g, s, loop, P!Longest)
  BY <1>2, CourseExists
<1>4. Upto(g)
  BY <1>1, <1>3, Zenon DEF Course
<1>5. Upto(run)
  BY <1>4, Zenon
<1>6. P!Haul(s, stop) = run[P!Longest]
  BY Zenon DEF P!Haul, HaulTurn, Obtained
<1> HIDE DEF run
<1> QED BY <1>5, <1>6

\* the loop of obtain_dummy,
LEMMA ReplayCourse ==
  ASSUME Sized, NEW s, NEW stop
  PROVE  \E g : /\ g = [n \in 0..MaxQueries |-> IF n = 0 THEN [state |-> s, goes |-> TRUE]
                                                ELSE ReplayTurn(stop, n, g[n - 1])]
                /\ P!Replay(s, stop) = g[MaxQueries].state
<1> DEFINE base == [state |-> s, goes |-> TRUE]
           Upto(g) == g = [n \in 0..MaxQueries |-> IF n = 0 THEN base ELSE ReplayTurn(stop, n, g[n - 1])]
           run == CHOOSE g : Upto(g)
<1> PICK loop : loop = <<"replay", stop>>
  OBVIOUS
<1>1. \A n, t : Turn(loop, n, t) = ReplayTurn(stop, n, t)
  BY DEF Turn
<1>2. MaxQueries \in Nat
  BY DEF Sized
<1>3. PICK g : Course(g, base, loop, MaxQueries)
  <2> HIDE DEF base
  <2> QED BY <1>2, CourseExists
<1>4. Upto(g)
  BY <1>1, <1>3, Zenon DEF Course
<1>5. Upto(run)
  BY <1>4, Zenon
<1>6. P!Replay(s, stop) = run[MaxQueries].state
  BY Zenon DEF P!Replay, ReplayTurn
<1> HIDE DEF run
<1> QED BY <1>5, <1>6

\* and the one of issue over the queries.
LEMMA OrderCourse ==
  ASSUME Sized, NEW queries
  PROVE  \E g : /\ g = [n \in 0..MaxQueries |-> IF n = 0 THEN <<>> ELSE OrderTurn(queries, n, g[n - 1])]
                /\ P!InTurn(queries) = g[MaxQueries]
<1> DEFINE Upto(g) == g = [n \in 0..MaxQueries |-> IF n = 0 THEN <<>> ELSE OrderTurn(queries, n, g[n - 1])]
           run == CHOOSE g : Upto(g)
<1> PICK loop : loop = <<"order", queries>>
  OBVIOUS
<1>1. \A n, t : Turn(loop, n, t) = OrderTurn(queries, n, t)
  BY DEF Turn
<1>2. MaxQueries \in Nat
  BY DEF Sized
<1>3. PICK g : Course(g, <<>>, loop, MaxQueries)
  BY <1>2, CourseExists
<1>4. Upto(g)
  BY <1>1, <1>3, Zenon DEF Course
<1>5. Upto(run)
  BY <1>4, Zenon
<1>6. P!InTurn(queries) = run[MaxQueries]
  BY Zenon DEF P!InTurn, OrderTurn
<1> HIDE DEF run
<1> QED BY <1>5, <1>6

-----------------------------------------------------------------------------
(* Receiving.                                                              *)

\* What receives nothing leaves the range as it was,
LEMMA FollowsSelf ==
  ASSUME Sized, NEW s, PipeKept(s)
  PROVE  Follows(s, s)
BY PipeNumbers DEF Follows, Calls, PipeKept, PipeTyped

\* and one receipt comes after the other.
LEMMA FollowsOn ==
  ASSUME Sized, NEW s, NEW t, NEW u, PipeKept(s), PipeKept(t), PipeKept(u),
         Follows(s, t), Follows(t, u)
  PROVE  Follows(s, u)
<1>1. /\ {s.first, t.first, u.first, s.waiting, t.waiting, u.waiting} \subseteq Nat
  BY PipeNumbers
<1> QED BY <1>1 DEF Follows, Calls

\* get_further_available_results.
LEMMA FurtherKeeps ==
  ASSUME Sized, NEW s, Reading(s), NEW k, NEW t, t = P!GetFurther(s, k)
  PROVE  Reading(t) /\ Follows(s, t) /\ (~P!Pending(s) => ~P!Pending(t))
<1> DEFINE fine(u) == Reading(u) /\ Follows(s, u) /\ (~P!Pending(s) => ~P!Pending(u))
<1>1. PICK g : /\ g = [n \in 0..P!Longest |-> IF n = 0 THEN s ELSE FurtherTurn(k, n, g[n - 1])]
               /\ P!GetFurther(s, k) = g[P!Longest]
  BY FurtherCourse
<1>2. P!Longest \in Nat
  BY DEF Sized, P!Longest
<1>3. fine(s)
  BY FollowsSelf DEF Reading
<1>4. ASSUME NEW u, NEW n, fine(u) PROVE fine(FurtherTurn(k, n, u))
  <2>1. PICK v : v = Obtained(u)
    OBVIOUS
  <2>2. Reading(v) /\ Follows(u, v) /\ (~P!Pending(u) => ~P!Pending(v))
    BY <1>4, <2>1, ReadingOn
  <2>3. Follows(s, v)
    BY <1>4, <2>2, FollowsOn DEF Reading
  <2>4. fine(v)
    BY <1>4, <2>2, <2>3
  <2> HIDE DEF fine
  <2>5. FurtherTurn(k, n, u) = v \/ FurtherTurn(k, n, u) = u
    BY <2>1 DEF FurtherTurn
  <2> QED BY <1>4, <2>4, <2>5
<1> HIDE DEF fine
<1> DEFINE good == {n \in Nat : n <= P!Longest => fine(g[n])}
<1>5. 0 \in good
  <2>1. g[0] = s
    BY <1>1, <1>2
  <2> QED BY <1>3, <2>1
<1>6. ASSUME NEW n \in Nat, n \in good PROVE n + 1 \in good
  <2> SUFFICES ASSUME n + 1 <= P!Longest PROVE fine(g[n + 1])
    OBVIOUS
  <2>1. fine(g[n])
    BY <1>2, <1>6
  <2>2. g[n + 1] = FurtherTurn(k, n + 1, g[n])
    <3>1. n + 1 \in 0..P!Longest /\ n + 1 # 0 /\ (n + 1) - 1 = n
      BY <1>2
    <3> QED BY <1>1, <3>1
  <2> QED BY <1>4, <2>1, <2>2
<1> HIDE DEF good
<1>7. P!Longest \in good
  BY <1>2, <1>5, <1>6, NatSet
<1>8. fine(t)
  BY <1>1, <1>2, <1>7 DEF good
<1> QED BY <1>8 DEF fine

\* The loop of receive: it ends at the result it looks for, or with the string.
LEMMA HaulKeeps ==
  ASSUME Sized, NEW s, Reading(s), P!Pending(s), NEW stop, NEW t, t = P!Haul(s, stop)
  PROVE  Reading(t) /\ Follows(s, t) /\ (~P!Pending(t) \/ t.first = stop)
<1> DEFINE fine(u) == Reading(u) /\ Follows(s, u)
           near(u, n) == ~P!Pending(u) \/ u.first = stop \/ (u.any /\ Len(u.unread) <= MaxQueries - n)
<1>1. PICK g : /\ g = [n \in 0..P!Longest |-> IF n = 0 THEN s ELSE HaulTurn(stop, n, g[n - 1])]
               /\ P!Haul(s, stop) = g[P!Longest]
  BY HaulCourse
<1>2. P!Longest \in Nat /\ MaxQueries \in Nat /\ P!Longest = MaxQueries + 2
  BY DEF Sized, P!Longest
<1>3. fine(s)
  BY FollowsSelf DEF Reading
<1>4. ASSUME NEW u, Reading(u)
      PROVE  /\ Len(u.unread) \in Nat /\ u.thrown = "none"
             /\ P!Pending(u) => Len(u.unread) <= MaxQueries
  BY <1>4 DEF Reading, PipeKept, PipeTyped, Reads, Chain
<1>5. ASSUME NEW u, NEW n \in Nat, fine(u), n = 0 => P!Pending(u), n > 0 => near(u, n)
      PROVE  fine(HaulTurn(stop, n + 1, u)) /\ near(HaulTurn(stop, n + 1, u), n + 1)
  <2>1. PICK v : v = Obtained(u)
    OBVIOUS
  <2>2. /\ Reading(v) /\ Follows(u, v) /\ (~P!Pending(u) => ~P!Pending(v))
        /\ P!Pending(u) => ~P!Pending(v) \/ (v.any /\ Len(v.unread) = Len(u.unread) - 1)
    BY <1>5, <2>1, ReadingOn
  <2>3. Follows(s, v)
    BY <1>5, <2>2, FollowsOn, <1>3 DEF Reading
  <2>4. fine(v)
    BY <2>2, <2>3
  <2>5. /\ Len(u.unread) \in Nat /\ Len(v.unread) \in Nat /\ u.thrown = "none"
        /\ P!Pending(u) => Len(u.unread) <= MaxQueries
    BY <1>4, <1>5, <2>2
  <2>6. CASE n = 0
    <3>1. HaulTurn(stop, n + 1, u) = v
      BY <2>1, <2>6 DEF HaulTurn
    <3>2. near(v, n + 1)
      BY <1>2, <1>5, <2>2, <2>5, <2>6
    <3> HIDE DEF fine, near
    <3> QED BY <2>4, <3>1, <3>2
  <2>7. CASE n # 0 /\ u.any /\ u.first # stop
    <3>1. HaulTurn(stop, n + 1, u) = v
      BY <2>1, <2>5, <2>7 DEF HaulTurn
    <3>2. n > 0
      BY <2>7
    <3>3. near(v, n + 1)
      BY <1>2, <1>5, <2>2, <2>5, <2>7, <3>2
    <3> HIDE DEF fine, near
    <3> QED BY <2>4, <3>1, <3>3
  <2>8. CASE n # 0 /\ ~(u.any /\ u.first # stop)
    <3>1. HaulTurn(stop, n + 1, u) = u
      <4>1. n + 1 # 1
        BY <2>8
      <4> QED BY <2>8, <4>1 DEF HaulTurn
    <3>2. n > 0
      BY <2>8
    <3>3. near(u, n + 1)
      BY <1>5, <2>8, <3>2
    <3> HIDE DEF fine, near
    <3> QED BY <1>5, <3>1, <3>3
  <2> QED BY <2>6, <2>7, <2>8
<1> HIDE DEF fine, near
<1> DEFINE good == {n \in Nat : n <= P!Longest => fine(g[n]) /\ (n > 0 => near(g[n], n))}
<1>6. g[0] = s
  BY <1>1, <1>2
<1>7. 0 \in good
  BY <1>3, <1>6
<1>8. ASSUME NEW n \in Nat, n \in good PROVE n + 1 \in good
  <2> SUFFICES ASSUME n + 1 <= P!Longest PROVE fine(g[n + 1]) /\ near(g[n + 1], n + 1)
    OBVIOUS
  <2>1. fine(g[n]) /\ (n > 0 => near(g[n], n)) /\ (n = 0 => P!Pending(g[n]))
    BY <1>2, <1>6, <1>8
  <2>2. g[n + 1] = HaulTurn(stop, n + 1, g[n])
    <3>1. n + 1 \in 0..P!Longest /\ n + 1 # 0 /\ (n + 1) - 1 = n
      BY <1>2
    <3> QED BY <1>1, <3>1
  <2>3. PICK u : u = g[n]
    OBVIOUS
  <2> QED BY <1>5, <2>1, <2>2, <2>3
<1> HIDE DEF good
<1>9. P!Longest \in good
  BY <1>2, <1>7, <1>8, NatSet
<1>10. fine(t) /\ near(t, P!Longest)
  BY <1>1, <1>2, <1>9 DEF good
<1>11. ~P!Pending(t) \/ t.first = stop
  <2>1. Len(t.unread) \in Nat
    BY <1>4, <1>10 DEF fine
  <2> QED BY <1>2, <1>10, <2>1 DEF near
<1> QED BY <1>10, <1>11 DEF fine

\* The loop, when a replay has left it nothing to read: it looks once.
LEMMA HaulIdle ==
  ASSUME Sized, NEW s, Reading(s), ~P!Pending(s), NEW stop, NEW t, t = P!Haul(s, stop)
  PROVE  Reading(t) /\ Follows(s, t) /\ ~P!Pending(t)
<1> DEFINE fine(u) == Reading(u) /\ Follows(s, u) /\ ~P!Pending(u)
<1>1. PICK g : /\ g = [n \in 0..P!Longest |-> IF n = 0 THEN s ELSE HaulTurn(stop, n, g[n - 1])]
               /\ P!Haul(s, stop) = g[P!Longest]
  BY HaulCourse
<1>2. P!Longest \in Nat
  BY DEF Sized, P!Longest
<1>3. fine(s)
  BY FollowsSelf DEF Reading
<1>4. ASSUME NEW u, NEW n, fine(u) PROVE fine(HaulTurn(stop, n, u))
  <2>1. PICK v : v = Obtained(u)
    OBVIOUS
  <2>2. Reading(v) /\ Follows(u, v) /\ ~P!Pending(v)
    BY <1>4, <2>1, ReadingOn
  <2>3. fine(v)
    BY <1>3, <1>4, <2>2, FollowsOn DEF Reading
  <2> HIDE DEF fine
  <2>4. HaulTurn(stop, n, u) = v \/ HaulTurn(stop, n, u) = u
    BY <2>1 DEF HaulTurn
  <2> QED BY <1>4, <2>3, <2>4
<1> HIDE DEF fine
<1> DEFINE good == {n \in Nat : n <= P!Longest => fine(g[n])}
<1>5. 0 \in good
  <2>1. g[0] = s
    BY <1>1, <1>2
  <2> QED BY <1>3, <2>1
<1>6. ASSUME NEW n \in Nat, n \in good PROVE n + 1 \in good
  <2> SUFFICES ASSUME n + 1 <= P!Longest PROVE fine(g[n + 1])
    OBVIOUS
  <2>1. fine(g[n])
    BY <1>2, <1>6
  <2>2. g[n + 1] = HaulTurn(stop, n + 1, g[n])
    <3>1. n + 1 \in 0..P!Longest /\ n + 1 # 0 /\ (n + 1) - 1 = n
      BY <1>2
    <3> QED BY <1>1, <3>1
  <2> QED BY <1>4, <2>1, <2>2
<1> HIDE DEF good
<1>7. P!Longest \in good
  BY <1>2, <1>5, <1>6, NatSet
<1>8. fine(t)
  BY <1>1, <1>2, <1>7 DEF good
<1> QED BY <1>8 DEF fine

-----------------------------------------------------------------------------
(* What the server answers.                                                *)

\* How each query fares.
FaultsKnown == fault \in [P!Query -> {"fine", "syntax", "run"}]

\* A string fails as a whole, or a query of it fails by itself.
Unparsed(s, qs) == s.failed \/ \E i \in DOMAIN qs : qs[i] # P!Dummy /\ fault[qs[i]] = "syntax"
FailsRun(q) == q # P!Dummy /\ fault[q] = "run"

\* One result for each query up to the first that fails, or one failure for all.
Answered(s, qs, a) ==
  /\ a \in Seq(Reply) /\ a # <<>> /\ Len(a) <= Len(qs)
  /\ \A i \in 1..Len(a) : a[i].of = qs[i]
  /\ Unparsed(s, qs) => Len(a) = 1 /\ ~a[1].ok
  /\ ~Unparsed(s, qs) =>
       /\ \A i \in 1..Len(a) : a[i].ok <=> ~FailsRun(qs[i])
       /\ \A i \in 1..Len(a) : i < Len(a) => a[i].ok
       /\ Len(a) = Len(qs) \/ ~a[Len(a)].ok

\* That is how the server answers a string.
LEMMA AnswersAre ==
  ASSUME Sized, NEW s, NEW qs \in Seq(P!Query \cup {P!Dummy}), qs # <<>>
  PROVE  Answered(s, qs, P!Answers(s, qs))
<1> PICK a : a = P!Answers(s, qs)
  OBVIOUS
<1>1. PICK k \in Nat : k = Len(qs) /\ k > 0
  BY ONLY qs \in Seq(P!Query \cup {P!Dummy}), qs # <<>>
<1>2. /\ DOMAIN qs = 1..k /\ \A i \in 1..k : qs[i] \in P!Query \cup {P!Dummy}
  BY ONLY <1>1, qs \in Seq(P!Query \cup {P!Dummy})
<1>3. \A i \in 1..k : qs[i] \in Int
  BY <1>2 DEF P!Query, P!Dummy, Sized
<1>4. CASE Unparsed(s, qs)
  <2>1. a = <<P!Result(qs[1], FALSE)>>
    BY <1>4 DEF P!Answers, Unparsed
  <2>2. PICK x : x = P!Result(qs[1], FALSE)
    OBVIOUS
  <2>3. x \in Reply /\ x.of = qs[1] /\ ~x.ok
    BY <1>1, <1>3, <2>2 DEF P!Result, Reply
  <2>4. /\ <<x>> \in Seq(Reply) /\ Len(<<x>>) = 1 /\ <<x>>[1] = x /\ <<x>> # <<>>
    BY <2>3
  <2>5. a = <<x>>
    BY <2>1, <2>2
  <2>6. \A i \in 1..Len(a) : i = 1
    BY <2>4, <2>5
  <2> QED BY <1>1, <1>4, <2>3, <2>4, <2>5, <2>6 DEF Answered
<1>5. CASE ~Unparsed(s, qs)
  <2> DEFINE bad == {i \in 1..k : FailsRun(qs[i])}
             set == bad \cup {k}
  <2>1. PICK n : n = P!Min(set)
    OBVIOUS
  <2>2. n \in 1..k /\ (n = k \/ n \in bad) /\ \A i \in 1..k : i < n => i \notin bad
    <3>1. set \in SUBSET Nat /\ set # {} /\ bad \subseteq 1..k
      BY <1>1
    <3> HIDE DEF bad
    <3>2. P!Min(set) \in set /\ \A m \in set : P!Min(set) <= m
      <4> HIDE DEF set
      <4> QED BY <3>1, LeastIs
    <3>3. n \in set /\ \A m \in set : n <= m
      BY <2>1, <3>2
    <3>4. ASSUME NEW i \in 1..k, i < n, i \in bad PROVE FALSE
      BY <1>1, <3>3, <3>4
    <3> QED BY <1>1, <3>1, <3>3, <3>4
  <2>3. a = [i \in 1..n |-> P!Result(qs[i], i \notin bad)]
    <3>1. a = [i \in 1..P!Min({j \in DOMAIN qs : qs[j] # P!Dummy /\ fault[qs[j]] = "run"} \cup {Len(qs)})
                 |-> P!Result(qs[i], i \notin {j \in DOMAIN qs : qs[j] # P!Dummy /\ fault[qs[j]] = "run"})]
      BY <1>5, Zenon DEF P!Answers, Unparsed
    <3>2. bad = {j \in DOMAIN qs : qs[j] # P!Dummy /\ fault[qs[j]] = "run"}
      BY <1>2 DEF FailsRun
    <3> HIDE DEF bad
    <3> QED BY <1>1, <2>1, <3>1, <3>2
  <2>4. \A i \in 1..n : i \in 1..k
    BY <1>1, <2>2
  <2>5. \A i \in 1..n : i \in bad <=> FailsRun(qs[i])
    BY <2>4
  <2> HIDE DEF bad, set
  <2>6. \A i \in 1..n : /\ P!Result(qs[i], i \notin bad) \in Reply
                        /\ P!Result(qs[i], i \notin bad).of = qs[i]
                        /\ P!Result(qs[i], i \notin bad).ok <=> i \notin bad
    BY <1>3, <2>4 DEF P!Result, Reply
  <2>7. n \in Nat /\ n > 0 /\ n <= k
    BY <1>1, <2>2
  <2>8. a \in Seq(Reply) /\ Len(a) = n
    <3>1. a \in [1..n -> Reply]
      BY <2>3, <2>6
    <3> QED BY ONLY <3>1, <2>7
  <2>9. \A i \in 1..n : a[i].of = qs[i] /\ (a[i].ok <=> i \notin bad)
    BY <2>3, <2>6
  <2>10. \A i \in 1..n : i < n => i \notin bad
    BY <2>2, <2>4
  <2>11. a # <<>>
    BY <2>7, <2>8
  <2>12. n = k \/ ~a[n].ok
    BY <2>2, <2>7, <2>9
  <2>13. \A i \in 1..n : (a[i].ok <=> ~FailsRun(qs[i])) /\ (i < n => a[i].ok)
    BY <2>5, <2>9, <2>10
  <2>14. Len(a) <= Len(qs) /\ (Len(a) = Len(qs) \/ ~a[Len(a)].ok)
    BY <1>1, <2>7, <2>8, <2>12
  <2> HIDE DEF Unparsed
  <2> QED BY <1>5, <2>8, <2>9, <2>11, <2>13, <2>14 DEF Answered
<1> QED BY <1>4, <1>5

\* A query by itself.
LEMMA AnswerAlone ==
  ASSUME Sized, FaultsKnown, NEW s, NEW q \in P!Query, NEW a, a = P!Answers(s, <<q>>)
  PROVE  /\ a[1].ok <=> (~s.failed /\ fault[q] = "fine")
         /\ P!Last(a).ok <=> a[1].ok
<1>1. PICK qs : qs = <<q>>
  OBVIOUS
<1>2. q # P!Dummy /\ fault[q] \in {"fine", "syntax", "run"}
  BY DEF P!Query, P!Dummy, Sized, FaultsKnown
<1>3. qs \in Seq(P!Query \cup {P!Dummy}) /\ qs # <<>> /\ Len(qs) = 1 /\ qs[1] = q /\ DOMAIN qs = {1}
  BY <1>1
<1>4. Unparsed(s, qs) <=> s.failed \/ fault[q] = "syntax"
  BY <1>2, <1>3 DEF Unparsed
<1>5. FailsRun(q) <=> fault[q] = "run"
  BY <1>2 DEF FailsRun
<1>6. /\ a \in Seq(Reply) /\ a # <<>> /\ Len(a) <= Len(qs)
      /\ Unparsed(s, qs) => ~a[1].ok
      /\ ~Unparsed(s, qs) => \A i \in 1..Len(a) : a[i].ok <=> ~FailsRun(qs[i])
  <2>1. Answered(s, qs, a)
    BY <1>1, <1>3, AnswersAre
  <2> QED BY <2>1 DEF Answered
<1>7. Len(a) = 1
  BY <1>3, <1>6
<1>8. P!Last(a) = a[1]
  BY <1>7 DEF P!Last
<1>9. a[1].ok <=> ~Unparsed(s, qs) /\ ~FailsRun(q)
  BY <1>3, <1>6, <1>7
<1> QED BY <1>2, <1>4, <1>5, <1>8, <1>9

\* What a string has the server do.
Deeds(qs) == IF qs[1] = P!Dummy THEN Tail(qs) ELSE qs

\* The server has run a string, or given it up.
LEMMA RunIs ==
  ASSUME NEW s, Shaped(s), NEW qs, NEW t, t = P!Run(s, qs)
  PROVE  /\ Calls(s, t)
         /\ t.first = s.first /\ t.second = s.second /\ t.waiting = s.waiting /\ t.dummy = s.dummy
         /\ t.error = s.error /\ t.focus = s.focus /\ t.unread = s.unread /\ t.active = s.active
         /\ t.any = s.any /\ t.thrown = s.thrown /\ t.res = s.res
         /\ t.failed <=> s.failed \/ (inWork /\ ~P!Last(P!Answers(s, qs)).ok)
         /\ P!Last(P!Answers(s, qs)).ok => t.ran = s.ran \o Deeds(qs)
         /\ ~P!Last(P!Answers(s, qs)).ok => t.ran = s.ran
<1>1. PICK f : f = (s.failed \/ (inWork /\ ~P!Last(P!Answers(s, qs)).ok))
  OBVIOUS
<1>2. PICK r : r = IF P!Last(P!Answers(s, qs)).ok THEN s.ran \o Deeds(qs) ELSE s.ran
  OBVIOUS
<1>3. t = [s EXCEPT !.failed = f, !.ran = r]
  BY <1>1, <1>2, Zenon DEF P!Run, Deeds
<1>4. /\ Calls(s, t)
      /\ t.first = s.first /\ t.second = s.second /\ t.waiting = s.waiting /\ t.dummy = s.dummy
      /\ t.error = s.error /\ t.focus = s.focus /\ t.unread = s.unread /\ t.active = s.active
      /\ t.any = s.any /\ t.thrown = s.thrown /\ t.res = s.res
      /\ t.failed = f /\ t.ran = r
  BY ONLY <1>3, Shaped(s) DEF Shaped, PipeFields, Calls
<1>5. t.failed <=> s.failed \/ (inWork /\ ~P!Last(P!Answers(s, qs)).ok)
  BY <1>1, <1>4, Zenon
<1> QED BY <1>2, <1>4, <1>5

-----------------------------------------------------------------------------
(* Running a string again, query by query.                                 *)

\* What one turn of the replay changes, from s to t.
RanAgain(s, t, q, next) ==
  /\ Calls(s, t)
  /\ t.first = next /\ t.waiting = s.waiting - 1 /\ t.dummy = s.dummy
  /\ t.unread = s.unread /\ t.thrown = s.thrown
  /\ ~s.failed /\ fault[q] = "fine" =>
       /\ ~t.failed /\ t.ran = s.ran \o <<q>> /\ t.second = s.second /\ t.error = s.error
       /\ t.res = [s.res EXCEPT ![q] = P!Result(q, TRUE)]
  /\ ~(~s.failed /\ fault[q] = "fine") =>
       /\ t.failed => s.failed \/ inWork
       /\ t.ran = s.ran /\ t.second = next /\ t.res = s.res
       /\ t.error = P!Min({s.error, IF next = P!End THEN q + 1 ELSE next})

\* The first query of the range, run by itself.
LEMMA RunAgainIs ==
  ASSUME Sized, FaultsKnown, NEW s, Shaped(s), NEW stop, NEW r, r = P!RunAgain(s, stop),
         NEW q \in P!Query, q = s.first
  PROVE  /\ RanAgain(s, r.state, q, P!After(s, q))
         /\ r.goes <=> ~s.failed /\ fault[q] = "fine" /\ P!After(s, q) # stop
<1>1. PICK next : next = P!After(s, q)
  OBVIOUS
<1>2. PICK qs : qs = <<q>>
  OBVIOUS
<1>3. PICK u : u = P!Run(s, qs)
  OBVIOUS
<1>4. PICK a : a = P!Answers(s, qs)
  OBVIOUS
<1>5. (a[1].ok <=> (~s.failed /\ fault[q] = "fine")) /\ (P!Last(a).ok <=> a[1].ok)
  BY <1>2, <1>4, AnswerAlone
<1>6. qs[1] = q /\ q # P!Dummy
  BY <1>2 DEF P!Query, P!Dummy, Sized
<1>7. /\ Calls(s, u)
      /\ u.first = s.first /\ u.second = s.second /\ u.waiting = s.waiting /\ u.dummy = s.dummy
      /\ u.error = s.error /\ u.focus = s.focus /\ u.unread = s.unread /\ u.active = s.active
      /\ u.any = s.any /\ u.thrown = s.thrown /\ u.res = s.res
      /\ u.failed <=> s.failed \/ (inWork /\ ~P!Last(a).ok)
      /\ P!Last(a).ok => u.ran = s.ran \o qs
      /\ ~P!Last(a).ok => u.ran = s.ran
  <2>1. /\ Calls(s, u)
        /\ u.first = s.first /\ u.second = s.second /\ u.waiting = s.waiting /\ u.dummy = s.dummy
        /\ u.error = s.error /\ u.focus = s.focus /\ u.unread = s.unread /\ u.active = s.active
        /\ u.any = s.any /\ u.thrown = s.thrown /\ u.res = s.res
        /\ u.failed <=> s.failed \/ (inWork /\ ~P!Last(P!Answers(s, qs)).ok)
        /\ P!Last(P!Answers(s, qs)).ok => u.ran = s.ran \o Deeds(qs)
        /\ ~P!Last(P!Answers(s, qs)).ok => u.ran = s.ran
    BY <1>3, RunIs
  <2>2. Deeds(qs) = qs
    BY <1>6 DEF Deeds
  <2> QED BY <1>4, <2>1, <2>2
<1>8. Shaped(u)
  BY <1>7 DEF Calls
<1>9. PICK w : w = u.waiting - 1
  OBVIOUS
<1>10. PICK v : v = [u EXCEPT !.waiting = w, !.first = next]
  OBVIOUS
<1>11. /\ Calls(s, v)
       /\ v.first = next /\ v.second = s.second /\ v.waiting = w /\ v.dummy = s.dummy
       /\ v.error = s.error /\ v.focus = s.focus /\ v.unread = s.unread /\ v.active = s.active
       /\ v.any = s.any /\ v.thrown = s.thrown /\ v.res = s.res
       /\ v.failed = u.failed /\ v.ran = u.ran
  BY <1>7, <1>8, <1>10 DEF Calls, Shaped, PipeFields
<1>12. /\ r = IF a[1].ok
              THEN [state |-> [v EXCEPT !.res[q] = P!Result(q, TRUE)], goes |-> next # stop]
              ELSE [state |-> [P!SetErrorAt(v, IF next = P!End THEN q + 1 ELSE next) EXCEPT !.second = next],
                    goes |-> FALSE]
  <2>1. u.first = q
    BY <1>7
  <2>2. v = [P!Run(s, <<q>>) EXCEPT !.waiting = @ - 1, !.first = next]
    BY <1>2, <1>3, <1>9, <1>10
  <2> QED BY <1>1, <1>2, <1>4, <2>2, Zenon DEF P!RunAgain
<1>13. CASE a[1].ok
  <2>1. PICK t, x : x = [v.res EXCEPT ![q] = P!Result(q, TRUE)] /\ t = [v EXCEPT !.res = x]
    OBVIOUS
  <2>2. r.state = t /\ (r.goes <=> next # stop)
    <3>1. t = [v EXCEPT !.res[q] = P!Result(q, TRUE)]
      BY <2>1
    <3>2. r = [state |-> t, goes |-> next # stop]
      BY <1>12, <1>13, <3>1, Zenon
    <3> QED BY ONLY <3>2
  <2>3. /\ Calls(s, t)
        /\ t.first = next /\ t.second = s.second /\ t.waiting = w /\ t.dummy = s.dummy
        /\ t.error = s.error /\ t.focus = s.focus /\ t.unread = s.unread /\ t.active = s.active
        /\ t.any = s.any /\ t.thrown = s.thrown /\ t.res = x
        /\ t.failed = u.failed /\ t.ran = u.ran
    BY <1>11, <2>1 DEF Calls, Shaped, PipeFields
  <2>4. ~u.failed /\ u.ran = s.ran \o qs
    BY <1>5, <1>7, <1>13
  <2>5. x = [s.res EXCEPT ![q] = P!Result(q, TRUE)]
    BY <1>11, <2>1
  <2>6. RanAgain(s, t, q, next)
    BY <1>2, <1>5, <1>7, <1>9, <1>13, <2>3, <2>4, <2>5 DEF RanAgain
  <2> QED BY <1>1, <1>5, <1>13, <2>2, <2>6
<1>14. CASE ~a[1].ok
  <2>1. PICK m, e : m = (IF next = P!End THEN q + 1 ELSE next) /\ e = P!Min({v.error, m})
    OBVIOUS
  <2>2. PICK t : t = [[v EXCEPT !.error = e] EXCEPT !.second = next]
    OBVIOUS
  <2>3. r.state = t /\ ~r.goes
    BY <1>12, <1>14, <2>1, <2>2 DEF P!SetErrorAt
  <2>4. /\ Calls(s, t)
        /\ t.first = next /\ t.second = next /\ t.waiting = w /\ t.dummy = s.dummy
        /\ t.error = e /\ t.focus = s.focus /\ t.unread = s.unread /\ t.active = s.active
        /\ t.any = s.any /\ t.thrown = s.thrown /\ t.res = s.res
        /\ t.failed = u.failed /\ t.ran = u.ran
    BY <1>11, <2>2 DEF Calls, Shaped, PipeFields
  <2>5. (u.failed => s.failed \/ inWork) /\ u.ran = s.ran
    BY <1>5, <1>7, <1>14
  <2>6. e = P!Min({s.error, IF P!After(s, q) = P!End THEN q + 1 ELSE P!After(s, q)})
    BY <1>1, <1>11, <2>1
  <2>7. RanAgain(s, t, q, next)
    BY <1>1, <1>5, <1>7, <1>9, <1>14, <2>4, <2>5, <2>6 DEF RanAgain
  <2> QED BY <1>1, <1>5, <1>14, <2>3, <2>7
<1> QED BY <1>13, <1>14

\* Before a turn of the replay: what the string's queries from s on had, up to the one whose turn it
\* is, and that one of the others will fail.
Replaying(s, t) ==
  /\ Calls(s, t) /\ t.error = P!NoError /\ ~t.dummy /\ t.unread = <<>> /\ t.thrown = "none"
  /\ t.first \in s.present /\ s.first <= t.first /\ t.first < s.second
  /\ t.waiting = Cardinality({p \in s.present : p >= t.first})
  /\ t.res \in [P!Query -> Reply]
  /\ \A p \in P!Query : p < s.first => t.res[p] = s.res[p]
  /\ \A p \in s.present : s.first <= p /\ p < t.first => t.res[p] = P!Result(p, TRUE)
  /\ \A p \in s.present : t.first <= p /\ p < s.second => ~t.res[p].ok
  /\ t.failed => inWork /\ \E e \in P!Query : fault[e] # "fine"
  /\ t.failed \/ \E p \in s.present : t.first <= p /\ p < s.second /\ fault[p] = "syntax"
  /\ t.ran \in Seq(P!Query)
  /\ \A i, j \in 1..Len(t.ran) : i < j => t.ran[i] < t.ran[j]
  /\ \A i \in 1..Len(t.ran) : t.ran[i] < t.first

\* Behind it: one has failed, and all is as it should be.
Replayed(s, t) ==
  /\ PipeKept(t) /\ Calls(s, t) /\ ~P!Pending(t) /\ t.error # P!NoError /\ ~t.dummy /\ t.unread = <<>>
  /\ t.thrown = "none" /\ s.first <= t.first /\ s.waiting <= t.waiting

\* A turn of the replay.
LEMMA ReplayOn ==
  ASSUME Sized, FaultsKnown, NEW s, PipeKept(s), P!Pending(s), NEW t, Replaying(s, t),
         NEW r, r = P!RunAgain(t, s.second)
  PROVE  \/ r.goes /\ Replaying(s, r.state) /\ r.state.first > t.first
         \/ ~r.goes /\ Replayed(s, r.state)
<1>1. /\ PipeTyped(s) /\ Placed(s) /\ Reads(s) /\ Kept(s) /\ Counted(s) /\ RanInOrder(s)
      /\ Blamed(s) /\ Excused(s) /\ s.present \subseteq P!Query
  BY DEF PipeKept, PipeTyped
<1>2. /\ s.first \in Nat /\ s.second \in Nat /\ s.last \in Nat /\ s.waiting \in Nat
      /\ s.second <= P!End /\ P!End \in Nat /\ MaxQueries \in Nat
      /\ P!End = MaxQueries + 1 /\ P!NoError = MaxQueries + 2 /\ s.error = P!NoError
  BY <1>1, PipeNumbers DEF P!End, Sized, P!NoError, Reads
<1>3. /\ Calls(s, t) /\ t.error = P!NoError /\ ~t.dummy /\ t.unread = <<>> /\ t.thrown = "none"
      /\ t.first \in s.present /\ s.first <= t.first /\ t.first < s.second
      /\ t.waiting = Cardinality({p \in s.present : p >= t.first})
      /\ t.res \in [P!Query -> Reply]
      /\ \A p \in P!Query : p < s.first => t.res[p] = s.res[p]
      /\ \A p \in s.present : s.first <= p /\ p < t.first => t.res[p] = P!Result(p, TRUE)
      /\ \A p \in s.present : t.first <= p /\ p < s.second => ~t.res[p].ok
      /\ t.failed => inWork /\ \E e \in P!Query : fault[e] # "fine"
      /\ t.failed \/ \E p \in s.present : t.first <= p /\ p < s.second /\ fault[p] = "syntax"
      /\ t.ran \in Seq(P!Query)
      /\ \A i, j \in 1..Len(t.ran) : i < j => t.ran[i] < t.ran[j]
      /\ \A i \in 1..Len(t.ran) : t.ran[i] < t.first
  BY DEF Replaying
<1>4. PICK q \in P!Query : q = t.first
  BY <1>1, <1>3
<1>5. q \in Nat /\ q > 0 /\ q <= MaxQueries /\ q \in s.present /\ Shaped(t) /\ q <= s.last
  BY <1>1, <1>3, <1>4 DEF P!Query, Sized, Calls, Placed
<1>6. PICK next : next = P!After(t, q)
  OBVIOUS
<1>7. /\ next \in s.present \cup {P!End} /\ next > q /\ next <= s.second /\ next \in Nat
      /\ \A p \in s.present : p > q => next <= p
  <2>1. t.present = s.present
    BY <1>3 DEF Calls
  <2>2. /\ next \in s.present \cup {P!End} /\ next > q /\ next <= P!End
        /\ \A p \in s.present : p > q => next <= p
    BY <1>1, <1>5, <1>6, <2>1, AfterIs
  <2>3. s.second \in s.present \cup {P!End} /\ s.second > q
    BY <1>1, <1>3, <1>4 DEF Placed
  <2>4. next \in Nat
    BY <1>1, <1>2, <2>2 DEF P!Query
  <2> QED BY <1>2, <2>2, <2>3, <2>4
<1>8. PICK u : u = r.state
  OBVIOUS
<1>9. /\ Calls(t, u)
      /\ u.first = next /\ u.waiting = t.waiting - 1 /\ u.dummy = t.dummy
      /\ u.unread = t.unread /\ u.thrown = t.thrown
      /\ ~t.failed /\ fault[q] = "fine" =>
              /\ r.goes <=> next # s.second
              /\ ~u.failed /\ u.ran = t.ran \o <<q>> /\ u.second = t.second /\ u.error = t.error
              /\ u.res = [t.res EXCEPT ![q] = P!Result(q, TRUE)]
      /\ ~(~t.failed /\ fault[q] = "fine") =>
              /\ ~r.goes
              /\ u.failed => t.failed \/ inWork
              /\ u.ran = t.ran /\ u.second = next /\ u.res = t.res
              /\ u.error = P!Min({t.error, IF next = P!End THEN q + 1 ELSE next})
  <2>1. RanAgain(t, u, q, next) /\ (r.goes <=> ~t.failed /\ fault[q] = "fine" /\ next # s.second)
    BY <1>4, <1>5, <1>6, <1>8, RunAgainIs
  <2> QED BY <2>1 DEF RanAgain
<1>10. Calls(s, u)
  BY <1>3, <1>9 DEF Calls
<1>11. u.waiting = Cardinality({p \in s.present : p >= next})
  <2>1. PICK set : set = {p \in s.present : p >= q}
    OBVIOUS
  <2>2. IsFiniteSet(set) /\ q \in set
    <3>1. IsFiniteSet(1..MaxQueries)
      <4>1. MaxQueries \in Int /\ 1 \in Int
        BY <1>2
      <4> QED BY ONLY <4>1, FS_Interval
    <3>2. set \subseteq 1..MaxQueries
      BY <1>1, <2>1 DEF P!Query
    <3>3. IsFiniteSet(set)
      BY <3>1, <3>2, FS_Subset
    <3>4. q \in set
      BY <1>5, <2>1
    <3> QED BY <3>3, <3>4
  <2>3. {p \in s.present : p >= next} = set \ {q}
    BY <1>1, <1>5, <1>7, <2>1 DEF P!Query
  <2>4. Cardinality(set \ {q}) = Cardinality(set) - 1
    BY <2>2, FS_RemoveElement
  <2>5. t.waiting = Cardinality(set)
    BY <1>3, <1>4, <2>1
  <2>6. u.waiting = Cardinality(set) - 1
    BY <1>9, <2>5
  <2> QED BY <2>3, <2>4, <2>6
<1>12. CASE ~t.failed /\ fault[q] = "fine"
  <2>1. /\ r.goes <=> next # s.second
        /\ ~u.failed /\ u.ran = t.ran \o <<q>> /\ u.second = t.second /\ u.error = t.error
        /\ u.res = [t.res EXCEPT ![q] = P!Result(q, TRUE)]
    BY <1>9, <1>12
  <2>2. PICK p \in s.present : q <= p /\ p < s.second /\ fault[p] = "syntax"
    BY <1>3, <1>4, <1>12
  <2>3. p \in Nat /\ p # q /\ next <= p
    BY <1>1, <1>5, <1>7, <1>12, <2>2 DEF P!Query
  <2>4. next < s.second /\ r.goes /\ next \in s.present
    BY <1>2, <1>7, <2>1, <2>2, <2>3
  <2>5. /\ u.res \in [P!Query -> Reply] /\ u.res[q] = P!Result(q, TRUE)
        /\ \A m \in P!Query : m # q => u.res[m] = t.res[m]
    <3>1. P!Result(q, TRUE) \in Reply
      BY <1>5 DEF P!Result, Reply
    <3>2. PICK o : o = P!Result(q, TRUE)
      OBVIOUS
    <3>3. u.res = [t.res EXCEPT ![q] = o] /\ o \in Reply /\ t.res \in [P!Query -> Reply]
      BY <1>3, <1>4, <2>1, <3>1, <3>2
    <3> QED BY ONLY <3>2, <3>3, q \in P!Query
  <2>6. /\ u.ran \in Seq(P!Query)
        /\ \A i, j \in 1..Len(u.ran) : i < j => u.ran[i] < u.ran[j]
        /\ \A i \in 1..Len(u.ran) : u.ran[i] < next
    <3>1. PICK n \in Nat : n = Len(t.ran)
      BY <1>3
    <3>0. PICK c \in Seq(P!Query) : c = t.ran
      BY <1>3
    <3>2. PICK d : d = u.ran
      OBVIOUS
    <3>a. d = c \o <<q>>
      BY <2>1, <3>0, <3>2
    <3>b. /\ d \in Seq(P!Query) /\ Len(d) = Len(c) + 1 /\ d[Len(c) + 1] = q
          /\ \A i \in 1..Len(c) : d[i] = c[i]
      BY ONLY <3>a, <3>0, <1>4
    <3>3. d \in Seq(P!Query) /\ Len(d) = n + 1 /\ d[n + 1] = q /\ \A i \in 1..n : d[i] = t.ran[i]
      BY <3>0, <3>1, <3>b
    <3>4. \A i \in 1..n : t.ran[i] < q /\ t.ran[i] \in Nat
      BY <1>3, <1>4, <1>2, <3>1 DEF P!Query
    <3>5. \A i, j \in 1..n : i < j => t.ran[i] < t.ran[j]
      BY <1>3, <3>1
    <3>6. \A i \in 1..n + 1 : i \in 1..n \/ i = n + 1
      BY <3>1
    <3>7. \A i, j \in 1..n + 1 : i < j => d[i] < d[j]
      <4>1. ASSUME NEW i \in 1..n + 1, NEW j \in 1..n + 1, i < j PROVE d[i] < d[j]
        <5>1. i \in 1..n
          BY <4>1, <3>1
        <5> QED BY ONLY <5>1, <4>1, <3>3, <3>4, <3>5, <3>6
      <4> QED BY <4>1
    <3>8. \A i \in 1..n + 1 : d[i] < next
      <4>1. ASSUME NEW i \in 1..n + 1 PROVE d[i] < next
        BY ONLY <3>3, <3>4, <3>6, <1>5, <1>7, <4>1
      <4> QED BY <4>1
    <3> QED BY <3>2, <3>3, <3>7, <3>8
  <2>7. ASSUME NEW m \in P!Query, m < s.first PROVE u.res[m] = s.res[m]
    <3>1. m # q /\ t.res[m] = s.res[m]
      <4>1. m \in Nat
        BY <1>2 DEF P!Query
      <4> QED BY <1>2, <1>3, <1>4, <1>5, <2>7, <4>1
    <3> QED BY <2>5, <3>1
  <2>8. \A m \in s.present : s.first <= m /\ m < next => u.res[m] = P!Result(m, TRUE)
    <3>1. ASSUME NEW m \in s.present, s.first <= m, m < next PROVE u.res[m] = P!Result(m, TRUE)
      <4>1. m \in P!Query /\ m \in Nat /\ m <= q
        BY <1>1, <1>5, <1>7, <3>1 DEF P!Query
      <4>2. CASE m = q
        BY <2>5, <4>2
      <4>3. CASE m < q
        <5>1. t.res[m] = P!Result(m, TRUE)
          BY <1>3, <1>4, <3>1, <4>3
        <5> QED BY <1>5, <2>5, <4>1, <4>3, <5>1
      <4>4. m = q \/ m < q
        BY ONLY <1>5, <4>1
      <4> QED BY <4>2, <4>3, <4>4
    <3> QED BY <3>1
  <2>9. \A m \in s.present : next <= m /\ m < s.second => ~u.res[m].ok
    BY <1>1, <1>3, <1>4, <1>5, <1>7, <2>5 DEF P!Query
  <2>10. s.first <= next
    BY <1>2, <1>3, <1>4, <1>5, <1>7
  <2>11. Replaying(s, u)
    BY <1>3, <1>9, <1>10, <1>11, <2>1, <2>2, <2>3, <2>4, <2>5, <2>6, <2>7, <2>8, <2>9, <2>10
       DEF Replaying
  <2> QED BY <1>4, <1>7, <1>8, <1>9, <2>4, <2>11
<1>13. CASE ~(~t.failed /\ fault[q] = "fine")
  <2>1. /\ ~r.goes
        /\ u.failed => t.failed \/ inWork
        /\ u.ran = t.ran /\ u.second = next /\ u.res = t.res
        /\ u.error = P!Min({t.error, IF next = P!End THEN q + 1 ELSE next})
    BY <1>9, <1>13
  <2>2. u.error = (IF next = P!End THEN q + 1 ELSE next) /\ u.error <= next
        /\ u.error \in 0..P!NoError /\ u.error # P!NoError /\ u.error > q /\ u.error <= s.last + 1
    <3>1. PICK m \in Nat : m = IF next = P!End THEN q + 1 ELSE next
      BY <1>5, <1>7
    <3>2. m <= next /\ m > q /\ m <= s.last + 1 /\ m < P!NoError
      <4>1. next # P!End => next <= s.last
        BY <1>1, <1>7 DEF Placed
      <4> QED BY <1>2, <1>5, <1>7, <3>1, <4>1
    <3>3. P!Min({t.error, m}) = m
      BY <1>2, <1>3, <3>1, <3>2, LesserOfTwo
    <3> QED BY <1>2, <2>1, <3>1, <3>2, <3>3
  <2>3. Spoilt(q)
    BY <1>3, <1>13 DEF Spoilt
  <2>4. ~P!Pending(u)
    BY <1>9, <2>1 DEF P!Pending
  <2>5. PipeTyped(u)
    <3>1. u.waiting \in Nat
      BY <1>2, <1>10, <1>11, <1>7, <1>1, UnissuedFinite, <2>1 DEF Calls, Unissued
    <3>2. u.unread \in Seq(Reply)
      BY <1>3, <1>9
    <3> QED BY <1>1, <1>3, <1>10, <2>1, <2>2, <3>1, <3>2 DEF PipeTyped, Calls
  <2>6. Placed(u)
    <3>1. u.first = next /\ u.second = next /\ u.unread = <<>> /\ ~u.dummy
      BY <1>3, <1>9, <2>1
    <3>2. next = P!End => \A p \in s.present : p < u.error
      BY <1>1, <1>2, <1>5, <1>7, <2>2 DEF P!Query
    <3> QED BY <1>1, <1>7, <1>10, <2>2, <3>1, <3>2 DEF Placed, Calls
  <2>7. Reads(u)
    BY <2>4 DEF Reads
  <2>8. Kept(u)
    <3>1. ASSUME NEW m \in s.present, m < next
          PROVE  IF u.res[m].ok THEN u.res[m].of = m ELSE Spoilt(m)
      <4>1. m \in P!Query /\ m \in Nat /\ m <= q /\ u.res[m] = t.res[m]
        BY <1>1, <1>5, <1>7, <2>1, <3>1 DEF P!Query
      <4>2. CASE m = q
        BY <1>3, <1>4, <2>3, <4>1, <4>2
      <4>3. CASE m < s.first
        <5>1. u.res[m] = s.res[m] /\ m < s.error
          BY <1>2, <1>3, <4>1, <4>3 DEF P!Query
        <5> QED BY <1>1, <4>3, <5>1 DEF Kept
      <4>4. CASE m # q /\ s.first <= m
        <5>1. u.res[m] = P!Result(m, TRUE)
          <6>1. m < t.first
            BY <1>4, <1>5, <4>1, <4>4
          <6> QED BY <1>3, <4>1, <4>4, <6>1
        <5> QED BY <5>1 DEF P!Result
      <4> QED BY <1>2, <4>1, <4>2, <4>3, <4>4
    <3> QED BY <1>9, <1>10, <2>2, <3>1 DEF Kept, Calls
  <2>9. Counted(u)
    <3>1. u.waiting = Cardinality(Unissued(u)) /\ Cardinality(Unissued(u)) \in Nat
      BY <1>1, <1>10, <1>11, <2>1, UnissuedFinite DEF Calls, Unissued
    <3> QED BY <3>1 DEF Counted
  <2>10. RanInOrder(u)
    <3>1. \A i \in 1..Len(t.ran) : t.ran[i] <= s.last
      <4>1. ASSUME NEW i \in 1..Len(t.ran) PROVE t.ran[i] <= s.last
        <5>1. t.ran[i] < q /\ t.ran[i] \in P!Query
          BY <1>3, <1>4
        <5>2. t.ran[i] \in Nat
          BY <1>2, <5>1 DEF P!Query
        <5> QED BY <1>2, <1>5, <5>1, <5>2
      <4> QED BY <4>1
    <3> QED BY <1>3, <1>10, <2>1, <2>2, <3>1 DEF RanInOrder, Calls
  <2>11. Blamed(u)
    <3>1. q \in 1..u.error - 1
      BY <1>5, <2>2
    <3>2. u.failed => inWork /\ \E e \in P!Query : fault[e] # "fine"
      BY <1>3, <1>13, <2>1
    <3> QED BY <2>3, <3>1, <3>2 DEF Blamed
  <2>12. Excused(u)
    BY <1>3, <1>9 DEF Excused
  <2>13. s.first <= next
    BY <1>2, <1>3, <1>4, <1>5, <1>7
  <2>14. s.waiting <= u.waiting
    <3>1. Cardinality(Unissued(s)) <= Cardinality(Unissued(u))
      BY <1>1, <1>2, <1>7, <1>10, <2>1, UnissuedMore DEF Calls
    <3>2. s.waiting = Cardinality(Unissued(s))
      BY <1>1, <1>2 DEF Counted
    <3>3. u.waiting = Cardinality(Unissued(u))
      BY <1>10, <1>11, <2>1 DEF Calls, Unissued
    <3> QED BY <3>1, <3>2, <3>3
  <2>15. Replayed(s, u)
    BY <1>3, <1>9, <1>10, <2>2, <2>4, <2>5, <2>6, <2>7, <2>8, <2>9, <2>10, <2>11, <2>12, <2>13, <2>14
       DEF Replayed, PipeKept
  <2> QED BY <1>8, <2>1, <2>15
<1> QED BY <1>12, <1>13

\* A replay: the queries of a string of which one fails, up to that one.
LEMMA ReplayKeeps ==
  ASSUME Sized, FaultsKnown, NEW s, PipeKept(s), P!Pending(s), NEW u, Replaying(s, u)
  PROVE  Replayed(s, P!Replay(u, s.second))
<1> DEFINE base == [state |-> u, goes |-> TRUE]
           fine(r, n) == \/ r.goes /\ Replaying(s, r.state) /\ r.state.first > n
                         \/ ~r.goes /\ Replayed(s, r.state)
<1>1. PICK g : /\ g = [n \in 0..MaxQueries |-> IF n = 0 THEN base ELSE ReplayTurn(s.second, n, g[n - 1])]
               /\ P!Replay(u, s.second) = g[MaxQueries].state
  BY ReplayCourse
<1>2. MaxQueries \in Nat
  BY DEF Sized
<1>3. ASSUME NEW t, Replaying(s, t) PROVE t.first \in Nat /\ t.first > 0 /\ t.first <= MaxQueries
  <2>1. t.first \in P!Query
    BY <1>3 DEF Replaying, PipeKept, PipeTyped
  <2> QED BY <1>2, <2>1 DEF P!Query
<1>4. base.goes /\ base.state = u
  OBVIOUS
<1>5. fine(base, 0)
  BY <1>3, <1>4
<1>6. ASSUME NEW r, NEW n \in Nat, fine(r, n) PROVE fine(ReplayTurn(s.second, n + 1, r), n + 1)
  <2>1. CASE r.goes
    <3>1. PICK v : v = P!RunAgain(r.state, s.second)
      OBVIOUS
    <3>2. \/ v.goes /\ Replaying(s, v.state) /\ v.state.first > r.state.first
          \/ ~v.goes /\ Replayed(s, v.state)
      BY <1>6, <2>1, <3>1, ReplayOn
    <3>3. ReplayTurn(s.second, n + 1, r) = v
      BY <2>1, <3>1 DEF ReplayTurn
    <3>4. v.goes => v.state.first > n + 1
      <4> SUFFICES ASSUME v.goes PROVE v.state.first > n + 1
        OBVIOUS
      <4>1. v.state.first \in Nat /\ r.state.first \in Nat /\ r.state.first > n
            /\ v.state.first > r.state.first
        BY <1>3, <1>6, <2>1, <3>2
      <4> QED BY <4>1
    <3> QED BY <3>2, <3>3, <3>4
  <2>2. CASE ~r.goes
    <3>1. ReplayTurn(s.second, n + 1, r) = r
      BY <2>2 DEF ReplayTurn
    <3> QED BY <1>6, <2>2, <3>1
  <2> QED BY <2>1, <2>2
<1> HIDE DEF fine, base
<1> DEFINE good == {n \in Nat : n <= MaxQueries => fine(g[n], n)}
<1>7. 0 \in good
  <2>1. g[0] = base
    BY <1>1, <1>2
  <2> QED BY <1>5, <2>1
<1>8. ASSUME NEW n \in Nat, n \in good PROVE n + 1 \in good
  <2> SUFFICES ASSUME n + 1 <= MaxQueries PROVE fine(g[n + 1], n + 1)
    OBVIOUS
  <2>1. fine(g[n], n)
    BY <1>2, <1>8
  <2>2. g[n + 1] = ReplayTurn(s.second, n + 1, g[n])
    <3>1. n + 1 \in 0..MaxQueries /\ n + 1 # 0 /\ (n + 1) - 1 = n
      BY <1>2
    <3> QED BY <1>1, <3>1
  <2> QED BY <1>6, <2>1, <2>2
<1> HIDE DEF good
<1>9. MaxQueries \in good
  BY <1>2, <1>7, <1>8, NatSet
<1>10. fine(g[MaxQueries], MaxQueries)
  BY <1>2, <1>9 DEF good
<1>11. PICK r : r = g[MaxQueries]
  OBVIOUS
<1>12. ~(r.goes /\ Replaying(s, r.state) /\ r.state.first > MaxQueries)
  BY <1>2, <1>3
<1> QED BY <1>1, <1>10, <1>11, <1>12 DEF fine

-----------------------------------------------------------------------------
(* The dummy.                                                              *)

\* The queries of the range.
Issued(s) == {p \in s.present : s.first <= p /\ p < s.second}

\* The dummy's result, when it has come.
LEMMA DummyFine ==
  ASSUME NEW s, Shaped(s), s.unread # <<>>, Head(s.unread).ok, NEW t, t = P!ObtainDummy(s)
  PROVE  /\ Calls(s, t) /\ Serves(s, t)
         /\ t.waiting = s.waiting /\ t.res = s.res /\ t.focus = s.focus
         /\ t.first = s.first /\ t.second = s.second /\ t.error = s.error /\ t.thrown = s.thrown
         /\ t.any = s.any /\ t.active = s.active /\ t.unread = Tail(s.unread) /\ ~t.dummy
<1>1. PICK rest : rest = Tail(s.unread)
  OBVIOUS
<1>2. t = [[s EXCEPT !.unread = rest] EXCEPT !.dummy = FALSE]
  BY <1>1, Zenon DEF P!ObtainDummy, P!TakeResult
<1> QED BY <1>1, <1>2 DEF Shaped, PipeFields, Calls, Serves

\* When it failed, the string's queries get its result before they are run again.
LEMMA DummyFailed ==
  ASSUME NEW s, Shaped(s), s.unread # <<>>, ~Head(s.unread).ok, Tail(s.unread) = <<>>,
         s.res \in [P!Query -> Reply], NEW t, t = P!ObtainDummy(s)
  PROVE  \E u :
           /\ t = P!Replay(u, s.second)
           /\ Calls(s, u) /\ Serves(s, u)
           /\ u.waiting = s.waiting + Cardinality(Issued(s))
           /\ u.res = [q \in P!Query |-> IF q \in Issued(s) THEN Head(s.unread) ELSE s.res[q]]
           /\ u.first = s.first /\ u.second = s.first /\ u.error = s.error
           /\ u.thrown = s.thrown /\ ~u.active /\ u.unread = <<>> /\ ~u.dummy
<1>1. PICK rest, r, size, x :
        /\ rest = Tail(s.unread) /\ r = Head(s.unread) /\ size = Cardinality(Issued(s))
        /\ x = [q \in P!Query |-> IF q \in Issued(s) THEN r ELSE s.res[q]]
  OBVIOUS
<1>2. PICK a : a = [[s EXCEPT !.unread = rest] EXCEPT !.dummy = FALSE]
  OBVIOUS
<1>3. PICK b : b = [a EXCEPT !.res = x]
  OBVIOUS
<1>4. PICK c : c = NoneLeft(b)
  OBVIOUS
<1>5. PICK w : w = c.waiting + size
  OBVIOUS
<1>6. PICK u : u = [[c EXCEPT !.waiting = w] EXCEPT !.second = s.first, !.focus = FALSE]
  OBVIOUS
<1>7. /\ Calls(s, b) /\ Serves(s, b)
      /\ b.waiting = s.waiting /\ b.res = x
      /\ b.first = s.first /\ b.second = s.second /\ b.error = s.error /\ b.thrown = s.thrown
      /\ b.unread = rest /\ ~b.dummy
  BY <1>2, <1>3 DEF Shaped, PipeFields, Calls, Serves
<1>8. /\ Calls(b, c) /\ Serves(b, c)
      /\ c.waiting = b.waiting /\ c.dummy = b.dummy /\ c.res = b.res
      /\ c.first = b.first /\ c.second = b.second /\ c.error = b.error /\ c.thrown = b.thrown
      /\ ~c.any /\ ~c.active /\ c.unread = b.unread
  <2>1. b.unread = <<>> /\ Shaped(b)
    BY <1>1, <1>7 DEF Calls
  <2> QED BY <1>4, <2>1, ObtainEnd
<1>9. /\ Calls(c, u) /\ Serves(c, u)
      /\ u.waiting = w /\ u.dummy = c.dummy /\ u.res = c.res
      /\ u.first = c.first /\ u.second = s.first /\ u.error = c.error /\ u.thrown = c.thrown
      /\ u.active = c.active /\ u.unread = c.unread
  BY <1>6, <1>8 DEF Shaped, PipeFields, Calls, Serves
<1>10. t = P!Replay(u, s.second)
  <2>1. a.res = s.res
    BY <1>2 DEF Shaped, PipeFields
  <2>2. [a EXCEPT !.res = [q \in P!Query |->
           IF q \in s.present /\ s.first <= q /\ q < s.second THEN r ELSE @[q]]] = b
    <3>1. x = [q \in P!Query |-> IF q \in s.present /\ s.first <= q /\ q < s.second THEN r ELSE a.res[q]]
      BY <1>1, <2>1 DEF Issued
    <3> QED BY <1>3, <3>1, Zenon
  <2>3. a = [P!TakeResult(s) EXCEPT !.dummy = FALSE]
    BY <1>1, <1>2 DEF P!TakeResult
  <2>4. size = Cardinality({q \in s.present : s.first <= q /\ q < s.second})
    BY <1>1 DEF Issued
  <2>5. u = [P!ObtainResult(b, TRUE) EXCEPT !.waiting = @ + size, !.second = s.first, !.focus = FALSE]
    BY <1>4, <1>5, <1>6, Zenon DEF NoneLeft
  <2>6. size = P!Cardinality({q \in s.present : s.first <= q /\ q < s.second})
    BY <2>4, SameCount
  <2> QED BY <1>1, <2>2, <2>3, <2>5, <2>6, Zenon DEF P!ObtainDummy
<1>11. Calls(s, u) /\ Serves(s, u)
  BY <1>7, <1>8, <1>9 DEF Calls, Serves
<1>12. /\ u.waiting = s.waiting + size /\ u.res = x
       /\ u.first = s.first /\ u.second = s.first /\ u.error = s.error
       /\ u.thrown = s.thrown /\ ~u.active /\ u.unread = <<>> /\ ~u.dummy
  BY <1>1, <1>5, <1>7, <1>8, <1>9
<1> QED BY <1>1, <1>10, <1>11, <1>12

\* A call that meets the dummy: the string's own results are next, or it has been run again.
LEMMA DummyKeeps ==
  ASSUME Sized, FaultsKnown, NEW s, PipeKept(s), P!Pending(s), s.dummy, s.thrown = "none",
         NEW t, t = P!ObtainDummy(s)
  PROVE  Reading(t) /\ Follows(s, t)
<1>1. /\ PipeTyped(s) /\ Placed(s) /\ Reads(s) /\ Kept(s) /\ Counted(s) /\ RanInOrder(s)
      /\ Blamed(s) /\ Excused(s) /\ s.present \subseteq P!Query /\ Shaped(s)
      /\ s.res \in [P!Query -> Reply] /\ s.unread \in Seq(Reply)
  BY DEF PipeKept, PipeTyped
<1>2. /\ s.first \in Nat /\ s.second \in Nat /\ s.last \in Nat /\ s.waiting \in Nat
      /\ s.second <= P!End /\ MaxQueries \in Nat /\ P!End = MaxQueries + 1
      /\ s.error = P!NoError /\ s.first \in s.present /\ s.first < s.second
  BY <1>1, PipeNumbers DEF P!End, Sized, Reads
<1>3. /\ s.unread # <<>>
      /\ ~s.unread[1].ok => Failing(s)
      /\ s.unread[1].ok => Chain(s, Tail(s.unread)) /\ Ending(s, Tail(s.unread))
  BY <1>1 DEF Reads
<1>4. PICK rest \in Seq(Reply), r \in Reply :
        rest = Tail(s.unread) /\ r = Head(s.unread) /\ r = s.unread[1]
        /\ Len(rest) = Len(s.unread) - 1
  <2>1. PICK b \in Seq(Reply) : b = s.unread /\ b # <<>>
    BY <1>1, <1>3
  <2>2. Tail(b) \in Seq(Reply) /\ Len(Tail(b)) = Len(b) - 1
    BY ONLY <2>1, b \in Seq(Reply)
  <2>3. Len(b) \in Nat /\ Len(b) > 0
    BY ONLY <2>1, b \in Seq(Reply)
  <2>4. b[1] \in Reply
    BY ONLY <2>3, b \in Seq(Reply)
  <2>5. Head(b) = b[1]
    BY ONLY <2>1, b \in Seq(Reply)
  <2> QED BY <2>1, <2>2, <2>4, <2>5
<1>5. CASE r.ok
  <2>1. /\ Calls(s, t) /\ Serves(s, t)
        /\ t.waiting = s.waiting /\ t.res = s.res
        /\ t.first = s.first /\ t.second = s.second /\ t.error = s.error /\ t.thrown = s.thrown
        /\ t.active = s.active /\ t.unread = rest /\ ~t.dummy
    BY <1>1, <1>3, <1>4, <1>5, DummyFine
  <2>2. Chain(s, rest) /\ Ending(s, rest)
    BY <1>3, <1>4, <1>5
  <2>3. \A q : P!After(t, q) = P!After(s, q)
    BY <2>1 DEF P!After, Calls
  <2>4. Chain(t, rest)
    BY <2>1, <2>2, <2>3 DEF Chain, Calls
  <2>5. Ending(t, rest)
    BY <2>1, <2>2, <2>3 DEF Ending, Behind
  <2>6. P!Pending(t)
    BY <2>1 DEF P!Pending
  <2>7. PipeTyped(t)
    BY <1>1, <1>4, <2>1 DEF PipeTyped, Calls, Serves
  <2>8. Placed(t)
    BY <1>1, <2>1, <2>6 DEF Placed, Calls
  <2>9. Reads(t)
    BY <1>1, <2>1, <2>4, <2>5 DEF Reads
  <2>10. Kept(t) /\ Counted(t)
    BY <1>1, <2>1 DEF Kept, Counted, Unissued, Calls
  <2>11. RanInOrder(t) /\ Blamed(t) /\ Excused(t)
    BY <1>1, <2>1 DEF RanInOrder, Blamed, Excused, Calls, Serves
  <2>12. Follows(s, t)
    BY <1>2, <2>1 DEF Follows
  <2> QED BY <2>1, <2>6, <2>7, <2>8, <2>9, <2>10, <2>11, <2>12 DEF Reading, PipeKept
<1>6. CASE ~r.ok
  <2>1. Failing(s)
    BY <1>3, <1>4, <1>6
  <2>2. rest = <<>>
    BY <1>4, <2>1 DEF Failing
  <2>3. PICK u :
           /\ t = P!Replay(u, s.second)
           /\ Calls(s, u) /\ Serves(s, u)
           /\ u.waiting = s.waiting + Cardinality(Issued(s))
           /\ u.res = [q \in P!Query |-> IF q \in Issued(s) THEN Head(s.unread) ELSE s.res[q]]
           /\ u.first = s.first /\ u.second = s.first /\ u.error = s.error
           /\ u.thrown = s.thrown /\ ~u.active /\ u.unread = <<>> /\ ~u.dummy
    BY <1>1, <1>3, <1>4, <1>6, <2>2, DummyFailed
  <2>4. u.res = [q \in P!Query |-> IF q \in Issued(s) THEN r ELSE s.res[q]]
    BY <1>4, <2>3
  <2>5. u.waiting = Cardinality({p \in s.present : p >= s.first})
    <3>1. PICK set : set = {p \in s.present : p >= s.first}
      OBVIOUS
    <3>2. set = Issued(s) \cup Unissued(s) /\ Issued(s) \cap Unissued(s) = {}
      BY <1>1, <1>2, <3>1 DEF Issued, Unissued, P!Query
    <3>3. IsFiniteSet(1..MaxQueries)
      <4>1. MaxQueries \in Int /\ 1 \in Int
        BY <1>2
      <4> QED BY ONLY <4>1, FS_Interval
    <3>4. Issued(s) \subseteq 1..MaxQueries /\ Unissued(s) \subseteq 1..MaxQueries
      BY <1>1 DEF P!Query, Issued, Unissued
    <3>5. IsFiniteSet(Issued(s)) /\ IsFiniteSet(Unissued(s))
      BY <3>3, <3>4, FS_Subset
    <3>6. /\ Cardinality(Issued(s) \cup Unissued(s))
               = Cardinality(Issued(s)) + Cardinality(Unissued(s)) - Cardinality(Issued(s) \cap Unissued(s))
      BY <3>5, FS_Union
    <3>7. Cardinality(Issued(s)) \in Nat /\ Cardinality(Unissued(s)) \in Nat
      BY <3>5, FS_CardinalityType
    <3>8. Cardinality({}) = 0
      BY FS_EmptySet
    <3>9. s.waiting = Cardinality(Unissued(s))
      BY <1>1, <1>2 DEF Counted
    <3>10. PICK m \in Nat, n \in Nat : m = Cardinality(Issued(s)) /\ n = Cardinality(Unissued(s))
      BY <3>7
    <3>11. Cardinality(set) = m + n - 0
      BY <3>2, <3>6, <3>8, <3>10
    <3>12. u.waiting = n + m
      BY <2>3, <3>9, <3>10
    <3> QED BY <3>1, <3>10, <3>11, <3>12
  <2>6. /\ u.res \in [P!Query -> Reply]
        /\ \A p \in P!Query : p < s.first => u.res[p] = s.res[p]
        /\ \A p \in s.present : s.first <= p /\ p < s.second => ~u.res[p].ok
    <3>1. \A p \in P!Query : p \in Nat
      BY <1>2 DEF P!Query
    <3>2. u.res \in [P!Query -> Reply]
      BY <1>1, <1>4, <2>4
    <3>3. \A p \in P!Query : p < s.first => p \notin Issued(s)
      BY <1>2, <3>1 DEF Issued
    <3>4. \A p \in s.present : s.first <= p /\ p < s.second => p \in Issued(s) /\ p \in P!Query
      BY <1>1 DEF Issued
    <3> QED BY <1>6, <2>4, <3>2, <3>3, <3>4
  <2>7. \A p \in s.present : s.first <= p /\ p < s.first => u.res[p] = P!Result(p, TRUE)
    <3>1. ASSUME NEW p \in s.present, s.first <= p, p < s.first PROVE FALSE
      <4>1. p \in Nat
        BY <1>1, <1>2 DEF P!Query
      <4> QED BY <1>2, <3>1, <4>1
    <3> QED BY <3>1
  <2>8. /\ u.failed => inWork /\ \E e \in P!Query : fault[e] # "fine"
        /\ u.failed \/ \E p \in s.present : s.first <= p /\ p < s.second /\ fault[p] = "syntax"
        /\ u.ran \in Seq(P!Query)
        /\ \A i, j \in 1..Len(u.ran) : i < j => u.ran[i] < u.ran[j]
        /\ \A i \in 1..Len(u.ran) : u.ran[i] < s.first
    <3>1. u.failed = s.failed /\ u.ran = s.ran
      BY <2>3 DEF Serves
    <3> QED BY <1>1, <2>1, <3>1 DEF Failing, Blamed, PipeTyped, RanInOrder
  <2>9. Replaying(s, u)
    <3>0. u.first = s.first
      BY <2>3
    <3>1. /\ Calls(s, u) /\ u.error = P!NoError /\ ~u.dummy /\ u.unread = <<>> /\ u.thrown = "none"
          /\ u.first \in s.present /\ s.first <= u.first /\ u.first < s.second
          /\ u.waiting = Cardinality({p \in s.present : p >= u.first})
      BY <1>2, <2>3, <2>5
    <3>2. /\ u.res \in [P!Query -> Reply]
          /\ \A p \in P!Query : p < s.first => u.res[p] = s.res[p]
          /\ \A p \in s.present : s.first <= p /\ p < u.first => u.res[p] = P!Result(p, TRUE)
          /\ \A p \in s.present : u.first <= p /\ p < s.second => ~u.res[p].ok
      BY <2>6, <2>7, <3>0
    <3>3. /\ u.failed => inWork /\ \E e \in P!Query : fault[e] # "fine"
          /\ u.failed \/ \E p \in s.present : u.first <= p /\ p < s.second /\ fault[p] = "syntax"
          /\ u.ran \in Seq(P!Query)
          /\ \A i, j \in 1..Len(u.ran) : i < j => u.ran[i] < u.ran[j]
          /\ \A i \in 1..Len(u.ran) : u.ran[i] < u.first
      BY <2>8, <3>0
    <3> QED BY <3>1, <3>2, <3>3, Zenon DEF Replaying
  <2>10. Replayed(s, t)
    <3>1. Replayed(s, P!Replay(u, s.second))
      BY <2>9, ReplayKeeps
    <3> QED BY <2>3, <3>1
  <2> QED BY <2>10 DEF Replayed, Reading, Follows
<1> QED BY <1>5, <1>6

\* The stages of receive_if_available.
LEMMA LookIs ==
  ASSUME NEW s, NEW k, NEW u, u = IF s.dummy THEN P!ObtainDummy(s) ELSE s,
         NEW m, m = IF s.dummy THEN k - 1 ELSE k, NEW t, t = P!ReceiveIfAvailable(s, k)
  PROVE  t = IF s.active /\ k = 0 THEN s
             ELSE IF u.thrown # "none" \/ ~P!Pending(u) THEN u ELSE P!GetFurther(u, m)
<1> DEFINE on(x) == IF P!Pending(x) THEN P!GetFurther(x, IF s.dummy THEN k - 1 ELSE k) ELSE x
           all(x) == IF s.dummy THEN P!ObtainDummy(x) ELSE x
<1>1. t = IF s.active /\ k = 0 THEN s ELSE P!Then(all(s), LAMBDA x : on(x))
  BY DEF P!ReceiveIfAvailable
<1>2. P!Then(all(s), LAMBDA x : on(x)) = IF all(s).thrown = "none" THEN on(all(s)) ELSE all(s)
  <2> HIDE DEF all, on
  <2> QED BY DEF P!Then
<1>3. all(s) = u
  OBVIOUS
<1>4. on(u) = IF P!Pending(u) THEN P!GetFurther(u, m) ELSE u
  OBVIOUS
<1> HIDE DEF all, on
<1> QED BY <1>1, <1>2, <1>3, <1>4

\* receive_if_available.
LEMMA LookKeeps ==
  ASSUME Sized, FaultsKnown, NEW s, PipeKept(s), P!Pending(s), s.thrown = "none", NEW k,
         NEW t, t = P!ReceiveIfAvailable(s, k)
  PROVE  PipeKept(t) /\ t.thrown = "none" /\ Follows(s, t)
<1>1. CASE t = s
  BY <1>1, FollowsSelf
<1>2. CASE t # s
  <2>1. PICK u : u = IF s.dummy THEN P!ObtainDummy(s) ELSE s
    OBVIOUS
  <2>2. Reading(u) /\ Follows(s, u)
    <3>1. CASE s.dummy
      BY <2>1, <3>1, DummyKeeps
    <3>2. CASE ~s.dummy
      BY <2>1, <3>2, FollowsSelf DEF Reading
    <3> QED BY <3>1, <3>2
  <2>3. u.thrown = "none"
    BY <2>2 DEF Reading
  <2>4. PICK m : m = IF s.dummy THEN k - 1 ELSE k
    OBVIOUS
  <2>5. t = u \/ t = P!GetFurther(u, m)
    BY ONLY <1>2, <2>1, <2>4, LookIs, t = P!ReceiveIfAvailable(s, k)
  <2>6. CASE t = u
    BY <2>2, <2>6 DEF Reading
  <2>7. CASE t = P!GetFurther(u, m)
    <3>1. Reading(t) /\ Follows(u, t)
      BY <2>2, <2>7, FurtherKeeps
    <3> QED BY <2>2, <3>1, FollowsOn DEF Reading
  <2> QED BY <2>5, <2>6, <2>7
<1> QED BY <1>1, <1>2

\* The two stages of receive, and what ends it.
LEMMA ReceiveIs ==
  ASSUME NEW s, NEW stop, NEW k
  PROVE  P!Receive(s, stop, k) =
           LET a == IF s.dummy THEN P!ObtainDummy(s) ELSE s
               b == IF a.thrown = "none" THEN P!Haul(a, stop) ELSE a
           IN IF b.thrown = "none" THEN (IF b.first = stop THEN P!GetFurther(b, k) ELSE b) ELSE b
<1> DEFINE a == IF s.dummy THEN P!ObtainDummy(s) ELSE s
           b == IF a.thrown = "none" THEN P!Haul(a, stop) ELSE a
<1>1. P!Receive(s, stop, k) = P!Then(P!Then(a, LAMBDA t : P!Haul(t, stop)),
                                 LAMBDA t : IF t.first = stop THEN P!GetFurther(t, k) ELSE t)
  BY DEF P!Receive
<1>2. P!Then(P!Then(a, LAMBDA t : P!Haul(t, stop)),
           LAMBDA t : IF t.first = stop THEN P!GetFurther(t, k) ELSE t)
        = IF b.thrown = "none" THEN (IF b.first = stop THEN P!GetFurther(b, k) ELSE b) ELSE b
  BY DEF P!Then
<1> QED BY <1>1, <1>2

\* receive: all up to the query it is to stop at, unless an error ends it.
LEMMA ReceiveKeeps ==
  ASSUME Sized, FaultsKnown, NEW s, PipeKept(s), P!Pending(s), s.thrown = "none", NEW k,
         NEW stop \in Int, NEW t, t = P!Receive(s, stop, k)
  PROVE  /\ PipeKept(t) /\ t.thrown = "none" /\ Follows(s, t) /\ ~t.dummy
         /\ ~P!Pending(t) \/ t.first >= stop
<1>1. PICK u : u = IF s.dummy THEN P!ObtainDummy(s) ELSE s
  OBVIOUS
<1>2. Reading(u) /\ Follows(s, u)
  <2>1. CASE s.dummy
    BY <1>1, <2>1, DummyKeeps
  <2>2. CASE ~s.dummy
    BY <1>1, <2>2, FollowsSelf DEF Reading
  <2> QED BY <2>1, <2>2
<1>3. PICK v : v = P!Haul(u, stop)
  OBVIOUS
<1>4. Reading(v) /\ Follows(s, v) /\ (~P!Pending(v) \/ v.first = stop)
  <2>1. CASE P!Pending(u)
    <3>1. Reading(v) /\ Follows(u, v) /\ (~P!Pending(v) \/ v.first = stop)
      BY <1>2, <1>3, <2>1, HaulKeeps
    <3> QED BY <1>2, <3>1, FollowsOn DEF Reading
  <2>2. CASE ~P!Pending(u)
    <3>1. Reading(v) /\ Follows(u, v) /\ ~P!Pending(v)
      BY <1>2, <1>3, <2>2, HaulIdle
    <3> QED BY <1>2, <3>1, FollowsOn DEF Reading
  <2> QED BY <2>1, <2>2
<1>5. u.thrown = "none" /\ v.thrown = "none"
  BY <1>2, <1>4 DEF Reading
<1>6. t = IF v.first = stop THEN P!GetFurther(v, k) ELSE v
  <2>1. t = LET a == IF s.dummy THEN P!ObtainDummy(s) ELSE s
                b == IF a.thrown = "none" THEN P!Haul(a, stop) ELSE a
            IN IF b.thrown = "none" THEN (IF b.first = stop THEN P!GetFurther(b, k) ELSE b) ELSE b
    BY ReceiveIs
  <2> QED BY <1>1, <1>3, <1>5, <2>1
<1>7. v.first \in Int
  BY <1>4, PipeNumbers DEF Reading
<1>8. CASE v.first # stop
  BY <1>4, <1>6, <1>8 DEF Reading
<1>9. CASE v.first = stop
  <2>1. Reading(t) /\ Follows(v, t)
    BY <1>4, <1>6, <1>9, FurtherKeeps
  <2>2. Follows(s, t)
    BY <1>4, <2>1, FollowsOn DEF Reading
  <2>3. t.first >= stop
    <3>1. t.first \in Int
      BY <2>1, PipeNumbers DEF Reading
    <3> QED BY <1>7, <1>9, <2>1, <3>1 DEF Follows
  <2> QED BY <2>1, <2>2, <2>3 DEF Reading
<1> QED BY <1>8, <1>9

\* To the end of the issued range: nothing is pending then.
LEMMA ReceiveAll ==
  ASSUME Sized, FaultsKnown, NEW s, PipeKept(s), P!Pending(s), s.thrown = "none", NEW k,
         NEW t, t = P!Receive(s, s.second, k)
  PROVE  PipeKept(t) /\ t.thrown = "none" /\ Follows(s, t) /\ ~t.dummy /\ ~P!Pending(t)
<1>1. s.second \in Int
  BY PipeNumbers
<1>2. /\ PipeKept(t) /\ t.thrown = "none" /\ Follows(s, t) /\ ~t.dummy
      /\ ~P!Pending(t) \/ t.first >= s.second
  BY <1>1, ReceiveKeeps
<1>3. P!Pending(t) => t.first < t.second /\ t.first \in Int /\ t.error = P!NoError
  BY <1>2, PipeNumbers DEF PipeKept, Reads
<1> QED BY <1>1, <1>2, <1>3 DEF Follows

-----------------------------------------------------------------------------
(* Issuing.                                                                *)

\* The members of a set in their order, each of them once.
Ascends(b, set) ==
  /\ b \in Seq(P!Query) /\ Len(b) = Cardinality(set)
  /\ \A i \in 1..Len(b) : b[i] \in set
  /\ \A p \in set : \E i \in 1..Len(b) : b[i] = p
  /\ \A i, j \in 1..Len(b) : i < j => b[i] < b[j]

\* A greater query may stand behind them,
LEMMA AscendsOn ==
  ASSUME Sized, NEW b, NEW set \in SUBSET P!Query, Ascends(b, set), NEW q \in P!Query,
         \A p \in set : p < q
  PROVE  Ascends(Append(b, q), set \cup {q})
<1>1. PICK n \in Nat : n = Len(b)
  BY DEF Ascends
<1>2. PICK d : d = Append(b, q)
  OBVIOUS
<1>3. /\ d \in Seq(P!Query) /\ Len(d) = n + 1 /\ d[n + 1] = q /\ \A i \in 1..n : d[i] = b[i]
  <2>1. b \in Seq(P!Query)
    BY DEF Ascends
  <2> QED BY ONLY <1>1, <1>2, <2>1, q \in P!Query
<1>4. /\ \A i \in 1..n : b[i] \in set
      /\ \A p \in set : \E i \in 1..n : b[i] = p
      /\ \A i, j \in 1..n : i < j => b[i] < b[j]
  BY <1>1 DEF Ascends
<1>5. \A i \in 1..n + 1 : i \in 1..n \/ i = n + 1
  BY <1>1
<1>6. \A i \in 1..n : i \in 1..n + 1
  BY <1>1
<1>7. Len(d) = Cardinality(set \cup {q})
  <2>1. IsFiniteSet(1..MaxQueries)
    <3>1. MaxQueries \in Int /\ 1 \in Int
      BY DEF Sized
    <3> QED BY ONLY <3>1, FS_Interval
  <2>2. IsFiniteSet(set)
    BY <2>1, FS_Subset DEF P!Query
  <2>3. q \notin set
    BY DEF P!Query, Sized
  <2>4. Cardinality(set \cup {q}) = Cardinality(set) + 1
    BY <2>2, <2>3, FS_AddElement
  <2>5. n = Cardinality(set)
    BY <1>1 DEF Ascends
  <2> QED BY <1>3, <2>4, <2>5
<1>8. \A i \in 1..n + 1 : d[i] \in set \cup {q}
  BY <1>3, <1>4, <1>5
<1>9. \A p \in set \cup {q} : \E i \in 1..n + 1 : d[i] = p
  <2>1. n + 1 \in 1..n + 1
    BY <1>1
  <2> QED BY <1>3, <1>4, <1>6, <2>1
<1>10. \A i, j \in 1..n + 1 : i < j => d[i] < d[j]
  <2>1. ASSUME NEW i \in 1..n + 1, NEW j \in 1..n + 1, i < j PROVE d[i] < d[j]
    <3>1. i \in 1..n
      BY <1>1, <2>1
    <3>2. d[i] = b[i] /\ b[i] \in set /\ b[i] < q
      BY <1>3, <1>4, <3>1
    <3>3. CASE j = n + 1
      BY <1>3, <3>2, <3>3
    <3>4. CASE j \in 1..n
      BY <1>3, <1>4, <2>1, <3>1, <3>4
    <3> QED BY <1>5, <3>3, <3>4
  <2> QED BY <2>1
<1> QED BY <1>2, <1>3, <1>7, <1>8, <1>9, <1>10 DEF Ascends

\* so they do when issue has put them together.
LEMMA InTurnAscends ==
  ASSUME Sized, NEW queries \in SUBSET P!Query
  PROVE  Ascends(P!InTurn(queries), queries)
<1> DEFINE upto(n) == {q \in queries : q <= n}
<1>1. PICK g : /\ g = [n \in 0..MaxQueries |-> IF n = 0 THEN <<>> ELSE OrderTurn(queries, n, g[n - 1])]
               /\ P!InTurn(queries) = g[MaxQueries]
  BY OrderCourse
<1>2. MaxQueries \in Nat /\ \A q \in queries : q \in Nat /\ q > 0 /\ q <= MaxQueries
  BY DEF Sized, P!Query
<1> DEFINE good == {n \in Nat : n <= MaxQueries => Ascends(g[n], upto(n))}
<1>3. 0 \in good
  <2>1. g[0] = <<>>
    BY <1>1, <1>2
  <2>2. upto(0) = {}
    BY <1>2
  <2>3. <<>> \in Seq(P!Query) /\ Len(<<>>) = 0 /\ Cardinality({}) = 0
    BY FS_EmptySet
  <2>4. Ascends(<<>>, {})
    BY <2>3 DEF Ascends
  <2> QED BY <2>1, <2>2, <2>4
<1>4. ASSUME NEW n \in Nat, n \in good PROVE n + 1 \in good
  <2> SUFFICES ASSUME n + 1 <= MaxQueries PROVE Ascends(g[n + 1], upto(n + 1))
    OBVIOUS
  <2>1. Ascends(g[n], upto(n))
    BY <1>2, <1>4
  <2>2. PICK b : b = g[n]
    OBVIOUS
  <2>3. g[n + 1] = IF n + 1 \in queries THEN Append(b, n + 1) ELSE b
    <3>1. n + 1 \in 0..MaxQueries /\ n + 1 # 0 /\ (n + 1) - 1 = n
      BY <1>2
    <3> QED BY <1>1, <2>2, <3>1 DEF OrderTurn
  <2>4. CASE n + 1 \in queries
    <3>1. upto(n + 1) = upto(n) \cup {n + 1}
      BY <1>2, <2>4
    <3>2. upto(n) \in SUBSET P!Query /\ \A p \in upto(n) : p < n + 1
      BY <1>2
    <3>3. n + 1 \in P!Query
      BY <2>4
    <3> HIDE DEF upto
    <3>4. Ascends(Append(b, n + 1), upto(n) \cup {n + 1})
      BY <2>1, <2>2, <3>2, <3>3, AscendsOn
    <3> QED BY <2>3, <2>4, <3>1, <3>4
  <2>5. CASE n + 1 \notin queries
    <3>1. upto(n + 1) = upto(n)
      BY <1>2, <2>5
    <3> HIDE DEF upto
    <3> QED BY <2>1, <2>2, <2>3, <2>5, <3>1
  <2> QED BY <2>4, <2>5
<1> HIDE DEF good
<1>5. MaxQueries \in good
  BY <1>2, <1>3, <1>4, NatSet
<1>6. upto(MaxQueries) = queries
  BY <1>2
<1> HIDE DEF upto
<1>7. Ascends(g[MaxQueries], upto(MaxQueries))
  BY <1>2, <1>5 DEF good
<1> QED BY <1>1, <1>6, <1>7

\* What the server answers to queries in their order is the chain of their results.
LEMMA ChainMade ==
  ASSUME Sized, NEW u, u.present \subseteq P!Query, u.first \in u.present, u.second = P!End,
         NEW qs, Ascends(qs, {p \in u.present : p >= u.first}),
         NEW b \in Seq(Reply), b # <<>>, Len(b) <= Len(qs),
         \A i \in 1..Len(b) : b[i].of = qs[i],
         \A i \in 1..Len(b) : ~b[i].ok => Spoilt(qs[i]),
         Len(b) = Len(qs) \/ ~b[Len(b)].ok
  PROVE  Chain(u, b) /\ Ending(u, b)
<1>1. PICK n \in Nat, m \in Nat : n = Len(qs) /\ m = Len(b)
  <2>1. qs \in Seq(P!Query)
    BY DEF Ascends
  <2>2. Len(qs) \in Nat /\ Len(b) \in Nat
    BY ONLY <2>1, b \in Seq(Reply)
  <2> QED BY <2>2
<1>2. m <= n /\ m > 0 /\ n <= MaxQueries /\ MaxQueries \in Nat /\ P!End = MaxQueries + 1
  <2>1. IsFiniteSet(1..MaxQueries) /\ Cardinality(1..MaxQueries) = MaxQueries
    <3>1. MaxQueries \in Int /\ 1 \in Int /\ MaxQueries \in Nat
      BY DEF Sized
    <3>2. /\ IsFiniteSet(1..MaxQueries)
          /\ Cardinality(1..MaxQueries) = IF 1 > MaxQueries THEN 0 ELSE MaxQueries - 1 + 1
      BY ONLY <3>1, FS_Interval
    <3> QED BY <3>1, <3>2
  <2>2. PICK set : set = {p \in u.present : p >= u.first}
    OBVIOUS
  <2>3. set \subseteq 1..MaxQueries
    BY <2>2 DEF P!Query
  <2>4. Cardinality(set) <= MaxQueries
    BY <2>1, <2>3, FS_Subset
  <2>5. n = Cardinality(set)
    BY <1>1, <2>2 DEF Ascends
  <2>6. m > 0
    <3>1. Len(b) > 0
      BY ONLY b \in Seq(Reply), b # <<>>
    <3> QED BY <1>1, <3>1
  <2> QED BY <1>1, <2>4, <2>5, <2>6 DEF Sized, P!End
<1>3. ASSUME NEW i \in 1..n
      PROVE  qs[i] \in u.present /\ qs[i] \in P!Query /\ qs[i] \in Nat /\ u.first <= qs[i] /\ qs[i] < P!End
  <2>1. qs[i] \in {p \in u.present : p >= u.first}
    BY <1>1 DEF Ascends
  <2> QED BY <1>2, <2>1 DEF P!Query
<1>4. ASSUME NEW i \in 1..n, NEW j \in 1..n, i < j PROVE qs[i] < qs[j]
  BY <1>1, <1>4 DEF Ascends
<1>5. u.first \in Nat /\ \A p \in u.present : p \in Nat /\ p <= MaxQueries
  BY <1>2 DEF P!Query
<1>6. ASSUME NEW p \in u.present, p >= u.first PROVE \E i \in 1..n : qs[i] = p
  BY <1>1, <1>6 DEF Ascends
<1>7. ASSUME NEW i \in 1..n PROVE P!After(u, qs[i]) = IF i < n THEN qs[i + 1] ELSE P!End
  <2>0. qs[i] \in Int /\ qs[i] <= MaxQueries /\ u.first <= qs[i] /\ qs[i] \in Nat
    BY <1>3, <1>5
  <2>1. CASE i < n
    <3>1. i + 1 \in 1..n /\ i < i + 1
      BY <2>1, <1>2
    <3>2. qs[i + 1] \in u.present /\ qs[i + 1] > qs[i] /\ qs[i + 1] \in Nat
      BY <1>3, <1>4, <3>1
    <3>3. ASSUME NEW p \in u.present, p > qs[i] PROVE qs[i + 1] <= p
      <4>1. PICK j \in 1..n : qs[j] = p
        BY <1>5, <1>6, <2>0, <3>3
      <4>2. p \in Nat /\ qs[j] \in Nat
        BY <1>5, <4>1
      <4>3. ~(j < i) /\ j # i
        <5>1. j < i => qs[j] < qs[i]
          BY <1>4
        <5> QED BY <2>0, <3>3, <4>1, <4>2, <5>1
      <4>4. j = i + 1 \/ i + 1 < j
        BY ONLY <4>3, i \in 1..n, j \in 1..n, n \in Nat
      <4>5. i + 1 < j => qs[i + 1] < qs[j]
        BY <1>4, <3>1
      <4> QED BY <3>2, <4>1, <4>2, <4>4, <4>5
    <3>4. P!After(u, qs[i]) = qs[i + 1]
      BY <2>0, <3>2, <3>3, AfterKnown
    <3> QED BY <2>1, <3>4
  <2>2. CASE ~(i < n)
    <3>1. i = n
      BY ONLY <2>2, i \in 1..n, n \in Nat
    <3>2. ASSUME NEW p \in u.present, p > qs[i] PROVE FALSE
      <4>1. PICK j \in 1..n : qs[j] = p
        BY <1>5, <1>6, <2>0, <3>2
      <4>2. p \in Nat
        BY <1>5
      <4>3. j = i \/ j < i
        BY ONLY <3>1, j \in 1..n, n \in Nat
      <4>4. j < i => qs[j] < qs[i]
        BY <1>4
      <4> QED BY <2>0, <3>2, <4>1, <4>2, <4>3, <4>4
    <3>3. P!End > qs[i] /\ P!End \in u.present \cup {P!End}
      BY <1>3
    <3>4. P!After(u, qs[i]) = P!End
      BY <2>0, <3>2, <3>3, AfterKnown
    <3> QED BY <2>2, <3>4
  <2> QED BY <2>1, <2>2
<1>8. \A i \in 1..m : i \in 1..n
  BY <1>2
<1>9. b[1].of = u.first
  <2>1. PICK j \in 1..n : qs[j] = u.first
    BY <1>5, <1>6
  <2>2. 1 \in 1..n /\ 1 \in 1..m /\ (j = 1 \/ 1 < j)
    BY <1>2
  <2>3. 1 < j => qs[1] < qs[j]
    BY <1>4, <2>2
  <2>4. qs[1] \in Nat /\ u.first <= qs[1]
    BY <1>3, <2>2
  <2> QED BY <1>1, <1>5, <2>1, <2>2, <2>3, <2>4
<1>10. ASSUME NEW i \in 1..m
       PROVE  /\ b[i].of \in u.present /\ u.first <= b[i].of /\ b[i].of < u.second
              /\ ~b[i].ok => Spoilt(b[i].of)
              /\ i < m => b[i + 1].of = P!After(u, b[i].of)
              /\ \A j \in 1..m : i < j => b[i].of < b[j].of
  <2>1. i \in 1..n /\ b[i].of = qs[i] /\ (~b[i].ok => Spoilt(qs[i]))
    BY <1>1, <1>8
  <2>2. i < m => b[i + 1].of = P!After(u, b[i].of)
    <3> SUFFICES ASSUME i < m PROVE b[i + 1].of = P!After(u, b[i].of)
      OBVIOUS
    <3>1. i + 1 \in 1..m /\ i < n
      BY <1>2
    <3>2. b[i + 1].of = qs[i + 1]
      BY <1>1, <3>1
    <3> QED BY <1>7, <2>1, <3>1, <3>2
  <2>3. ASSUME NEW j \in 1..m, i < j PROVE b[i].of < b[j].of
    <3>1. j \in 1..n /\ b[j].of = qs[j]
      BY <1>1, <1>8
    <3> QED BY <1>4, <2>1, <2>3, <3>1
  <2> QED BY <1>3, <2>1, <2>2, <2>3
<1>11. Chain(u, b)
  <2>1. Len(b) <= MaxQueries
    BY <1>1, <1>2
  <2> QED BY <1>1, <1>9, <1>10, <2>1 DEF Chain
<1>12. Ending(u, b)
  <2>1. m \in 1..m /\ m \in 1..n
    BY <1>2
  <2>2. Behind(u, b) = P!After(u, qs[m]) /\ b[m].of = qs[m]
    BY <1>1, <2>1 DEF Behind
  <2>3. CASE m = n
    BY <1>7, <2>1, <2>2, <2>3 DEF Ending
  <2>4. CASE m # n
    <3>1. ~b[m].ok
      BY <1>1, <2>4
    <3>2. Spoilt(qs[m])
      BY <1>1, <2>1, <3>1
    <3>3. qs[m] \in Int /\ qs[m] <= MaxQueries /\ qs[m] \in Nat /\ qs[m] > 0
      BY <1>3, <1>5, <2>1 DEF P!Query
    <3>4. Behind(u, b) > qs[m] /\ Behind(u, b) \in Int
      <4>1. P!After(u, qs[m]) > qs[m] /\ P!After(u, qs[m]) \in u.present \cup {P!End}
        BY <3>3, AfterIs
      <4> QED BY <1>2, <1>5, <2>2, <4>1
    <3>5. qs[m] \in 1..Behind(u, b) - 1
      BY <3>3, <3>4
    <3> QED BY <3>2, <3>5 DEF Ending
  <2> QED BY <2>3, <2>4
<1> QED BY <1>11, <1>12

\* The steps of issue: from o, which no result is left for, by way of v, which has the string qs.
LeftBy(o, qs, v) ==
  IF o.thrown # "none" \/ o.error # P!NoError THEN o
  ELSE IF Len(qs) = 0 THEN P!Throw(o, "undefined")
  ELSE IF v.thrown = "none"
  THEN [v EXCEPT !.dummy = Len(qs) > 1, !.first = o.second, !.second = P!End, !.waiting = @ - Len(qs)]
  ELSE v

\* issue, step by step.
LEMMA IssueSplit ==
  ASSUME NEW s, NEW o, o = Obtained(s), NEW qs, qs = P!InTurn({q \in o.present : q >= o.second}),
         NEW v, v = P!StartExec(o, IF Len(qs) > 1 THEN <<P!Dummy>> \o qs ELSE qs)
  PROVE  P!Issue(s) = LeftBy(o, qs, v)
<1> DEFINE turn(x) == P!InTurn({q \in x.present : q >= x.second})
           n(x)  == Len(turn(x))
           w(x)  == P!StartExec(x, IF n(x) > 1 THEN <<P!Dummy>> \o turn(x) ELSE turn(x))
           onItsWay(x, y) == [y EXCEPT !.dummy = n(x) > 1, !.first = x.second, !.second = P!End,
                                   !.waiting = @ - n(x)]
           rest(x) == IF x.error # P!NoError THEN x
                      ELSE IF n(x) = 0 THEN P!Throw(x, "undefined")
                      ELSE P!Then(w(x), LAMBDA u : onItsWay(x, u))
<1>1. P!Issue(s) = P!Then(Obtained(s), LAMBDA x : rest(x))
  BY DEF P!Issue, Obtained
<1>2. P!Then(w(o), LAMBDA u : onItsWay(o, u)) = IF w(o).thrown = "none" THEN onItsWay(o, w(o)) ELSE w(o)
  BY DEF P!Then
<1>3. P!Then(Obtained(s), LAMBDA x : rest(x)) = IF o.thrown = "none" THEN rest(o) ELSE o
  BY DEF P!Then
<1>4. P!Issue(s) = IF o.thrown = "none" THEN rest(o) ELSE o
  BY <1>1, <1>3
<1>5. turn(o) = qs /\ w(o) = v
  OBVIOUS
<1> QED BY <1>2, <1>4, <1>5 DEF LeftBy

\* What it leaves when there is something to issue.
IssuedAs(s, t, qs, a) ==
  /\ Calls(s, t)
  /\ t.first = s.second /\ t.second = P!End /\ t.waiting = s.waiting - Len(qs)
  /\ t.dummy <=> Len(qs) > 1
  /\ t.error = s.error /\ t.unread = a /\ t.active /\ t.thrown = s.thrown /\ t.res = s.res
  /\ t.failed <=> s.failed \/ (inWork /\ ~P!Last(a).ok)
  /\ P!Last(a).ok => t.ran = s.ran \o qs
  /\ ~P!Last(a).ok => t.ran = s.ran

\* issue, when nothing is on the connection and nothing is wrong.
LEMMA IssueIs ==
  ASSUME Sized, NEW s, Shaped(s), s.present \subseteq P!Query, ~P!Pending(s), s.unread = <<>>,
         s.error = P!NoError, s.thrown = "none", s.waiting \in Nat,
         NEW qs, qs = P!InTurn(Unissued(s)), qs # <<>>, NEW t, t = P!Issue(s),
         NEW str, str = IF Len(qs) > 1 THEN <<P!Dummy>> \o qs ELSE qs,
         NEW a, a = P!Answers(s, str)
  PROVE  IssuedAs(s, t, qs, a)
<1>1. Ascends(qs, Unissued(s))
  <2>1. Unissued(s) \in SUBSET P!Query
    BY DEF Unissued
  <2> QED BY <2>1, InTurnAscends
<1>2. PICK n \in Nat : n = Len(qs) /\ n > 0
  <2>1. qs \in Seq(P!Query)
    BY <1>1 DEF Ascends
  <2> QED BY ONLY <2>1, qs # <<>>
<1>3. PICK o : o = Obtained(s)
  OBVIOUS
<1>4. /\ Calls(s, o) /\ Serves(s, o)
      /\ o.waiting = s.waiting /\ o.dummy = s.dummy /\ o.res = s.res /\ o.focus = s.focus
      /\ o.first = s.first /\ o.second = s.second /\ o.error = s.error /\ o.thrown = s.thrown
      /\ ~o.any /\ ~o.active /\ o.unread = s.unread
  BY <1>3, ObtainEnd
<1>5. PICK r : r = P!Run(o, str)
  OBVIOUS
<1>6. P!Answers(o, str) = a
  <2>1. o.failed = s.failed
    BY <1>4 DEF Serves
  <2> QED BY <2>1 DEF P!Answers
<1>7. /\ Calls(o, r)
      /\ r.first = o.first /\ r.second = o.second /\ r.waiting = o.waiting /\ r.dummy = o.dummy
      /\ r.error = o.error /\ r.focus = o.focus /\ r.unread = o.unread /\ r.active = o.active
      /\ r.any = o.any /\ r.thrown = o.thrown /\ r.res = o.res
      /\ r.failed <=> o.failed \/ (inWork /\ ~P!Last(a).ok)
      /\ P!Last(a).ok => r.ran = o.ran \o Deeds(str)
      /\ ~P!Last(a).ok => r.ran = o.ran
  <2>1. Shaped(o)
    BY <1>4 DEF Calls
  <2>2. /\ Calls(o, r)
        /\ r.first = o.first /\ r.second = o.second /\ r.waiting = o.waiting /\ r.dummy = o.dummy
        /\ r.error = o.error /\ r.focus = o.focus /\ r.unread = o.unread /\ r.active = o.active
        /\ r.any = o.any /\ r.thrown = o.thrown /\ r.res = o.res
        /\ r.failed <=> o.failed \/ (inWork /\ ~P!Last(P!Answers(o, str)).ok)
        /\ P!Last(P!Answers(o, str)).ok => r.ran = o.ran \o Deeds(str)
        /\ ~P!Last(P!Answers(o, str)).ok => r.ran = o.ran
    BY ONLY <1>5, <2>1, RunIs
  <2> QED BY <1>6, <2>2
<1>8. Deeds(str) = qs
  <2>1. PICK c \in Seq(P!Query) : c = qs
    BY <1>1 DEF Ascends
  <2>2. c[1] # P!Dummy
    <3>1. 1 \in 1..Len(c)
      BY <1>2, <2>1
    <3>2. c[1] \in P!Query
      BY ONLY <3>1, c \in Seq(P!Query)
    <3> QED BY <3>2 DEF P!Query, P!Dummy, Sized
  <2>3. CASE n > 1
    <3>1. str = <<P!Dummy>> \o c
      BY <1>2, <2>1, <2>3
    <3>2. PICK z : z = P!Dummy
      OBVIOUS
    <3>3. (<<z>> \o c)[1] = z /\ Tail(<<z>> \o c) = c
      <4>1. PICK d : d = <<z>> \o c
        OBVIOUS
      <4>2. d \in Seq(P!Query \cup {z}) /\ Len(d) = Len(c) + 1 /\ d[1] = z
            /\ \A i \in 1..Len(c) : d[i + 1] = c[i]
        BY ONLY <4>1, c \in Seq(P!Query)
      <4>3. Tail(d) \in Seq(P!Query \cup {z}) /\ Len(Tail(d)) = Len(c)
            /\ \A i \in 1..Len(c) : Tail(d)[i] = c[i]
        BY ONLY <4>2
      <4>4. c \in Seq(P!Query \cup {z})
        BY ONLY c \in Seq(P!Query)
      <4>5. Tail(d) = c
        BY ONLY <4>3, <4>4
      <4> QED BY <4>1, <4>2, <4>5
    <3> QED BY <2>1, <3>1, <3>2, <3>3 DEF Deeds
  <2>4. CASE ~(n > 1)
    <3>1. str = c
      BY <1>2, <2>1, <2>4
    <3> QED BY <2>1, <2>2, <3>1 DEF Deeds
  <2> QED BY <2>3, <2>4
<1>9. PICK v : v = [r EXCEPT !.unread = a, !.active = TRUE]
  OBVIOUS
<1>10. v = P!StartExec(o, str)
  BY <1>4, <1>5, <1>6, <1>9 DEF P!StartExec
<1>11. /\ Calls(o, v)
       /\ v.first = o.first /\ v.second = o.second /\ v.waiting = o.waiting /\ v.dummy = o.dummy
       /\ v.error = o.error /\ v.unread = a /\ v.active
       /\ v.thrown = o.thrown /\ v.res = o.res /\ v.failed = r.failed /\ v.ran = r.ran
  BY <1>7, <1>9 DEF Calls, Shaped, PipeFields
<1>12. PICK d, w, f : d = (n > 1) /\ w = v.waiting - n /\ f = o.second
  OBVIOUS
<1>13. t = [v EXCEPT !.dummy = d, !.first = f, !.second = P!End, !.waiting = w]
  <2>1. {q \in o.present : q >= o.second} = Unissued(s)
    BY <1>4 DEF Unissued, Calls
  <2>2. o.thrown = "none" /\ o.error = P!NoError /\ n # 0
    BY <1>2, <1>4
  <2>3. t = LeftBy(o, qs, v)
    <3>1. qs = P!InTurn({q \in o.present : q >= o.second})
      BY <2>1
    <3>2. v = P!StartExec(o, IF Len(qs) > 1 THEN <<P!Dummy>> \o qs ELSE qs)
      BY <1>10
    <3> QED BY ONLY <1>3, <3>1, <3>2, IssueSplit, t = P!Issue(s)
  <2>4. v.thrown = "none"
    BY <1>4, <1>11
  <2>5. t = [v EXCEPT !.dummy = n > 1, !.first = o.second, !.second = P!End, !.waiting = @ - n]
    BY <1>2, <2>2, <2>3, <2>4 DEF LeftBy
  <2> QED BY <1>12, <2>5
<1>14. /\ Calls(v, t)
       /\ t.first = f /\ t.second = P!End /\ t.waiting = w /\ t.dummy = d
       /\ t.error = v.error /\ t.unread = v.unread /\ t.active = v.active
       /\ t.thrown = v.thrown /\ t.res = v.res /\ t.failed = v.failed /\ t.ran = v.ran
  BY <1>11, <1>13 DEF Calls, Shaped, PipeFields
<1>15. Calls(s, t)
  BY <1>4, <1>11, <1>14 DEF Calls
<1>16. t.dummy <=> Len(qs) > 1
  BY <1>2, <1>12, <1>14
<1>17. o.failed = s.failed /\ o.ran = s.ran
  BY <1>4 DEF Serves
<1>18. t.failed <=> s.failed \/ (inWork /\ ~P!Last(a).ok)
  BY <1>7, <1>11, <1>14, <1>17
<1>19. (P!Last(a).ok => t.ran = s.ran \o qs) /\ (~P!Last(a).ok => t.ran = s.ran)
  BY <1>7, <1>8, <1>11, <1>14, <1>17
<1>20. /\ t.first = s.second /\ t.second = P!End /\ t.waiting = s.waiting - Len(qs)
       /\ t.error = s.error /\ t.unread = a /\ t.active /\ t.thrown = s.thrown /\ t.res = s.res
  BY <1>2, <1>4, <1>11, <1>12, <1>14
<1> QED BY <1>15, <1>16, <1>18, <1>19, <1>20 DEF IssuedAs

\* A failure in what the server answered is explained by the queries it was sent.
LEMMA AnswersExplained ==
  ASSUME Sized, FaultsKnown, NEW s, Blamed(s), NEW str \in Seq(P!Query \cup {P!Dummy}),
         str[1] # P!Dummy => Len(str) = 1,
         NEW a, Answered(s, str, a), NEW i \in 1..Len(a), ~a[i].ok
  PROVE  /\ \E e \in P!Query : fault[e] # "fine"
         /\ str[i] # P!Dummy => Spoilt(str[i])
<1>1. i \in 1..Len(str) /\ (str[i] # P!Dummy => str[i] \in P!Query)
  <2>1. PICK m \in Nat, n \in Nat : m = Len(a) /\ n = Len(str) /\ m <= n
    <3>1. a \in Seq(Reply) /\ Len(a) <= Len(str)
      BY DEF Answered
    <3>2. Len(a) \in Nat /\ Len(str) \in Nat
      BY ONLY <3>1, str \in Seq(P!Query \cup {P!Dummy})
    <3> QED BY <3>1, <3>2
  <2>2. i \in 1..n
    BY <2>1
  <2>3. str[i] \in P!Query \cup {P!Dummy}
    BY ONLY <2>1, <2>2, str \in Seq(P!Query \cup {P!Dummy})
  <2> QED BY <2>1, <2>2, <2>3
<1>2. CASE Unparsed(s, str)
  <2>1. i = 1
    <3>1. Len(a) = 1
      BY <1>2 DEF Answered
    <3> QED BY <3>1
  <2>2. CASE s.failed
    <3>1. inWork /\ \E e \in P!Query : fault[e] # "fine"
      BY <2>2 DEF Blamed
    <3> QED BY <3>1 DEF Spoilt
  <2>3. CASE ~s.failed
    <3>1. PICK j \in DOMAIN str : str[j] # P!Dummy /\ fault[str[j]] = "syntax"
      BY <1>2, <2>3 DEF Unparsed
    <3>2. j \in 1..Len(str) /\ str[j] \in P!Query
      <4>1. j \in 1..Len(str) /\ str[j] \in P!Query \cup {P!Dummy}
        BY ONLY j \in DOMAIN str, str \in Seq(P!Query \cup {P!Dummy})
      <4> QED BY <3>1, <4>1
    <3>3. str[i] # P!Dummy => j = i
      BY <2>1, <3>2
    <3>4. fault[str[j]] # "fine"
      BY <3>1
    <3> QED BY <3>2, <3>3, <3>4 DEF Spoilt
  <2> QED BY <2>2, <2>3
<1>3. CASE ~Unparsed(s, str)
  <2>1. FailsRun(str[i])
    BY <1>3 DEF Answered
  <2>2. fault[str[i]] = "run" /\ str[i] # P!Dummy
    BY <2>1 DEF FailsRun
  <2>3. fault[str[i]] # "fine"
    BY <2>2
  <2> QED BY <1>1, <2>2, <2>3 DEF Spoilt
<1> QED BY <1>2, <1>3

\* The order of what took effect goes on with the queries of a string.
LEMMA RanOn ==
  ASSUME Sized, NEW r \in Seq(P!Query), NEW qs \in Seq(P!Query), NEW m \in Nat, NEW l \in Nat,
         \A i, j \in 1..Len(r) : i < j => r[i] < r[j], \A i \in 1..Len(r) : r[i] < m /\ r[i] <= l,
         \A i, j \in 1..Len(qs) : i < j => qs[i] < qs[j],
         \A i \in 1..Len(qs) : m <= qs[i] /\ qs[i] <= l,
         NEW d, d = r \o qs
  PROVE  /\ d \in Seq(P!Query)
         /\ \A i, j \in 1..Len(d) : i < j => d[i] < d[j]
         /\ \A i \in 1..Len(d) : d[i] <= l
<1>1. PICK n \in Nat, k \in Nat : n = Len(r) /\ k = Len(qs)
  <2>1. Len(r) \in Nat /\ Len(qs) \in Nat
    BY ONLY r \in Seq(P!Query), qs \in Seq(P!Query)
  <2> QED BY <2>1
<1>2. /\ d \in Seq(P!Query) /\ Len(d) = n + k /\ \A i \in 1..n : d[i] = r[i]
      /\ \A i \in 1..n + k : i > n => d[i] = qs[i - n]
  BY ONLY <1>1, r \in Seq(P!Query), qs \in Seq(P!Query), d = r \o qs
<1>3. /\ \A i \in 1..n : r[i] < m /\ r[i] <= l /\ r[i] \in Nat
      /\ \A i \in 1..k : m <= qs[i] /\ qs[i] <= l /\ qs[i] \in Nat
  <2>1. \A i \in 1..n : r[i] \in P!Query
    BY ONLY <1>1, r \in Seq(P!Query)
  <2>2. \A i \in 1..k : qs[i] \in P!Query
    BY ONLY <1>1, qs \in Seq(P!Query)
  <2>3. \A q \in P!Query : q \in Nat
    BY DEF P!Query, Sized
  <2> QED BY <1>1, <2>1, <2>2, <2>3
<1>4. /\ \A i, j \in 1..n : i < j => r[i] < r[j]
      /\ \A i, j \in 1..k : i < j => qs[i] < qs[j]
  BY <1>1
<1>5. \A i \in 1..n + k : (i \in 1..n) \/ (i > n /\ i - n \in 1..k)
  BY ONLY <1>1
<1>6. ASSUME NEW i \in 1..n + k PROVE d[i] <= l
  <2>1. CASE i \in 1..n
    BY <1>2, <1>3, <2>1
  <2>2. CASE i > n /\ i - n \in 1..k
    BY <1>2, <1>3, <2>2
  <2> QED BY <1>5, <2>1, <2>2
<1>7. ASSUME NEW i \in 1..n + k, NEW j \in 1..n + k, i < j PROVE d[i] < d[j]
  <2>1. CASE i \in 1..n /\ j \in 1..n
    BY <1>2, <1>4, <1>7, <2>1
  <2>2. CASE i \in 1..n /\ j > n /\ j - n \in 1..k
    <3>1. d[i] = r[i] /\ d[j] = qs[j - n] /\ r[i] < m /\ m <= qs[j - n] /\ r[i] \in Nat /\ qs[j - n] \in Nat
      BY <1>2, <1>3, <2>2
    <3> QED BY ONLY <3>1, m \in Nat
  <2>3. CASE i > n /\ i - n \in 1..k /\ j > n /\ j - n \in 1..k
    <3>1. d[i] = qs[i - n] /\ d[j] = qs[j - n]
      BY <1>2, <2>3
    <3>2. i - n < j - n
      BY ONLY <1>1, <1>7, i \in 1..n + k, j \in 1..n + k
    <3> QED BY <1>4, <2>3, <3>1, <3>2
  <2>4. ~(i > n /\ j \in 1..n)
    BY ONLY <1>1, <1>7, i \in 1..n + k, j \in 1..n + k
  <2> QED BY <1>5, <2>1, <2>2, <2>3, <2>4
<1> QED BY <1>2, <1>6, <1>7

\* A string that has just been sent.
LEMMA SentKept ==
  ASSUME Sized, FaultsKnown, NEW s, PipeKept(s), ~P!Pending(s), s.unread = <<>>, s.error = P!NoError,
         s.thrown = "none", s.second \in s.present,
         NEW qs, Ascends(qs, Unissued(s)), qs # <<>>, s.waiting = Len(qs),
         NEW str, str = IF Len(qs) > 1 THEN <<P!Dummy>> \o qs ELSE qs,
         NEW a, Answered(s, str, a),
         NEW t, IssuedAs(s, t, qs, a)
  PROVE  PipeKept(t) /\ P!Pending(t)
<1> /\ Calls(s, t) /\ t.first = s.second /\ t.second = P!End /\ t.waiting = s.waiting - Len(qs)
    /\ t.dummy <=> Len(qs) > 1
    /\ t.error = s.error /\ t.unread = a /\ t.active /\ t.thrown = s.thrown /\ t.res = s.res
    /\ t.failed <=> s.failed \/ (inWork /\ ~P!Last(a).ok)
    /\ P!Last(a).ok => t.ran = s.ran \o qs
    /\ ~P!Last(a).ok => t.ran = s.ran
  BY DEF IssuedAs
<1>1. /\ PipeTyped(s) /\ Placed(s) /\ Reads(s) /\ Kept(s) /\ Counted(s) /\ RanInOrder(s)
      /\ Blamed(s) /\ Excused(s) /\ s.present \subseteq P!Query /\ Shaped(s)
      /\ s.ran \in Seq(P!Query)
  BY DEF PipeKept, PipeTyped
<1>2. /\ s.first \in Nat /\ s.second \in Nat /\ s.last \in Nat /\ s.waiting \in Nat
      /\ MaxQueries \in Nat /\ P!End = MaxQueries + 1 /\ P!NoError = MaxQueries + 2
      /\ s.first = s.second /\ P!End \in Nat /\ s.last <= MaxQueries
      /\ s.second < P!End /\ s.second > 0
  <2>1. s.second \in P!Query
    BY <1>1
  <2> QED BY <1>1, <2>1, PipeNumbers DEF P!End, P!NoError, Sized, P!Pending, PipeTyped, P!Query
<1>3. PICK n \in Nat : n = Len(qs) /\ n > 0
  <2>1. qs \in Seq(P!Query)
    BY DEF Ascends
  <2>2. Len(qs) \in Nat /\ Len(qs) > 0
    BY ONLY <2>1, qs # <<>>
  <2> QED BY <2>2
<1>4. PICK c \in Seq(P!Query) : c = qs
  BY DEF Ascends
<1>5. ASSUME NEW i \in 1..n
      PROVE  /\ qs[i] \in s.present /\ qs[i] \in P!Query /\ qs[i] \in Nat
             /\ s.second <= qs[i] /\ qs[i] <= s.last /\ qs[i] # P!Dummy
  <2>1. qs[i] \in Unissued(s)
    BY <1>3 DEF Ascends
  <2>2. qs[i] \in s.present /\ qs[i] >= s.second
    BY <2>1 DEF Unissued
  <2> QED BY <1>1, <1>2, <2>2 DEF P!Query, Placed, P!Dummy
<1>6. str \in Seq(P!Query \cup {P!Dummy}) /\ str # <<>> /\ (str[1] # P!Dummy => Len(str) = 1)
      /\ (n > 1 => Len(str) = n + 1 /\ str[1] = P!Dummy /\ \A i \in 1..n : str[i + 1] = qs[i])
      /\ (~(n > 1) => str = qs /\ n = 1)
  <2>1. CASE n > 1
    <3>1. str = <<P!Dummy>> \o c
      BY <1>3, <1>4, <2>1
    <3>2. PICK z : z = P!Dummy
      OBVIOUS
    <3>3. /\ str \in Seq(P!Query \cup {z}) /\ Len(str) = Len(c) + 1 /\ str[1] = z
          /\ \A i \in 1..Len(c) : str[i + 1] = c[i]
      <4>1. str = <<z>> \o c
        BY <3>1, <3>2
      <4> QED BY ONLY <4>1, c \in Seq(P!Query)
    <3>4. str # <<>>
      <4>1. Len(str) > 0
        BY <1>3, <1>4, <3>3
      <4> QED BY <4>1
    <3> QED BY <1>3, <1>4, <2>1, <3>2, <3>3, <3>4
  <2>2. CASE ~(n > 1)
    <3>1. str = c /\ n = 1
      BY <1>3, <1>4, <2>2
    <3>2. c \in Seq(P!Query \cup {P!Dummy})
      BY ONLY c \in Seq(P!Query)
    <3> QED BY <1>3, <1>4, <2>2, <3>1, <3>2
  <2> QED BY <2>1, <2>2
<1>7. PICK m \in Nat : m = Len(a) /\ m > 0 /\ a \in Seq(Reply) /\ a # <<>> /\ m <= Len(str)
  <2>1. a \in Seq(Reply) /\ a # <<>> /\ Len(a) <= Len(str)
    BY DEF Answered
  <2>2. Len(a) \in Nat /\ Len(a) > 0
    BY ONLY <2>1
  <2> QED BY <2>1, <2>2
<1>8. ASSUME NEW i \in 1..m, ~a[i].ok
      PROVE  (\E e \in P!Query : fault[e] # "fine") /\ (str[i] # P!Dummy => Spoilt(str[i]))
  BY <1>1, <1>6, <1>7, <1>8, AnswersExplained
<1>9. P!Last(a) = a[m] /\ m \in 1..m
  BY <1>7 DEF P!Last
<1>10. t.first \in t.present /\ t.present = s.present /\ P!Pending(t) /\ t.first = s.second
       /\ {p \in t.present : p >= t.first} = Unissued(s)
  <2>1. t.present = s.present
    BY DEF Calls
  <2> QED BY <1>2, <2>1 DEF P!Pending, Unissued
<1>11. PipeTyped(t)
  <2>1. t.waiting = 0
    BY <1>3
  <2>2. t.ran \in Seq(P!Query)
    <3>1. CASE P!Last(a).ok
      <4>1. PICK r \in Seq(P!Query) : r = s.ran
        BY <1>1
      <4>2. r \o c \in Seq(P!Query)
        BY ONLY r \in Seq(P!Query), c \in Seq(P!Query)
      <4> QED BY <1>4, <3>1, <4>1, <4>2
    <3>2. CASE ~P!Last(a).ok
      BY <1>1, <3>2
    <3> QED BY <3>1, <3>2
  <2> QED BY <1>1, <1>7, <2>1, <2>2 DEF PipeTyped, Calls
<1>12. Placed(t)
  BY <1>1, <1>2, <1>10 DEF Placed, Calls
<1>13. Reads(t)
  <2>1. CASE n > 1
    <3>1. a[1].of = P!Dummy
      <4>1. 1 \in 1..Len(a)
        BY <1>7
      <4> QED BY <1>6, <2>1, <4>1 DEF Answered
    <3>2. ~a[1].ok => Failing(t)
      <4> SUFFICES ASSUME ~a[1].ok PROVE Failing(t)
        OBVIOUS
      <4>1. Unparsed(s, str)
        <5>1. ~FailsRun(str[1])
          BY <1>6, <2>1 DEF FailsRun
        <5>2. 1 \in 1..Len(a)
          BY <1>7
        <5> QED BY <5>1, <5>2 DEF Answered
      <4>2. Len(a) = 1 /\ m = 1
        BY <1>7, <4>1 DEF Answered
      <4>3. t.ran = s.ran /\ ~P!Last(a).ok
        BY <1>9, <4>2
      <4>4. \A i \in 1..Len(t.ran) : t.ran[i] < t.first
        BY <1>1, <4>3 DEF RanInOrder
      <4>5. t.failed \/ \E p \in t.present : t.first <= p /\ p < t.second /\ fault[p] = "syntax"
        <5>1. CASE s.failed
          BY <5>1
        <5>2. CASE ~s.failed
          <6>1. PICK j \in DOMAIN str : str[j] # P!Dummy /\ fault[str[j]] = "syntax"
            BY <4>1, <5>2 DEF Unparsed
          <6>2. j \in 1..n + 1
            <7>1. j \in 1..Len(str)
              BY ONLY j \in DOMAIN str, <1>6
            <7> QED BY <1>6, <2>1, <7>1
          <6>3. j # 1
            BY <1>6, <2>1, <6>1
          <6>4. j - 1 \in 1..n /\ (j - 1) + 1 = j
            BY ONLY <6>2, <6>3, n \in Nat
          <6>5. str[j] = qs[j - 1]
            BY <1>6, <2>1, <6>4
          <6>6. /\ qs[j - 1] \in s.present /\ s.second <= qs[j - 1] /\ qs[j - 1] <= s.last
                /\ qs[j - 1] \in Nat
            BY <1>5, <6>4
          <6>7. qs[j - 1] < P!End
            BY <1>2, <6>6
          <6> QED BY <1>10, <6>1, <6>5, <6>6, <6>7
        <5> QED BY <5>1, <5>2
      <4> QED BY <4>2, <4>4, <4>5 DEF Failing
    <3>3. a[1].ok => Chain(t, Tail(a)) /\ Ending(t, Tail(a))
      <4> SUFFICES ASSUME a[1].ok PROVE Chain(t, Tail(a)) /\ Ending(t, Tail(a))
        OBVIOUS
      <4>1. ~Unparsed(s, str)
        BY <1>7 DEF Answered
      <4>2. m = n + 1 \/ ~a[m].ok
        BY <1>6, <1>7, <2>1, <4>1 DEF Answered
      <4>3. m > 1 /\ m <= n + 1
        <5>1. m # 1
          BY <1>3, <2>1, <4>2
        <5> QED BY <1>6, <1>7, <2>1, <5>1
      <4>4. PICK b \in Seq(Reply) : b = Tail(a) /\ Len(b) = m - 1 /\ \A i \in 1..m - 1 : b[i] = a[i + 1]
        <5>1. /\ Tail(a) \in Seq(Reply) /\ Len(Tail(a)) = m - 1
              /\ \A i \in 1..m - 1 : Tail(a)[i] = a[i + 1]
          BY ONLY <1>7
        <5> QED BY <5>1
      <4>5. ASSUME NEW i \in 1..m - 1
            PROVE  b[i].of = qs[i] /\ (~b[i].ok => Spoilt(qs[i]))
        <5>1. i \in 1..n /\ i + 1 \in 1..m
          BY <4>3
        <5>2. b[i] = a[i + 1] /\ str[i + 1] = qs[i]
          BY <1>6, <2>1, <4>4, <5>1
        <5>3. a[i + 1].of = str[i + 1]
          BY <1>7, <5>1 DEF Answered
        <5>4. str[i + 1] # P!Dummy
          BY <1>5, <5>1, <5>2
        <5> QED BY <1>8, <5>1, <5>2, <5>3, <5>4
      <4>6. b # <<>> /\ Len(b) <= Len(qs)
        <5>1. Len(b) > 0 /\ Len(b) <= n
          BY ONLY <4>3, <4>4, m \in Nat, n \in Nat
        <5>2. b # <<>>
          BY ONLY <5>1
        <5> QED BY <1>3, <5>1, <5>2
      <4>7. Len(b) = Len(qs) \/ ~b[Len(b)].ok
        <5>1. m - 1 \in 1..m - 1 /\ (m - 1) + 1 = m
          BY <4>3
        <5>2. b[m - 1] = a[(m - 1) + 1]
          BY <4>4, <5>1
        <5>3. b[m - 1] = a[m]
          BY <5>1, <5>2
        <5>4. m - 1 = n \/ ~b[m - 1].ok
          BY <4>2, <5>3
        <5> QED BY <1>3, <4>4, <5>4
      <4>8. \A i \in 1..Len(b) : b[i].of = qs[i] /\ (~b[i].ok => Spoilt(qs[i]))
        BY <4>4, <4>5
      <4>9. Ascends(qs, {p \in t.present : p >= t.first})
        BY <1>10
      <4>10. t.present \subseteq P!Query
        BY <1>1, <1>10
      <4>11. Chain(t, b) /\ Ending(t, b)
        BY ONLY Sized, <1>10, <4>6, <4>7, <4>8, <4>9, <4>10, t.second = P!End, b \in Seq(Reply), ChainMade
      <4> QED BY <4>4, <4>11
    <3> QED BY <1>3, <1>7, <2>1, <3>1, <3>2, <3>3 DEF Reads
  <2>2. CASE ~(n > 1)
    <3>1. str = qs /\ n = 1 /\ m = 1
      BY <1>3, <1>6, <1>7, <2>2
    <3>2. a[1].of = qs[1]
      <4>1. 1 \in 1..Len(a)
        BY <1>7
      <4> QED BY <3>1, <4>1 DEF Answered
    <3>3. ~a[1].ok => Spoilt(qs[1])
      <4>1. 1 \in 1..m /\ 1 \in 1..n /\ qs[1] # P!Dummy
        BY <1>5, <3>1
      <4> QED BY <1>8, <3>1, <4>1
    <3>4. \A i \in 1..Len(a) : a[i].of = qs[i] /\ (~a[i].ok => Spoilt(qs[i]))
      <4>1. \A i \in 1..Len(a) : i = 1
        BY <1>7, <3>1
      <4> QED BY <3>2, <3>3, <4>1
    <3>5. Len(a) <= Len(qs) /\ Len(a) = Len(qs)
      BY <1>3, <1>7, <3>1
    <3>6. Ascends(qs, {p \in t.present : p >= t.first})
      BY <1>10
    <3>7. t.present \subseteq P!Query
      BY <1>1, <1>10
    <3>8. Chain(t, a) /\ Ending(t, a)
      BY ONLY Sized, <1>7, <1>10, <3>4, <3>5, <3>6, <3>7, t.second = P!End, ChainMade
    <3> QED BY <1>3, <2>2, <3>8 DEF Reads
  <2> QED BY <2>1, <2>2
<1>14. Kept(t)
  BY <1>1, <1>2 DEF Kept, Calls
<1>15. Counted(t)
  <2>1. Unissued(t) = {}
    BY <1>1, <1>2, <1>10 DEF Unissued, P!Query
  <2>2. Cardinality(Unissued(t)) = 0
    BY <2>1, FS_EmptySet
  <2>3. t.waiting = 0
    BY <1>3
  <2> QED BY <2>2, <2>3 DEF Counted
<1>16. RanInOrder(t)
  <2>1. /\ \A i, j \in 1..Len(t.ran) : i < j => t.ran[i] < t.ran[j]
        /\ \A i \in 1..Len(t.ran) : t.ran[i] <= s.last
    <3>1. CASE P!Last(a).ok
      <4>1. PICK r \in Seq(P!Query) : r = s.ran
        BY <1>1
      <4>2. PICK d : d = r \o c
        OBVIOUS
      <4>3. /\ \A i, j \in 1..Len(r) : i < j => r[i] < r[j]
            /\ \A i \in 1..Len(r) : r[i] < s.second /\ r[i] <= s.last
        BY <1>1, <4>1 DEF RanInOrder
      <4>4. /\ \A i, j \in 1..Len(c) : i < j => c[i] < c[j]
            /\ \A i \in 1..Len(c) : s.second <= c[i] /\ c[i] <= s.last
        BY <1>3, <1>4, <1>5 DEF Ascends
      <4>5. /\ \A i, j \in 1..Len(d) : i < j => d[i] < d[j]
            /\ \A i \in 1..Len(d) : d[i] <= s.last
        BY <1>2, <4>2, <4>3, <4>4, RanOn
      <4>6. t.ran = d
        BY <1>4, <3>1, <4>1, <4>2
      <4> QED BY <4>5, <4>6
    <3>2. CASE ~P!Last(a).ok
      BY <1>1, <3>2 DEF RanInOrder
    <3> QED BY <3>1, <3>2
  <2>2. ASSUME NEW i \in 1..Len(t.ran) PROVE t.ran[i] < P!End
    <3>1. t.ran \in Seq(P!Query)
      BY <1>11 DEF PipeTyped
    <3>2. t.ran[i] \in P!Query
      BY ONLY <3>1, i \in 1..Len(t.ran)
    <3> QED BY <1>2, <3>2 DEF P!Query
  <2> QED BY <2>1, <2>2 DEF RanInOrder, Calls
<1>17. Blamed(t)
  <2>1. t.failed => inWork /\ \E e \in P!Query : fault[e] # "fine"
    <3>1. CASE s.failed
      BY <1>1, <3>1 DEF Blamed
    <3>2. CASE ~s.failed
      BY <1>8, <1>9, <3>2
    <3> QED BY <3>1, <3>2
  <2> QED BY <2>1 DEF Blamed
<1>18. Excused(t)
  BY DEF Excused
<1> QED BY <1>10, <1>11, <1>12, <1>13, <1>14, <1>15, <1>16, <1>17, <1>18 DEF PipeKept

\* What issue comes to: the string is on its way, or an error keeps it back.
Sent(s, t) ==
  /\ PipeKept(t) /\ Calls(s, t) /\ t.thrown \in {"none", "more results"}
  /\ t.thrown = "none" =>
       /\ t.error = s.error /\ s.first = t.first
       /\ s.error = P!NoError => P!Pending(t) /\ t.second = P!End
       /\ s.error # P!NoError => ~P!Pending(t) /\ t.second = s.second /\ t.waiting = s.waiting
                               /\ t.unread = <<>>

\* It keeps what is kept, and says which of the two it was.
LEMMA IssueKeeps ==
  ASSUME Sized, FaultsKnown, NEW s, PipeKept(s), ~P!Pending(s), s.waiting > 0, s.thrown = "none",
         NEW t, t = P!Issue(s)
  PROVE  Sent(s, t)
<1>1. /\ PipeTyped(s) /\ Placed(s) /\ Reads(s) /\ Kept(s) /\ Counted(s) /\ RanInOrder(s)
      /\ Blamed(s) /\ Excused(s) /\ s.present \subseteq P!Query /\ Shaped(s)
      /\ s.res \in [P!Query -> Reply] /\ s.unread \in Seq(Reply) /\ s.ran \in Seq(P!Query)
  BY DEF PipeKept, PipeTyped
<1>2. /\ s.first \in Nat /\ s.second \in Nat /\ s.last \in Nat /\ s.waiting \in Nat /\ s.error \in Nat
      /\ s.second <= P!End /\ MaxQueries \in Nat /\ P!End = MaxQueries + 1 /\ P!NoError = MaxQueries + 2
      /\ s.first = s.second /\ P!End \in Nat /\ s.last <= MaxQueries
  BY <1>1, PipeNumbers DEF P!End, P!NoError, Sized, P!Pending, PipeTyped
<1>3. /\ IsFiniteSet(Unissued(s)) /\ Cardinality(Unissued(s)) \in Nat
      /\ s.waiting <= Cardinality(Unissued(s))
  BY <1>1, UnissuedFinite DEF Counted
<1>4. PICK p \in s.present : p >= s.second
  <2>1. Unissued(s) # {}
    BY <1>2, <1>3, FS_EmptySet
  <2> QED BY <2>1 DEF Unissued
<1>5. s.second \in s.present /\ s.second \in P!Query /\ s.second < P!End /\ s.second > 0 /\ s.second # P!End
  <2>1. p <= MaxQueries /\ p \in Nat
    BY <1>1, <1>2 DEF P!Query
  <2>2. s.second # P!End
    BY <1>2, <1>4, <2>1
  <2>3. s.second \in s.present
    BY <1>1, <2>2 DEF Placed
  <2> QED BY <1>1, <1>2, <2>2, <2>3 DEF P!Query
<1>6. PICK o : o = Obtained(s)
  OBVIOUS
<1>7. PICK qs : qs = P!InTurn({q \in o.present : q >= o.second})
  OBVIOUS
<1>8. PICK v : v = P!StartExec(o, IF Len(qs) > 1 THEN <<P!Dummy>> \o qs ELSE qs)
  OBVIOUS
<1>9. t = LeftBy(o, qs, v)
  BY ONLY <1>6, <1>7, <1>8, IssueSplit, t = P!Issue(s)
<1>10. CASE s.unread # <<>>
  <2>1. s.cancelled
    BY <1>1, <1>10 DEF Placed
  <2>2. PICK m \in Nat : m = P!Min(s.present) /\ m \in s.present /\ \A q \in s.present : m <= q
    <3>1. s.present \in SUBSET Nat /\ s.present # {}
      BY <1>1, <1>2, <1>4 DEF P!Query
    <3>2. P!Min(s.present) \in s.present /\ \A q \in s.present : P!Min(s.present) <= q
      BY ONLY <3>1, LeastIs
    <3> QED BY <3>1, <3>2
  <2>3. PICK e \in Nat : e = P!Min({s.error, m}) /\ e <= s.error /\ e <= m
    BY <1>2, LesserOfTwo
  <2>4. /\ Calls(s, o) /\ Serves(s, o)
        /\ o.waiting = s.waiting /\ o.dummy = s.dummy /\ o.res = s.res
        /\ o.first = s.first /\ o.second = s.second /\ o.error = e
        /\ o.thrown = "more results"
        /\ o.active = s.active /\ o.unread = Tail(s.unread)
    <3>1. s.present # {}
      BY <1>4
    <3>2. /\ Calls(s, o) /\ Serves(s, o)
          /\ o.waiting = s.waiting /\ o.dummy = s.dummy /\ o.res = s.res
          /\ o.first = s.first /\ o.second = s.second /\ o.error = P!Min({s.error, P!Min(s.present)})
          /\ o.thrown = "more results"
          /\ o.active = s.active /\ o.unread = Tail(s.unread)
      BY <1>1, <1>6, <1>10, <3>1, ObtainMore
    <3> QED BY <2>2, <2>3, <3>2
  <2>5. t = o
    BY <1>9, <2>4 DEF LeftBy
  <2>6. e \in 0..P!NoError /\ e # P!NoError /\ e <= s.second /\ e <= s.last + 1
    <3>1. m <= MaxQueries /\ m <= s.last /\ m <= s.second
      BY <1>1, <1>2, <1>5, <2>2 DEF P!Query, Placed
    <3> QED BY <1>2, <2>3, <3>1
  <2>7. PipeTyped(o)
    <3>1. Tail(s.unread) \in Seq(Reply)
      <4>1. PICK b \in Seq(Reply) : b = s.unread /\ b # <<>>
        BY <1>1, <1>10
      <4>2. Tail(b) \in Seq(Reply)
        BY ONLY <4>1, b \in Seq(Reply)
      <4> QED BY <4>1, <4>2
    <3> QED BY <1>1, <2>4, <2>6, <3>1 DEF PipeTyped, Calls, Serves
  <2>8. Placed(o)
    BY <1>1, <2>1, <2>4, <2>6 DEF Placed, Calls
  <2>9. Reads(o)
    BY <1>2, <2>4 DEF Reads, P!Pending
  <2>10. Kept(o)
    <3>1. \A q \in s.present : q < e => q < s.error
      BY <1>1, <1>2, <2>3 DEF P!Query
    <3>2. o.error # P!NoError
      BY <2>4, <2>6
    <3> QED BY <1>1, <2>4, <3>1, <3>2 DEF Kept, Calls
  <2>11. Counted(o)
    BY <1>1, <2>4, <2>6 DEF Counted, Unissued, Calls
  <2>12. RanInOrder(o) /\ Blamed(o) /\ Excused(o)
    BY <1>1, <2>1, <2>4, <2>6 DEF RanInOrder, Blamed, Excused, Calls, Serves
  <2> QED BY <2>4, <2>5, <2>7, <2>8, <2>9, <2>10, <2>11, <2>12 DEF Sent, PipeKept
<1>11. CASE s.unread = <<>>
  <2>1. /\ Calls(s, o) /\ Serves(s, o)
        /\ o.waiting = s.waiting /\ o.dummy = s.dummy /\ o.res = s.res
        /\ o.first = s.first /\ o.second = s.second /\ o.error = s.error /\ o.thrown = s.thrown
        /\ o.unread = s.unread
    BY <1>1, <1>6, <1>11, ObtainEnd
  <2>2. CASE s.error # P!NoError
    <3>1. t = o
      BY <1>9, <2>1, <2>2 DEF LeftBy
    <3>2. ~P!Pending(o)
      BY <2>1 DEF P!Pending
    <3>3. PipeTyped(o) /\ Placed(o)
      BY <1>1, <2>1, <3>2 DEF PipeTyped, Placed, Calls, Serves, P!Pending
    <3>4. Reads(o) /\ Kept(o)
      BY <1>1, <2>1, <3>2 DEF Reads, Kept, Calls
    <3>5. Counted(o) /\ RanInOrder(o)
      BY <1>1, <2>1 DEF Counted, Unissued, RanInOrder, Calls, Serves
    <3>6. Blamed(o) /\ Excused(o)
      BY <1>1, <2>1 DEF Blamed, Excused, Calls, Serves
    <3> QED BY <1>11, <2>1, <2>2, <3>1, <3>2, <3>3, <3>4, <3>5, <3>6 DEF Sent, PipeKept
  <2>3. CASE s.error = P!NoError
    <3>1. qs = P!InTurn(Unissued(s)) /\ Ascends(qs, Unissued(s))
      <4>1. {q \in o.present : q >= o.second} = Unissued(s)
        BY <2>1 DEF Unissued, Calls
      <4>2. Unissued(s) \in SUBSET P!Query
        BY <1>1 DEF Unissued
      <4>3. Ascends(P!InTurn(Unissued(s)), Unissued(s))
        BY <4>2, InTurnAscends
      <4> QED BY <1>7, <4>1, <4>3
    <3>2. PICK n \in Nat : n = Len(qs) /\ n = s.waiting /\ n > 0 /\ qs # <<>> /\ qs \in Seq(P!Query)
      <4>1. Len(qs) = s.waiting /\ qs \in Seq(P!Query)
        BY <1>1, <2>3, <3>1 DEF Ascends, Counted
      <4>2. qs # <<>>
        BY <1>2, <4>1
      <4> QED BY <1>2, <4>1, <4>2
    <3>3. PICK str : str = IF Len(qs) > 1 THEN <<P!Dummy>> \o qs ELSE qs
      OBVIOUS
    <3>4. PICK a : a = P!Answers(s, str)
      OBVIOUS
    <3>5. IssuedAs(s, t, qs, a)
      <4>1. Shaped(s) /\ s.present \subseteq P!Query /\ s.waiting \in Nat
        BY <1>1, <1>2
      <4> QED BY ONLY Sized, ~P!Pending(s), <1>11, <2>3, s.thrown = "none", t = P!Issue(s), <4>1,
                      <3>1, <3>2, <3>3, <3>4, IssueIs
    <3>6. Answered(s, str, a)
      <4>1. PICK c, z : c = qs /\ z = P!Dummy /\ c \in Seq(P!Query)
        BY <3>2
      <4>2. c \in Seq(P!Query)
        BY <4>1
      <4>3. <<z>> \o c \in Seq(P!Query \cup {z}) /\ c \in Seq(P!Query \cup {z}) /\ <<z>> \o c # <<>>
        BY ONLY <4>2
      <4>4. str \in Seq(P!Query \cup {P!Dummy}) /\ str # <<>>
        BY <3>2, <3>3, <4>1, <4>3
      <4> QED BY <3>4, <4>4, AnswersAre
    <3>7. PipeKept(t) /\ P!Pending(t)
      <4>1. s.waiting = Len(qs)
        BY <3>2
      <4> QED BY ONLY Sized, FaultsKnown, PipeKept(s), ~P!Pending(s), <1>11, <2>3, s.thrown = "none",
                      <1>5, <3>1, <3>2, <4>1, <3>3, <3>6, <3>5, SentKept
    <3> QED BY <1>2, <2>3, <3>5, <3>7 DEF Sent, IssuedAs
  <2> QED BY <2>2, <2>3
<1> QED BY <1>10, <1>11

-----------------------------------------------------------------------------
(* The calls.                                                              *)

\* What the invariant sees of a pipeline.
AlikeIn(s, t) ==
  /\ Shaped(t)
  /\ t.present = s.present /\ t.res = s.res /\ t.first = s.first /\ t.second = s.second
  /\ t.waiting = s.waiting /\ t.last = s.last /\ t.dummy = s.dummy /\ t.error = s.error
  /\ t.unread = s.unread /\ t.active = s.active /\ t.failed = s.failed /\ t.ran = s.ran
  /\ t.cancelled = s.cancelled

\* That is all it sees.
LEMMA AlikeKept ==
  ASSUME NEW s, PipeKept(s), NEW t, AlikeIn(s, t), t.retain \in Nat,
         t.thrown \in {s.thrown, "none", "sql", "earlier error"}
  PROVE  PipeKept(t) /\ (P!Pending(t) <=> P!Pending(s))
<1>1. /\ PipeTyped(s) /\ Placed(s) /\ Reads(s) /\ Kept(s) /\ Counted(s) /\ RanInOrder(s)
      /\ Blamed(s) /\ Excused(s)
  BY DEF PipeKept
<1>2. P!Pending(t) <=> P!Pending(s)
  BY DEF AlikeIn, P!Pending
<1>3. PipeTyped(t)
  BY <1>1 DEF AlikeIn, PipeTyped
<1>4. Placed(t)
  BY <1>1, <1>2 DEF AlikeIn, Placed
<1>5. \A q : P!After(t, q) = P!After(s, q)
  BY DEF AlikeIn, P!After
<1>6. \A b : (Chain(s, b) => Chain(t, b)) /\ (Ending(s, b) => Ending(t, b))
  BY <1>5 DEF AlikeIn, Chain, Ending, Behind
<1>7. Failing(s) => Failing(t)
  BY DEF AlikeIn, Failing
<1>8. Reads(t)
  BY <1>1, <1>2, <1>6, <1>7 DEF AlikeIn, Reads
<1>9. Kept(t) /\ Counted(t)
  BY <1>1 DEF AlikeIn, Kept, Counted, Unissued
<1>10. RanInOrder(t) /\ Blamed(t) /\ Excused(t)
  BY <1>1 DEF AlikeIn, RanInOrder, Blamed, Excused
<1> QED BY <1>2, <1>3, <1>4, <1>8, <1>9, <1>10 DEF PipeKept

\* A call starts with a clean slate,
LEMMA StartKept ==
  ASSUME PipeKept(pipe), NEW s, s = P!Start
  PROVE  /\ PipeKept(s) /\ s.thrown = "none" /\ (P!Pending(s) <=> P!Pending(pipe)) /\ AlikeIn(pipe, s)
         /\ s.retain = pipe.retain
<1>1. Shaped(pipe) /\ pipe.retain \in Nat
  BY DEF PipeKept, PipeTyped
<1>2. AlikeIn(pipe, s) /\ s.thrown = "none" /\ s.retain = pipe.retain
  BY <1>1 DEF P!Start, AlikeIn, Shaped, PipeFields
<1> QED BY <1>1, <1>2, AlikeKept

\* and ends with one.
LEMMA ReturnKept ==
  ASSUME NEW s, PipeKept(s), NEW t, t = [s EXCEPT !.any = FALSE]
  PROVE  PipeKept(t) /\ t.cancelled = s.cancelled
<1>1. Shaped(s) /\ s.retain \in Nat
  BY DEF PipeKept, PipeTyped
<1>2. AlikeIn(s, t) /\ t.thrown = s.thrown /\ t.retain = s.retain /\ t.cancelled = s.cancelled
  BY <1>1 DEF AlikeIn, Shaped, PipeFields
<1> QED BY <1>1, <1>2, AlikeKept

\* complete and flush give up the transaction's focus, which nothing depends on;
LEMMA UnfocusedKept ==
  ASSUME NEW s, PipeKept(s), NEW t, t = [s EXCEPT !.focus = FALSE]
  PROVE  PipeKept(t) /\ t.cancelled = s.cancelled
<1>1. Shaped(s) /\ s.retain \in Nat
  BY DEF PipeKept, PipeTyped
<1>2. AlikeIn(s, t) /\ t.thrown = s.thrown /\ t.retain = s.retain /\ t.cancelled = s.cancelled
  BY <1>1 DEF AlikeIn, Shaped, PipeFields
<1> QED BY <1>1, <1>2, AlikeKept

\* retain sets how many queries may wait.
LEMMA RetainKept ==
  ASSUME NEW s, PipeKept(s), NEW n \in Nat, NEW t, t = [s EXCEPT !.retain = n]
  PROVE  PipeKept(t) /\ t.thrown = s.thrown /\ t.cancelled = s.cancelled
<1>1. Shaped(s)
  BY DEF PipeKept, PipeTyped
<1>2. AlikeIn(s, t) /\ t.thrown = s.thrown /\ t.retain = n /\ t.cancelled = s.cancelled
  BY <1>1 DEF AlikeIn, Shaped, PipeFields
<1> QED BY <1>1, <1>2, AlikeKept

\* A query that is added at the end leaves the results to be read as they were.
LEMMA ChainGrows ==
  ASSUME Sized, NEW s, NEW t, s.present \subseteq P!Query, NEW q \in P!Query, \A p \in s.present : p < q,
         t.present = s.present \cup {q},
         s.first \in s.present, s.second \in s.present \cup {P!End}, s.first < s.second,
         t.first = s.first, t.second = IF s.second = P!End THEN q ELSE s.second,
         NEW b \in Seq(Reply), Chain(s, b), Ending(s, b)
  PROVE  Chain(t, b) /\ Ending(t, b)
<1>1. PICK n \in Nat : n = Len(b)
  BY ONLY b \in Seq(Reply)
<1>2. /\ MaxQueries \in Nat /\ P!End = MaxQueries + 1 /\ q \in Nat /\ q <= MaxQueries
      /\ \A p \in s.present : p \in Nat /\ p <= MaxQueries
  BY DEF Sized, P!End, P!Query
<1>3. ASSUME NEW p \in s.present
      PROVE  P!After(t, p) = IF P!After(s, p) = P!End THEN q ELSE P!After(s, p)
  <2>1. /\ P!After(s, p) \in s.present \cup {P!End} /\ P!After(s, p) > p
        /\ \A m \in s.present : m > p => P!After(s, p) <= m
    BY <1>2, AfterIs
  <2>2. t.present \subseteq P!Query
    OBVIOUS
  <2>3. CASE P!After(s, p) = P!End
    <3>1. \A m \in t.present : m > p => q <= m
      BY <1>2, <2>1, <2>3
    <3>2. q \in t.present /\ q > p
      BY <1>2
    <3> QED BY <1>2, <2>2, <2>3, <3>1, <3>2, AfterKnown
  <2>4. CASE P!After(s, p) # P!End
    <3>1. P!After(s, p) \in t.present /\ P!After(s, p) < q
      BY <2>1, <2>4
    <3>2. \A m \in t.present : m > p => P!After(s, p) <= m
      BY <1>2, <2>1, <3>1
    <3> QED BY <1>2, <2>1, <2>2, <2>4, <3>1, <3>2, AfterKnown
  <2> QED BY <2>3, <2>4
<1>4. /\ n <= MaxQueries /\ (b # <<>> => b[1].of = s.first)
      /\ \A i \in 1..n :
           /\ b[i].of \in s.present /\ s.first <= b[i].of /\ b[i].of < s.second
           /\ ~b[i].ok => Spoilt(b[i].of)
           /\ i < n => b[i + 1].of = P!After(s, b[i].of)
           /\ \A j \in 1..n : i < j => b[i].of < b[j].of
  BY <1>1 DEF Chain
<1>5. ASSUME NEW i \in 1..n
      PROVE  /\ b[i].of \in t.present /\ b[i].of < t.second
             /\ i < n => b[i + 1].of = P!After(t, b[i].of)
  <2>1. b[i].of \in s.present
    BY <1>4
  <2>2. i < n => b[i + 1].of \in s.present /\ b[i + 1].of # P!End
    <3> SUFFICES ASSUME i < n PROVE b[i + 1].of \in s.present /\ b[i + 1].of # P!End
      OBVIOUS
    <3>1. i + 1 \in 1..n
      OBVIOUS
    <3>2. b[i + 1].of \in s.present
      BY <1>4, <3>1
    <3> QED BY <1>2, <3>2
  <2>3. i < n => b[i + 1].of = P!After(t, b[i].of)
    BY <1>3, <1>4, <2>1, <2>2
  <2> QED BY <1>4, <2>1, <2>3
<1>6. Chain(t, b)
  BY <1>1, <1>4, <1>5 DEF Chain
<1>7. Ending(t, b)
  <2>1. CASE b = <<>>
    <3>1. Behind(s, b) = s.first /\ Behind(t, b) = s.first /\ s.first # s.second
      BY <1>2, <2>1 DEF Behind
    <3> QED BY <3>1 DEF Ending
  <2>2. CASE b # <<>>
    <3>1. b # <<>> /\ n \in 1..n
      <4>1. Len(b) > 0
        BY ONLY <2>2, b \in Seq(Reply)
      <4> QED BY <1>1, <2>2, <4>1
    <3>2. PICK p \in s.present : p = b[n].of /\ p < s.second
      BY <1>4, <3>1
    <3>3. Behind(s, b) = P!After(s, p) /\ Behind(t, b) = P!After(t, p)
      BY <1>1, <3>1, <3>2 DEF Behind
    <3>4. CASE s.second = P!End
      <4>1. CASE P!After(s, p) = P!End
        BY <1>3, <3>3, <3>4, <4>1 DEF Ending
      <4>2. CASE P!After(s, p) # P!End
        BY <1>3, <3>3, <3>4, <4>2 DEF Ending
      <4> QED BY <4>1, <4>2
    <3>5. CASE s.second # P!End
      <4>1. s.second \in s.present /\ P!After(s, p) <= s.second
        BY <1>2, <3>2, <3>5, AfterIs
      <4>2. P!After(s, p) # P!End
        BY <1>2, <4>1
      <4> QED BY <1>3, <3>3, <3>5, <4>2 DEF Ending
    <3> QED BY <3>4, <3>5
  <2> QED BY <2>1, <2>2
<1> QED BY <1>6, <1>7

\* insert puts the query behind all others.
LEMMA InsertedKept ==
  ASSUME Sized, NEW s, PipeKept(s), s.last < MaxQueries, NEW t, t = P!Inserted(s)
  PROVE  /\ PipeKept(t) /\ t.cancelled = s.cancelled
         /\ t.thrown = s.thrown /\ t.waiting = s.waiting + 1 /\ t.retain = s.retain
<1>1. /\ PipeTyped(s) /\ Placed(s) /\ Reads(s) /\ Kept(s) /\ Counted(s) /\ RanInOrder(s)
      /\ Blamed(s) /\ Excused(s) /\ s.present \subseteq P!Query /\ Shaped(s)
      /\ s.unread \in Seq(Reply)
  BY DEF PipeKept, PipeTyped
<1>2. /\ s.first \in Nat /\ s.second \in Nat /\ s.last \in Nat /\ s.waiting \in Nat
      /\ MaxQueries \in Nat /\ P!End = MaxQueries + 1 /\ P!NoError = MaxQueries + 2
      /\ s.first <= s.second /\ s.second <= P!End /\ P!End \in Nat
  BY PipeNumbers DEF Sized, P!End, P!NoError
<1>3. PICK q \in P!Query : q = s.last + 1
  <2>1. s.last + 1 \in P!Query
    BY <1>2 DEF P!Query
  <2> QED BY <2>1
<1>4. q \in Nat /\ q > 0 /\ q <= MaxQueries /\ q < P!End /\ q # P!End /\ \A p \in s.present : p < q /\ p \in Nat
  <2>1. \A p \in s.present : p \in 1..s.last
    BY <1>1 DEF Placed
  <2> QED BY <1>2, <1>3, <2>1
<1>5. PICK p1, w, c, f :
        /\ p1 = s.present \cup {q} /\ w = s.waiting + 1
        /\ c = (IF s.second = P!End THEN q ELSE s.second)
        /\ f = (IF s.second = P!End /\ s.first = P!End THEN q ELSE s.first)
  OBVIOUS
<1>6. t = [s EXCEPT !.focus = TRUE, !.last = q, !.present = p1, !.waiting = w, !.second = c, !.first = f]
  BY <1>1, <1>3, <1>5 DEF P!Inserted, Shaped, PipeFields
<1>7. /\ Shaped(t)
      /\ t.last = q /\ t.present = p1 /\ t.waiting = w /\ t.second = c /\ t.first = f
      /\ t.res = s.res /\ t.dummy = s.dummy /\ t.error = s.error /\ t.retain = s.retain
      /\ t.unread = s.unread /\ t.active = s.active /\ t.failed = s.failed /\ t.ran = s.ran
      /\ t.cancelled = s.cancelled /\ t.thrown = s.thrown
  BY <1>1, <1>6 DEF Shaped, PipeFields
<1>8. p1 = s.present \cup {q} /\ w = s.waiting + 1 /\ p1 \subseteq P!Query /\ w \in Nat
  BY <1>1, <1>2, <1>5
<1>9. /\ s.second # P!End => c = s.second /\ s.second \in s.present /\ s.second < q
      /\ s.second = P!End => c = q
      /\ s.first # P!End => f = s.first /\ s.first \in s.present /\ s.first < q
      /\ s.first = P!End => f = q /\ c = q /\ s.second = P!End
  <2>1. s.second # P!End => s.second \in s.present
    BY <1>1 DEF Placed
  <2>2. s.first # P!End => s.first \in s.present
    BY <1>1 DEF Placed
  <2>3. s.first = P!End => s.second = P!End
    BY <1>2
  <2> QED BY <1>4, <1>5, <2>1, <2>2, <2>3
<1>10. f \in Nat /\ c \in Nat /\ f <= c /\ c <= q /\ c <= s.second /\ f <= s.first /\ {f, c} \subseteq p1
  BY <1>2, <1>4, <1>8, <1>9
<1>11. P!Pending(t) <=> P!Pending(s)
  <2>1. f # c <=> s.first # s.second
    BY <1>4, <1>9
  <2> QED BY <1>7, <2>1 DEF P!Pending
<1>12. PipeTyped(t)
  <2>1. q \in 0..MaxQueries
    BY <1>2, <1>4
  <2> QED BY <1>1, <1>7, <1>8, <2>1 DEF PipeTyped
<1>13. Placed(t)
  <2>1. p1 \subseteq 1..q
    <3>1. ASSUME NEW m \in p1 PROVE m \in 1..q
      <4>1. m \in P!Query /\ m <= q
        BY <1>4, <1>8
      <4> QED BY <1>4, <4>1 DEF P!Query
    <3> QED BY <3>1
  <2>2. s.error # P!NoError => s.error <= c /\ s.error <= q + 1
    <3>1. s.error \in Nat /\ (s.error # P!NoError => s.error <= s.second /\ s.error <= s.last + 1)
      BY <1>1, PipeNumbers DEF Placed
    <3> QED BY <1>2, <1>3, <1>4, <1>9, <3>1
  <2>3. f # P!End
    BY <1>2, <1>4, <1>10
  <2> QED BY <1>1, <1>7, <1>10, <1>11, <2>1, <2>2, <2>3 DEF Placed
<1>14. Reads(t)
  <2> SUFFICES ASSUME P!Pending(s) PROVE Reads(t)
    BY <1>11 DEF Reads
  <2>1. /\ s.error = P!NoError /\ s.active
        /\ s.dummy => s.unread # <<>> /\ s.unread[1].of = P!Dummy
        /\ s.dummy /\ ~s.unread[1].ok => Failing(s)
        /\ s.dummy /\ s.unread[1].ok => Chain(s, Tail(s.unread)) /\ Ending(s, Tail(s.unread))
        /\ ~s.dummy => Chain(s, s.unread) /\ Ending(s, s.unread)
    BY <1>1 DEF Reads
  <2>2. s.first \in s.present /\ s.first < s.second /\ s.first # P!End /\ s.second \in s.present \cup {P!End}
    BY <1>1, PipeNumbers DEF Placed
  <2>3. f = s.first
    BY <1>9, <2>2
  <2>4. ASSUME NEW b \in Seq(Reply), Chain(s, b), Ending(s, b) PROVE Chain(t, b) /\ Ending(t, b)
    <3>1. /\ \A p \in s.present : p < q
          /\ t.present = s.present \cup {q} /\ t.first = s.first
          /\ t.second = IF s.second = P!End THEN q ELSE s.second
      BY <1>4, <1>5, <1>7, <2>3
    <3> QED BY ONLY Sized, <1>1, <2>2, <2>4, <3>1, q \in P!Query, b \in Seq(Reply), ChainGrows
  <2>5. Failing(s) => Failing(t)
    <3> SUFFICES ASSUME Failing(s) PROVE Failing(t)
      OBVIOUS
    <3>1. s.failed \/ \E p \in p1 : f <= p /\ p < c /\ fault[p] = "syntax"
      <4>1. ASSUME NEW p \in s.present, s.first <= p, p < s.second PROVE p \in p1 /\ f <= p /\ p < c
        BY <1>4, <1>8, <1>9, <2>3, <4>1
      <4> QED BY <4>1 DEF Failing
    <3> QED BY <1>7, <2>3, <3>1 DEF Failing
  <2>6. s.dummy => Tail(s.unread) \in Seq(Reply)
    <3>1. s.unread # <<>> => Tail(s.unread) \in Seq(Reply)
      <4>1. PICK b \in Seq(Reply) : b = s.unread
        BY <1>1
      <4>2. b # <<>> => Tail(b) \in Seq(Reply)
        BY ONLY b \in Seq(Reply)
      <4> QED BY <4>1, <4>2
    <3> QED BY <2>1, <3>1
  <2> QED BY <1>1, <1>7, <2>1, <2>4, <2>5, <2>6 DEF Reads
<1>15. Kept(t)
  <2>1. ASSUME NEW m \in p1, m < f, m < s.error
        PROVE  IF s.res[m].ok THEN s.res[m].of = m ELSE Spoilt(m)
    <3>1. m \in s.present
      <4>1. m # q
        BY <1>4, <1>10, <2>1
      <4> QED BY <1>8, <4>1
    <3>2. m < s.first
      BY <1>2, <1>4, <1>10, <2>1, <3>1
    <3> QED BY <1>1, <2>1, <3>1, <3>2 DEF Kept
  <2>2. ASSUME NEW m \in P!Query, s.error = P!NoError, m >= f \/ m > q
        PROVE  s.res[m] = P!NoResult
    <3>1. m \in Nat
      BY <1>2 DEF P!Query
    <3>2. m >= s.first \/ m > s.last
      BY <1>2, <1>3, <1>4, <1>9, <1>10, <2>2, <3>1
    <3> QED BY <1>1, <2>2, <3>2 DEF Kept
  <2> QED BY <1>7, <2>1, <2>2 DEF Kept
<1>16. Counted(t)
  <2>1. Unissued(t) = Unissued(s) \cup {q}
    <3>1. \A m \in s.present : m >= c <=> m >= s.second
      BY <1>2, <1>4, <1>9
    <3>2. q >= c
      BY <1>4, <1>10
    <3> QED BY <1>7, <1>8, <3>1, <3>2 DEF Unissued
  <2>2. IsFiniteSet(Unissued(s)) /\ Cardinality(Unissued(s)) \in Nat
    BY <1>1, UnissuedFinite
  <2>3. q \notin Unissued(s)
    <3>1. q \notin s.present
      BY <1>4
    <3> QED BY <3>1 DEF Unissued
  <2>4. Cardinality(Unissued(t)) = Cardinality(Unissued(s)) + 1
    BY <2>1, <2>2, <2>3, FS_AddElement
  <2> QED BY <1>1, <1>2, <1>7, <1>8, <2>2, <2>4 DEF Counted
<1>17. RanInOrder(t)
  <2>1. ASSUME NEW i \in 1..Len(s.ran)
        PROVE  s.ran[i] <= q /\ (s.error = P!NoError => s.ran[i] < c)
    <3>1. s.ran[i] \in Nat
      <4>1. s.ran \in Seq(P!Query)
        BY <1>1 DEF PipeTyped
      <4>2. s.ran[i] \in P!Query
        BY ONLY <4>1, i \in 1..Len(s.ran)
      <4> QED BY <1>2, <4>2 DEF P!Query
    <3>2. s.ran[i] <= s.last /\ (s.error = P!NoError => s.ran[i] < s.second)
      BY <1>1 DEF RanInOrder
    <3> QED BY <1>2, <1>3, <1>9, <3>1, <3>2
  <2> QED BY <1>1, <1>7, <2>1 DEF RanInOrder
<1>18. Blamed(t) /\ Excused(t)
  BY <1>1, <1>7 DEF Blamed, Excused
<1> QED BY <1>7, <1>8, <1>12, <1>13, <1>14, <1>15, <1>16, <1>17, <1>18 DEF PipeKept

\* What flush leaves.
LEMMA FlushedKept ==
  ASSUME Sized, NEW s, PipeKept(s), ~P!Pending(s),
         NEW t, t = [s EXCEPT !.first = P!End, !.second = P!End, !.waiting = 0, !.dummy = FALSE,
                              !.present = {}, !.focus = FALSE]
  PROVE  PipeKept(t) /\ t.cancelled = s.cancelled
<1>1. /\ PipeTyped(s) /\ Placed(s) /\ Reads(s) /\ Kept(s) /\ Counted(s) /\ RanInOrder(s)
      /\ Blamed(s) /\ Excused(s) /\ Shaped(s)
  BY DEF PipeKept, PipeTyped
<1>2. /\ MaxQueries \in Nat /\ P!End = MaxQueries + 1 /\ s.last \in Nat /\ s.error \in Nat
      /\ s.last <= MaxQueries /\ s.second \in Nat /\ s.second <= P!End
  BY <1>1, PipeNumbers DEF Sized, P!End, PipeTyped
<1>3. /\ Shaped(t)
      /\ t.first = P!End /\ t.second = P!End /\ t.waiting = 0 /\ ~t.dummy /\ t.present = {}
      /\ t.res = s.res /\ t.last = s.last /\ t.error = s.error /\ t.retain = s.retain
      /\ t.unread = s.unread /\ t.active = s.active /\ t.failed = s.failed /\ t.ran = s.ran
      /\ t.cancelled = s.cancelled /\ t.thrown = s.thrown
  BY <1>1 DEF Shaped, PipeFields
<1>4. ~P!Pending(t)
  BY <1>3 DEF P!Pending
<1>5. PipeTyped(t)
  BY <1>1, <1>3 DEF PipeTyped
<1>6. Placed(t)
  BY <1>1, <1>2, <1>3, <1>4 DEF Placed
<1>7. Reads(t)
  BY <1>4 DEF Reads
<1>8. Kept(t)
  <2>1. ASSUME NEW q \in P!Query, s.error = P!NoError, q >= P!End \/ q > s.last PROVE s.res[q] = P!NoResult
    <3>1. q > s.last
      BY <1>2, <2>1 DEF P!Query
    <3> QED BY <1>1, <2>1, <3>1 DEF Kept
  <2> QED BY <1>3, <2>1 DEF Kept
<1>9. Counted(t)
  <2>1. Unissued(t) = {}
    BY <1>3 DEF Unissued
  <2>2. Cardinality(Unissued(t)) = 0
    BY <2>1, FS_EmptySet
  <2> QED BY <1>3, <2>2 DEF Counted
<1>10. RanInOrder(t)
  <2>1. ASSUME NEW i \in 1..Len(s.ran) PROVE s.ran[i] < P!End
    <3>1. s.ran \in Seq(P!Query)
      BY <1>1 DEF PipeTyped
    <3>2. s.ran[i] \in P!Query
      BY ONLY <3>1, i \in 1..Len(s.ran)
    <3> QED BY <1>2, <3>2 DEF P!Query
  <2> QED BY <1>1, <1>3, <2>1 DEF RanInOrder
<1>11. Blamed(t) /\ Excused(t)
  BY <1>1, <1>3 DEF Blamed, Excused
<1> QED BY <1>3, <1>5, <1>6, <1>7, <1>8, <1>9, <1>10, <1>11 DEF PipeKept

\* What cancel leaves.
LEMMA CancelledKept ==
  ASSUME Sized, NEW s, PipeKept(s), NEW rest, rest = {q \in s.present : q < s.first \/ q >= s.second},
         NEW t, t = [s EXCEPT !.present = rest, !.first = s.second, !.cancelled = @ \/ P!Pending(s)]
  PROVE  PipeKept(t) /\ (s.cancelled => t.cancelled)
<1>1. /\ PipeTyped(s) /\ Placed(s) /\ Reads(s) /\ Kept(s) /\ Counted(s) /\ RanInOrder(s)
      /\ Blamed(s) /\ Excused(s) /\ Shaped(s) /\ s.present \subseteq P!Query
  BY DEF PipeKept, PipeTyped
<1>2. /\ MaxQueries \in Nat /\ P!End = MaxQueries + 1 /\ s.last \in Nat /\ s.error \in Nat
      /\ s.second \in Nat /\ s.second <= P!End /\ s.first \in Nat /\ s.first <= s.second
      /\ \A q \in P!Query : q \in Nat
  BY PipeNumbers DEF Sized, P!End, P!Query
<1>3. PICK c : c = (s.cancelled \/ P!Pending(s))
  OBVIOUS
<1>4. /\ Shaped(t)
      /\ t.first = s.second /\ t.second = s.second /\ t.waiting = s.waiting /\ t.dummy = s.dummy
      /\ t.present = rest
      /\ t.res = s.res /\ t.last = s.last /\ t.error = s.error /\ t.retain = s.retain
      /\ t.unread = s.unread /\ t.active = s.active /\ t.failed = s.failed /\ t.ran = s.ran
      /\ t.cancelled = c /\ t.thrown = s.thrown
  <2>1. t = [s EXCEPT !.present = rest, !.first = s.second, !.cancelled = c]
    BY <1>3
  <2> QED BY <1>1, <2>1 DEF Shaped, PipeFields
<1>5. t.cancelled <=> s.cancelled \/ P!Pending(s)
  BY <1>3, <1>4
<1>6. ~P!Pending(t)
  BY <1>4 DEF P!Pending
<1>7. rest \subseteq s.present /\ s.second \in rest \cup {P!End}
  BY <1>1 DEF Placed
<1>8. PipeTyped(t)
  BY <1>1, <1>4, <1>7 DEF PipeTyped
<1>9. Placed(t)
  <2>1. ~t.cancelled => t.unread = <<>> /\ ~t.dummy
    BY <1>1, <1>4, <1>5 DEF Placed
  <2>2. ~t.cancelled /\ t.first = P!End => \A q \in t.present : q < t.error
    <3>1. ~t.cancelled => s.first = s.second /\ ~s.cancelled
      BY <1>5 DEF P!Pending
    <3> QED BY <1>1, <1>4, <1>7, <3>1 DEF Placed
  <2> QED BY <1>1, <1>2, <1>4, <1>7, <2>1, <2>2 DEF Placed
<1>10. Reads(t)
  BY <1>6 DEF Reads
<1>11. Kept(t)
  <2>1. ASSUME NEW q \in rest, q < s.second, q < s.error
        PROVE  IF s.res[q].ok THEN s.res[q].of = q ELSE Spoilt(q)
    <3>1. q \in s.present /\ q < s.first
      BY <1>1, <1>2, <2>1
    <3> QED BY <1>1, <2>1, <3>1 DEF Kept
  <2>2. ASSUME NEW q \in P!Query, s.error = P!NoError, q >= s.second \/ q > s.last
        PROVE  s.res[q] = P!NoResult
    <3>1. q >= s.first \/ q > s.last
      BY <1>2, <2>2
    <3> QED BY <1>1, <2>2, <3>1 DEF Kept
  <2> QED BY <1>4, <2>1, <2>2 DEF Kept
<1>12. Counted(t)
  <2>1. Unissued(t) = Unissued(s)
    BY <1>4 DEF Unissued
  <2> QED BY <1>1, <1>4, <2>1 DEF Counted
<1>13. RanInOrder(t)
  BY <1>1, <1>4 DEF RanInOrder
<1>14. Blamed(t)
  BY <1>1, <1>4, <1>5 DEF Blamed
<1>15. Excused(t)
  BY <1>1, <1>4, <1>5 DEF Excused
<1> QED BY <1>5, <1>8, <1>9, <1>10, <1>11, <1>12, <1>13, <1>14, <1>15 DEF PipeKept

\* resume looks for results though issue has found an error: there are none, unless the program
\* cancelled, and then it may miss the dummy.
LEMMA IdleKept ==
  ASSUME Sized, NEW s, PipeKept(s), ~P!Pending(s), s.unread = <<>>, s.error # P!NoError,
         s.thrown = "none", NEW k, NEW t, t = P!ReceiveIfAvailable(s, k)
  PROVE  PipeKept(t) /\ t.cancelled = s.cancelled
<1>1. /\ PipeTyped(s) /\ Placed(s) /\ Reads(s) /\ Kept(s) /\ Counted(s) /\ RanInOrder(s)
      /\ Blamed(s) /\ Excused(s) /\ Shaped(s) /\ s.present \subseteq P!Query
  BY DEF PipeKept, PipeTyped
<1>2. s.error \in Nat /\ MaxQueries \in Nat /\ P!NoError = MaxQueries + 2 /\ s.second \in Nat /\ s.last \in Nat
  BY PipeNumbers DEF Sized, P!NoError
<1>3. CASE t = s
  BY <1>3
<1>4. CASE t # s /\ ~s.dummy
  <2>1. PICK u, m : u = s /\ m = k
    OBVIOUS
  <2>2. u = (IF s.dummy THEN P!ObtainDummy(s) ELSE s) /\ m = (IF s.dummy THEN k - 1 ELSE k)
    BY <1>4, <2>1
  <2>3. t = IF s.active /\ k = 0 THEN s
            ELSE IF u.thrown # "none" \/ ~P!Pending(u) THEN u ELSE P!GetFurther(u, m)
    BY ONLY <2>2, LookIs, t = P!ReceiveIfAvailable(s, k)
  <2> QED BY <1>4, <2>1, <2>3
<1>5. CASE t # s /\ s.dummy
  <2>1. s.cancelled
    BY <1>1, <1>5 DEF Placed
  <2>2. PICK u : u = P!ObtainDummy(s)
    OBVIOUS
  <2>3. P!Min({s.error, 0}) = 0
    <3>1. P!Min({s.error, 0}) = IF s.error <= 0 THEN s.error ELSE 0
      BY <1>2, LesserOfTwo
    <3> QED BY <1>2, <3>1
  <2>4. PICK v : v = [s EXCEPT !.dummy = FALSE]
    OBVIOUS
  <2>5. v.error = s.error
    BY <1>1, <2>4 DEF Shaped, PipeFields
  <2>6. u = [[v EXCEPT !.error = P!Min({@, 0})] EXCEPT !.thrown = "internal"]
    BY <2>2, <2>4, Zenon DEF P!ObtainDummy, P!SetErrorAt, P!Throw
  <2>7. u = [[v EXCEPT !.error = 0] EXCEPT !.thrown = "internal"]
    BY <2>3, <2>5, <2>6
  <2>8. /\ Shaped(u)
        /\ u.first = s.first /\ u.second = s.second /\ u.waiting = s.waiting /\ ~u.dummy
        /\ u.present = s.present
        /\ u.res = s.res /\ u.last = s.last /\ u.error = 0 /\ u.retain = s.retain
        /\ u.unread = s.unread /\ u.active = s.active /\ u.failed = s.failed /\ u.ran = s.ran
        /\ u.cancelled = s.cancelled /\ u.thrown = "internal"
    BY <1>1, <2>4, <2>7 DEF Shaped, PipeFields
  <2>9. t = u
    <3>1. PICK m : m = IF s.dummy THEN k - 1 ELSE k
      OBVIOUS
    <3>2. u = IF s.dummy THEN P!ObtainDummy(s) ELSE s
      BY <1>5, <2>2
    <3>3. t = IF s.active /\ k = 0 THEN s
              ELSE IF u.thrown # "none" \/ ~P!Pending(u) THEN u ELSE P!GetFurther(u, m)
      BY ONLY <3>1, <3>2, LookIs, t = P!ReceiveIfAvailable(s, k)
    <3> QED BY <1>5, <2>8, <3>3
  <2>10. ~P!Pending(u) /\ 0 # P!NoError
    BY <1>2, <2>8 DEF P!Pending
  <2>11. PipeTyped(u)
    BY <1>1, <1>2, <2>8 DEF PipeTyped
  <2>12. Placed(u)
    BY <1>1, <1>2, <2>1, <2>8 DEF Placed
  <2>13. Reads(u)
    BY <2>10 DEF Reads
  <2>14. Kept(u)
    <3>1. \A q \in s.present : ~(q < 0)
      BY <1>1, <1>2 DEF P!Query
    <3> QED BY <2>8, <2>10, <3>1 DEF Kept
  <2>15. Counted(u)
    BY <1>1, <2>8, <2>10 DEF Counted, Unissued
  <2>16. RanInOrder(u) /\ Blamed(u) /\ Excused(u)
    BY <1>1, <2>1, <2>8, <2>10 DEF RanInOrder, Blamed, Excused
  <2> QED BY <2>8, <2>9, <2>11, <2>12, <2>13, <2>14, <2>15, <2>16 DEF PipeKept
<1> QED BY <1>3, <1>4, <1>5

\* insert, with the string it may send.
LEMMA InsertKept ==
  ASSUME Sized, FaultsKnown, PipeKept(pipe), pipe.last < MaxQueries, NEW s, s = P!Inserted(P!Start), NEW k,
         NEW t, t = IF s.waiting <= s.retain THEN s
                    ELSE P!Then(IF P!Pending(s) THEN P!ReceiveIfAvailable(s, k) ELSE s,
                              LAMBDA x : IF P!Pending(x) THEN x ELSE P!Issue(x))
  PROVE  PipeKept(t) /\ t.cancelled = pipe.cancelled
<1>1. /\ PipeKept(P!Start) /\ P!Start.thrown = "none" /\ P!Start.last = pipe.last
      /\ P!Start.cancelled = pipe.cancelled
  <2>1. PICK u : u = P!Start
    OBVIOUS
  <2> QED BY <2>1, StartKept DEF AlikeIn
<1>2. PipeKept(s) /\ s.thrown = "none" /\ s.cancelled = pipe.cancelled
  BY <1>1, InsertedKept
<1>3. CASE s.waiting <= s.retain
  BY <1>2, <1>3
<1>4. CASE ~(s.waiting <= s.retain)
  <2>1. s.waiting > 0
    BY <1>2, <1>4 DEF PipeKept, PipeTyped
  <2>2. PICK u : u = IF P!Pending(s) THEN P!ReceiveIfAvailable(s, k) ELSE s
    OBVIOUS
  <2>3. PipeKept(u) /\ u.thrown = "none" /\ u.waiting > 0 /\ u.cancelled = pipe.cancelled
    <3>1. CASE P!Pending(s)
      <4>1. PipeKept(u) /\ u.thrown = "none" /\ Follows(s, u)
        BY <1>2, <2>2, <3>1, LookKeeps
      <4> QED BY <1>2, <2>1, <4>1, PipeNumbers DEF Follows, Calls
    <3>2. CASE ~P!Pending(s)
      BY <1>2, <2>1, <2>2, <3>2
    <3> QED BY <3>1, <3>2
  <2>4. t = IF P!Pending(u) THEN u ELSE P!Issue(u)
    <3> DEFINE y == IF P!Pending(s) THEN P!ReceiveIfAvailable(s, k) ELSE s
    <3>1. t = P!Then(y, LAMBDA x : IF P!Pending(x) THEN x ELSE P!Issue(x))
      BY <1>4
    <3>2. P!Then(y, LAMBDA x : IF P!Pending(x) THEN x ELSE P!Issue(x))
            = IF y.thrown = "none" THEN (IF P!Pending(y) THEN y ELSE P!Issue(y)) ELSE y
      BY DEF P!Then
    <3>3. y = u
      BY <2>2
    <3> HIDE DEF y
    <3> QED BY <2>3, <3>1, <3>2, <3>3
  <2>5. CASE P!Pending(u)
    BY <2>3, <2>4, <2>5
  <2>6. CASE ~P!Pending(u)
    <3>1. Sent(u, P!Issue(u))
      BY <2>3, <2>6, IssueKeeps
    <3> QED BY <2>3, <2>4, <2>6, <3>1 DEF Sent, Calls
  <2> QED BY <2>5, <2>6
<1> QED BY <1>3, <1>4

\* What is issued first thing: the results that are pending, from the call's start.
LEMMA ReceivedFirst ==
  ASSUME Sized, FaultsKnown, PipeKept(pipe), NEW k,
         NEW t, t = IF P!Pending(pipe) THEN P!Receive(P!Start, pipe.second, k) ELSE P!Start
  PROVE  PipeKept(t) /\ t.thrown = "none" /\ ~P!Pending(t) /\ t.cancelled = pipe.cancelled
<1>1. PICK s : s = P!Start
  OBVIOUS
<1>2. /\ PipeKept(s) /\ s.thrown = "none" /\ (P!Pending(s) <=> P!Pending(pipe)) /\ s.second = pipe.second
      /\ s.cancelled = pipe.cancelled
  BY <1>1, StartKept DEF AlikeIn
<1>3. CASE P!Pending(pipe)
  <2>1. t = P!Receive(s, s.second, k)
    BY <1>1, <1>2, <1>3
  <2> QED BY <1>2, <1>3, <2>1, ReceiveAll DEF Follows, Calls
<1>4. CASE ~P!Pending(pipe)
  BY <1>1, <1>2, <1>4
<1> QED BY <1>3, <1>4

\* What complete comes to.
Completed(k) ==
  P!Then(P!Then(IF P!Pending(pipe) THEN P!Receive(P!Start, pipe.second, k) ELSE P!Start,
            LAMBDA x : IF x.waiting > 0 /\ x.error = P!NoError
                       THEN P!Then(P!Issue(x), LAMBDA u : P!Receive(u, P!End, k)) ELSE x),
       LAMBDA x : [x EXCEPT !.focus = FALSE])

\* It leaves what is kept.
LEMMA CompleteKept ==
  ASSUME Sized, FaultsKnown, PipeKept(pipe), NEW k, NEW t, t = Completed(k)
  PROVE  PipeKept(t) /\ t.cancelled = pipe.cancelled
<1> DEFINE y == IF P!Pending(pipe) THEN P!Receive(P!Start, pipe.second, k) ELSE P!Start
           gone(x) == P!Then(P!Issue(x), LAMBDA u : P!Receive(u, P!End, k))
           on(x) == IF x.waiting > 0 /\ x.error = P!NoError THEN gone(x) ELSE x
           over(x) == [x EXCEPT !.focus = FALSE]
<1>1. PipeKept(y) /\ y.thrown = "none" /\ ~P!Pending(y) /\ y.cancelled = pipe.cancelled
  BY ReceivedFirst
<1>2. t = P!Then(P!Then(y, LAMBDA x : on(x)), LAMBDA x : over(x))
  BY DEF Completed
<1>3. P!Then(P!Then(y, LAMBDA x : on(x)), LAMBDA x : over(x))
        = LET z == IF y.thrown = "none" THEN on(y) ELSE y
          IN  IF z.thrown = "none" THEN over(z) ELSE z
  <2> HIDE DEF y, on, over
  <2> QED BY DEF P!Then
<1>4. t = LET z == IF y.thrown = "none" THEN on(y) ELSE y
          IN  IF z.thrown = "none" THEN over(z) ELSE z
  BY <1>2, <1>3
<1>5. gone(y) = IF P!Issue(y).thrown = "none" THEN P!Receive(P!Issue(y), P!End, k) ELSE P!Issue(y)
  <2> HIDE DEF y
  <2> QED BY DEF P!Then
<1> HIDE DEF y, gone
<1>6. PICK z : z = on(y)
  OBVIOUS
<1>7. PipeKept(z) /\ z.cancelled = pipe.cancelled
  <2>1. CASE ~(y.waiting > 0 /\ y.error = P!NoError)
    BY <1>1, <1>6, <2>1
  <2>2. CASE y.waiting > 0 /\ y.error = P!NoError
    <3>1. PICK u : u = P!Issue(y)
      OBVIOUS
    <3>2. Sent(y, u)
      BY <1>1, <2>2, <3>1, IssueKeeps
    <3>3. z = IF u.thrown = "none" THEN P!Receive(u, P!End, k) ELSE u
      BY <1>5, <1>6, <2>2, <3>1
    <3>4. CASE u.thrown = "none"
      <4>1. PipeKept(u) /\ P!Pending(u)
        BY <2>2, <3>2, <3>4 DEF Sent
      <4>2. P!End \in Int
        BY DEF P!End, Sized
      <4>3. PipeKept(z) /\ Follows(u, z)
        BY <3>3, <3>4, <4>1, <4>2, ReceiveKeeps
      <4> QED BY <1>1, <3>2, <4>3 DEF Sent, Follows, Calls
    <3>5. CASE u.thrown # "none"
      BY <1>1, <3>2, <3>3, <3>5 DEF Sent, Calls
    <3> QED BY <3>4, <3>5
  <2> QED BY <2>1, <2>2
<1>8. PICK v : v = over(z)
  OBVIOUS
<1>9. PipeKept(v) /\ v.cancelled = pipe.cancelled
  BY <1>7, <1>8, UnfocusedKept
<1>10. t = v \/ t = z
  BY <1>1, <1>4, <1>6, <1>8
<1> QED BY <1>7, <1>9, <1>10

\* flush, with what it receives.
LEMMA FlushKept ==
  ASSUME Sized, FaultsKnown, PipeKept(pipe), NEW k,
         NEW t, t = IF pipe.present = {} THEN [P!Start EXCEPT !.focus = FALSE]
                    ELSE P!Then(IF P!Pending(pipe) THEN P!Receive(P!Start, pipe.second, k) ELSE P!Start,
                              LAMBDA x : [x EXCEPT !.first = P!End, !.second = P!End, !.waiting = 0,
                                                   !.dummy = FALSE, !.present = {}, !.focus = FALSE])
  PROVE  PipeKept(t) /\ t.cancelled = pipe.cancelled
<1> DEFINE y == IF P!Pending(pipe) THEN P!Receive(P!Start, pipe.second, k) ELSE P!Start
           over(x) == [x EXCEPT !.first = P!End, !.second = P!End, !.waiting = 0,
                                !.dummy = FALSE, !.present = {}, !.focus = FALSE]
<1>1. CASE pipe.present = {}
  <2>1. PICK s : s = P!Start
    OBVIOUS
  <2>2. t = [s EXCEPT !.focus = FALSE]
    BY <1>1, <2>1
  <2>3. PipeKept(s) /\ s.cancelled = pipe.cancelled
    BY <2>1, StartKept DEF AlikeIn
  <2> QED BY <2>2, <2>3, UnfocusedKept
<1>2. CASE pipe.present # {}
  <2>1. PipeKept(y) /\ y.thrown = "none" /\ ~P!Pending(y) /\ y.cancelled = pipe.cancelled
    BY ReceivedFirst
  <2>2. t = P!Then(y, LAMBDA x : over(x))
    BY <1>2
  <2>3. P!Then(y, LAMBDA x : over(x)) = IF y.thrown = "none" THEN over(y) ELSE y
    BY DEF P!Then
  <2>4. PICK u, v : u = y /\ v = over(u)
    OBVIOUS
  <2>5. t = v
    <3> HIDE DEF y, over
    <3> QED BY <2>1, <2>2, <2>3, <2>4
  <2>6. PipeKept(u) /\ ~P!Pending(u) /\ u.cancelled = pipe.cancelled
    <3> HIDE DEF y
    <3> QED BY <2>1, <2>4
  <2> QED BY <2>4, <2>5, <2>6, FlushedKept
<1> QED BY <1>1, <1>2

\* cancel.
LEMMA CancelKept ==
  ASSUME Sized, PipeKept(pipe),
         NEW t, t = [P!Start EXCEPT !.present = {q \in @ : q < pipe.first \/ q >= pipe.second},
                                  !.first = pipe.second, !.cancelled = @ \/ P!Pending(pipe)]
  PROVE  PipeKept(t) /\ (pipe.cancelled => t.cancelled)
<1>1. PICK s : s = P!Start
  OBVIOUS
<1>2. /\ PipeKept(s) /\ (P!Pending(s) <=> P!Pending(pipe)) /\ s.second = pipe.second /\ s.first = pipe.first
      /\ s.present = pipe.present /\ Shaped(s) /\ s.cancelled = pipe.cancelled
  BY <1>1, StartKept DEF AlikeIn
<1>3. PICK rest : rest = {q \in s.present : q < s.first \/ q >= s.second}
  OBVIOUS
<1>4. (s.cancelled \/ P!Pending(s)) = (s.cancelled \/ P!Pending(pipe))
  BY <1>2
<1>5. t = [s EXCEPT !.present = rest, !.first = s.second, !.cancelled = @ \/ P!Pending(s)]
  <2>1. t = [s EXCEPT !.present = {q \in @ : q < s.first \/ q >= s.second},
                      !.first = s.second, !.cancelled = @ \/ P!Pending(pipe)]
    BY <1>1, <1>2
  <2> QED BY <1>2, <1>3, <1>4, <2>1 DEF Shaped, PipeFields
<1> QED BY <1>2, <1>3, <1>5, CancelledKept

\* resume, and retain when more queries wait than it allows.
LEMMA ResumedKept ==
  ASSUME Sized, FaultsKnown, NEW s, PipeKept(s), s.thrown = "none", NEW k, NEW t, t = P!Resumed(s, k)
  PROVE  PipeKept(t) /\ t.cancelled = s.cancelled
<1> DEFINE y == IF P!Pending(s) THEN P!ReceiveIfAvailable(s, k) ELSE s
           gone(x) == P!Then(P!Issue(x), LAMBDA u : P!ReceiveIfAvailable(u, k))
           on(x) == IF P!Pending(x) \/ x.waiting = 0 THEN x ELSE gone(x)
<1>1. t = P!Then(y, LAMBDA x : on(x))
  BY DEF P!Resumed
<1>2. P!Then(y, LAMBDA x : on(x)) = IF y.thrown = "none" THEN on(y) ELSE y
  <2> HIDE DEF y, on
  <2> QED BY DEF P!Then
<1>3. gone(y) = IF P!Issue(y).thrown = "none" THEN P!ReceiveIfAvailable(P!Issue(y), k) ELSE P!Issue(y)
  <2> HIDE DEF y
  <2> QED BY DEF P!Then
<1>4. PipeKept(y) /\ y.thrown = "none" /\ y.cancelled = s.cancelled
  <2>1. CASE P!Pending(s)
    BY <2>1, LookKeeps DEF Follows, Calls
  <2>2. CASE ~P!Pending(s)
    BY <2>2
  <2> QED BY <2>1, <2>2
<1> HIDE DEF y, gone
<1>5. t = on(y)
  BY <1>1, <1>2, <1>4
<1>6. CASE P!Pending(y) \/ y.waiting = 0
  BY <1>4, <1>5, <1>6
<1>7. CASE ~(P!Pending(y) \/ y.waiting = 0)
  <2>1. y.waiting > 0
    BY <1>4, <1>7, PipeNumbers
  <2>2. PICK u : u = P!Issue(y)
    OBVIOUS
  <2>3. Sent(y, u)
    BY <1>4, <1>7, <2>1, <2>2, IssueKeeps
  <2>4. t = IF u.thrown = "none" THEN P!ReceiveIfAvailable(u, k) ELSE u
    BY <1>3, <1>5, <1>7, <2>2
  <2>5. CASE u.thrown # "none"
    BY <1>4, <2>3, <2>4, <2>5 DEF Sent, Calls
  <2>6. CASE u.thrown = "none" /\ y.error = P!NoError
    <3>1. PipeKept(u) /\ P!Pending(u) /\ u.cancelled = s.cancelled
      BY <1>4, <2>3, <2>6 DEF Sent, Calls
    <3> QED BY <2>4, <2>6, <3>1, LookKeeps DEF Follows, Calls
  <2>7. CASE u.thrown = "none" /\ y.error # P!NoError
    <3>1. /\ PipeKept(u) /\ ~P!Pending(u) /\ u.error # P!NoError /\ u.unread = <<>>
          /\ u.cancelled = s.cancelled
      BY <1>4, <2>3, <2>7 DEF Sent, Calls
    <3> QED BY <2>4, <2>7, <3>1, IdleKept
  <2> QED BY <2>5, <2>6, <2>7
<1> QED BY <1>6, <1>7

-----------------------------------------------------------------------------
(* retrieve.                                                               *)

\* The steps of retrieve.
Blocked(q, s) == IF q >= s.error THEN P!Throw(s, "earlier error") ELSE s
Idle(s, k) == IF P!Pending(s) THEN P!Receive(s, s.second, k) ELSE s
Goes(s) == IF s.error = P!NoError THEN P!Issue(s) ELSE s
SentUpTo(q, s, k) ==
  IF s.second = P!End \/ q < s.second THEN s ELSE P!Then(Idle(s, k), LAMBDA t : Goes(t))
ReceivedUpTo(q, s, k) ==
  IF ~P!Pending(s) THEN s
  ELSE IF s.first = P!End THEN P!Throw(s, "undefined")
  ELSE IF q >= s.first THEN P!Receive(s, P!After(s, q), k) ELSE P!ReceiveIfAvailable(s, k)
SendsOn(s) == IF s.waiting > 0 /\ ~P!Pending(s) /\ s.error = P!NoError THEN P!Issue(s) ELSE s
Without(q, s) == [s EXCEPT !.present = @ \ {q}]
TakenOut(q, s) == IF s.res[q].ok THEN Without(q, s) ELSE P!Throw(Without(q, s), "sql")

\* The steps of retrieve, one after the other.
LEMMA RetrievedIs ==
  ASSUME NEW q, NEW k, NEW a, a = Blocked(q, P!Start),
         NEW b, b = IF a.thrown = "none" THEN SentUpTo(q, a, k) ELSE a,
         NEW c, c = IF b.thrown = "none" THEN ReceivedUpTo(q, b, k) ELSE b,
         NEW d, d = IF c.thrown = "none" THEN Blocked(q, c) ELSE c,
         NEW e, e = IF d.thrown = "none" THEN SendsOn(d) ELSE d
  PROVE  P!Retrieved(q, k) = IF e.thrown = "none" THEN TakenOut(q, e) ELSE e
<1>1. P!Retrieved(q, k) =
        P!Then(P!Then(P!Then(P!Then(P!Then(Blocked(q, P!Start), LAMBDA s : SentUpTo(q, s, k)),
                            LAMBDA s : ReceivedUpTo(q, s, k)),
                       LAMBDA s : Blocked(q, s)),
                  LAMBDA s : SendsOn(s)),
             LAMBDA s : TakenOut(q, s))
  BY DEF P!Retrieved, Blocked, SentUpTo, Idle, Goes, ReceivedUpTo, SendsOn, TakenOut, Without
<1>2. P!Then(P!Then(P!Then(P!Then(P!Then(Blocked(q, P!Start), LAMBDA s : SentUpTo(q, s, k)),
                          LAMBDA s : ReceivedUpTo(q, s, k)),
                     LAMBDA s : Blocked(q, s)),
                LAMBDA s : SendsOn(s)),
           LAMBDA s : TakenOut(q, s))
      = IF e.thrown = "none" THEN TakenOut(q, e) ELSE e
  BY DEF P!Then
<1> QED BY <1>1, <1>2

\* What a query is refused for, or fails by, is thrown.
LEMMA ThrowKept ==
  ASSUME NEW s, PipeKept(s), NEW e, e \in {"sql", "earlier error"}, NEW t, t = P!Throw(s, e)
  PROVE  PipeKept(t) /\ t.cancelled = s.cancelled /\ t.thrown = e /\ t.present = s.present /\ t.res = s.res
<1>1. Shaped(s) /\ s.retain \in Nat
  BY DEF PipeKept, PipeTyped
<1>2. AlikeIn(s, t) /\ t.thrown = e /\ t.retain = s.retain
  BY <1>1 DEF P!Throw, AlikeIn, Shaped, PipeFields
<1>3. PipeKept(t)
  BY <1>1, <1>2, AlikeKept
<1> QED BY <1>2, <1>3 DEF AlikeIn

\* A query that has been received can be taken out.
LEMMA WithoutKept ==
  ASSUME Sized, NEW s, PipeKept(s), NEW q \in s.present, q < s.first, NEW t, t = Without(q, s)
  PROVE  PipeKept(t) /\ t.cancelled = s.cancelled /\ t.thrown = s.thrown /\ t.res = s.res
<1>1. /\ PipeTyped(s) /\ Placed(s) /\ Reads(s) /\ Kept(s) /\ Counted(s) /\ RanInOrder(s)
      /\ Blamed(s) /\ Excused(s) /\ Shaped(s) /\ s.present \subseteq P!Query
  BY DEF PipeKept, PipeTyped
<1>2. /\ MaxQueries \in Nat /\ P!End = MaxQueries + 1 /\ s.second \in Nat /\ s.first \in Nat
      /\ s.first <= s.second /\ q \in Nat /\ q < s.second /\ q # P!End /\ \A p \in P!Query : p \in Nat
  BY <1>1, PipeNumbers DEF Sized, P!End, P!Query
<1>3. PICK rest : rest = s.present \ {q}
  OBVIOUS
<1>4. /\ Shaped(t)
      /\ t.first = s.first /\ t.second = s.second /\ t.waiting = s.waiting /\ t.dummy = s.dummy
      /\ t.present = rest
      /\ t.res = s.res /\ t.last = s.last /\ t.error = s.error /\ t.retain = s.retain
      /\ t.unread = s.unread /\ t.active = s.active /\ t.failed = s.failed /\ t.ran = s.ran
      /\ t.cancelled = s.cancelled /\ t.thrown = s.thrown
  <2>1. t = [s EXCEPT !.present = rest]
    BY <1>1, <1>3 DEF Without, Shaped, PipeFields
  <2> QED BY <1>1, <2>1 DEF Shaped, PipeFields
<1>5. P!Pending(t) <=> P!Pending(s)
  BY <1>4 DEF P!Pending
<1>6. PipeTyped(t)
  BY <1>1, <1>3, <1>4 DEF PipeTyped
<1>7. Placed(t)
  <2>1. {s.first, s.second} \subseteq rest \cup {P!End}
    BY <1>1, <1>2, <1>3 DEF Placed
  <2> QED BY <1>1, <1>3, <1>4, <1>5, <2>1 DEF Placed
<1>8. ASSUME NEW p \in s.present, s.first <= p PROVE p \in rest /\ P!After(t, p) = P!After(s, p)
  <2>1. p \in Nat /\ p > q
    BY <1>1, <1>2, <1>8
  <2>2. {m \in rest : m > p} = {m \in s.present : m > p}
    BY <1>2, <1>3, <2>1
  <2> QED BY <1>3, <1>4, <2>1, <2>2 DEF P!After
<1>9. ASSUME NEW b \in Seq(Reply), Chain(s, b), Ending(s, b) PROVE Chain(t, b) /\ Ending(t, b)
  <2>1. \A i \in 1..Len(b) : b[i].of \in rest /\ P!After(t, b[i].of) = P!After(s, b[i].of)
    BY <1>8, <1>9 DEF Chain
  <2>2. Chain(t, b)
    BY <1>4, <1>9, <2>1 DEF Chain
  <2>3. Behind(t, b) = Behind(s, b)
    <3>1. CASE b = <<>>
      BY <1>4, <3>1 DEF Behind
    <3>2. CASE b # <<>>
      <4>1. Len(b) \in 1..Len(b)
        <5>1. PICK n \in Nat : n = Len(b)
          BY ONLY b \in Seq(Reply)
        <5>2. n > 0
          BY ONLY <3>2, <5>1, b \in Seq(Reply)
        <5> QED BY <5>1, <5>2
      <4> QED BY <2>1, <3>2, <4>1 DEF Behind
    <3> QED BY <3>1, <3>2
  <2> QED BY <1>4, <1>9, <2>2, <2>3 DEF Ending
<1>10. Failing(s) => Failing(t)
  <2>1. \A p \in s.present : s.first <= p => p \in rest
    BY <1>8
  <2> QED BY <1>4, <2>1 DEF Failing
<1>11. Reads(t)
  <2>1. s.unread \in Seq(Reply)
    BY <1>1 DEF PipeTyped
  <2>2. s.unread # <<>> => Tail(s.unread) \in Seq(Reply)
    <3>1. PICK b \in Seq(Reply) : b = s.unread
      BY <2>1
    <3>2. b # <<>> => Tail(b) \in Seq(Reply)
      BY ONLY b \in Seq(Reply)
    <3> QED BY <3>1, <3>2
  <2> QED BY <1>1, <1>4, <1>5, <1>9, <1>10, <2>1, <2>2 DEF Reads
<1>12. Kept(t)
  BY <1>1, <1>3, <1>4 DEF Kept
<1>13. Counted(t)
  <2>1. Unissued(t) = Unissued(s)
    BY <1>2, <1>3, <1>4 DEF Unissued
  <2> QED BY <1>1, <1>4, <2>1 DEF Counted
<1>14. RanInOrder(t) /\ Blamed(t) /\ Excused(t)
  BY <1>1, <1>4 DEF RanInOrder, Blamed, Excused
<1> QED BY <1>4, <1>6, <1>7, <1>11, <1>12, <1>13, <1>14 DEF PipeKept

\* In the middle of retrieve: the query is there.
AtIt(q, s) ==
  /\ PipeKept(s) /\ q \in s.present /\ s.cancelled = pipe.cancelled
  /\ s.thrown \in {"none", "sql", "earlier error", "more results"}
  /\ s.thrown = "sql" => Spoilt(q)
  /\ s.thrown = "earlier error" => pipe.cancelled \/ \E p \in 1..q - 1 : Spoilt(p)

\* A query at or behind the error is refused for what is before it.
LEMMA BlockedAt ==
  ASSUME Sized, NEW q, NEW s, AtIt(q, s), s.thrown = "none", NEW t, t = Blocked(q, s)
  PROVE  AtIt(q, t) /\ (t.thrown = "none" => t = s /\ q < s.error)
<1>1. /\ q \in Nat /\ s.error \in Nat /\ q <= MaxQueries /\ P!NoError = MaxQueries + 2 /\ MaxQueries \in Nat
      /\ PipeKept(s) /\ Blamed(s)
  <2>1. PipeTyped(s) /\ PipeKept(s) /\ Blamed(s) /\ q \in s.present
    BY DEF AtIt, PipeKept
  <2>2. q \in P!Query /\ MaxQueries \in Nat /\ s.error \in 0..P!NoError /\ P!NoError = MaxQueries + 2
    BY <2>1 DEF PipeTyped, Sized, P!NoError
  <2> QED BY <2>1, <2>2 DEF P!Query
<1>2. CASE ~(q >= s.error)
  <2>1. t = s
    BY <1>2 DEF Blocked
  <2>2. q < s.error
    BY <1>1, <1>2
  <2> QED BY <2>1, <2>2
<1>3. CASE q >= s.error
  <2>1. t = P!Throw(s, "earlier error")
    BY <1>3 DEF Blocked
  <2>2. /\ PipeKept(t) /\ t.cancelled = s.cancelled /\ t.thrown = "earlier error"
        /\ t.present = s.present
    BY <1>1, <2>1, ThrowKept
  <2>3. s.cancelled \/ \E p \in 1..q - 1 : Spoilt(p)
    <3>1. s.cancelled \/ \E p \in 1..s.error - 1 : Spoilt(p)
      BY <1>1, <1>3 DEF Blamed
    <3>2. \A p \in 1..s.error - 1 : p \in 1..q - 1
      BY <1>1, <1>3
    <3> QED BY <3>1, <3>2
  <2> QED BY <2>2, <2>3 DEF AtIt
<1> QED BY <1>2, <1>3

\* The string with the query is sent, if it was not.
LEMMA SentUpToIt ==
  ASSUME Sized, FaultsKnown, NEW q, NEW s, AtIt(q, s), s.thrown = "none", q < s.error, NEW k,
         NEW t, t = SentUpTo(q, s, k)
  PROVE  AtIt(q, t) /\ (t.thrown = "none" /\ t.error = P!NoError => q < t.second)
<1>1. /\ PipeKept(s) /\ q \in s.present /\ q \in P!Query /\ q \in Nat /\ q <= MaxQueries
      /\ MaxQueries \in Nat /\ P!End = MaxQueries + 1 /\ Placed(s) /\ s.cancelled = pipe.cancelled
  BY DEF AtIt, PipeKept, PipeTyped, Sized, P!Query, P!End
<1>2. s.second \in Nat /\ s.error \in Nat
  BY <1>1, PipeNumbers
<1>3. CASE s.second = P!End \/ q < s.second
  BY <1>1, <1>2, <1>3 DEF SentUpTo
<1>4. CASE ~(s.second = P!End \/ q < s.second)
  <2>1. s.error = P!NoError
    BY <1>1, <1>2, <1>4 DEF Placed
  <2>2. PICK i : i = Idle(s, k)
    OBVIOUS
  <2>3. PipeKept(i) /\ i.thrown = "none" /\ Follows(s, i) /\ ~P!Pending(i)
    <3>1. CASE P!Pending(s)
      BY <1>1, <2>2, <3>1, ReceiveAll DEF Idle
    <3>2. CASE ~P!Pending(s)
      BY <1>1, <2>2, <3>2, FollowsSelf DEF Idle
    <3> QED BY <3>1, <3>2
  <2>4. t = Goes(i)
    <3>1. t = P!Then(Idle(s, k), LAMBDA x : Goes(x))
      BY <1>4 DEF SentUpTo
    <3>2. P!Then(i, LAMBDA x : Goes(x)) = IF i.thrown = "none" THEN Goes(i) ELSE i
      BY DEF P!Then
    <3> QED BY <2>2, <2>3, <3>1, <3>2
  <2>5. q \in i.present /\ i.cancelled = pipe.cancelled
    BY <1>1, <2>3 DEF Follows, Calls
  <2>6. CASE i.error # P!NoError
    BY <2>3, <2>4, <2>5, <2>6 DEF Goes, AtIt
  <2>7. CASE i.error = P!NoError
    <3>1. i.second <= q
      <4>1. i.second = s.second
        BY <2>3, <2>7 DEF Follows
      <4> QED BY <1>1, <1>2, <1>4, <4>1
    <3>2. i.waiting > 0
      <4>1. q \in Unissued(i)
        BY <1>1, <1>2, <2>5, <3>1, <2>3, PipeNumbers DEF Unissued
      <4>2. i.present \subseteq P!Query /\ i.waiting = Cardinality(Unissued(i))
        BY <2>3, <2>7 DEF PipeKept, PipeTyped, Counted
      <4>3. IsFiniteSet(Unissued(i)) /\ Cardinality(Unissued(i)) \in Nat
        BY <4>2, UnissuedFinite
      <4>4. Cardinality(Unissued(i)) # 0
        BY <4>1, <4>3, FS_EmptySet
      <4> QED BY <4>2, <4>3, <4>4
    <3>3. Sent(i, t)
      BY <2>3, <2>4, <2>7, <3>2, IssueKeeps DEF Goes
    <3>4. q \in t.present /\ t.cancelled = pipe.cancelled
      BY <2>5, <3>3 DEF Sent, Calls
    <3>5. t.thrown = "none" => q < t.second
      BY <1>1, <2>7, <3>3 DEF Sent
    <3> QED BY <3>3, <3>4, <3>5 DEF Sent, AtIt
  <2> QED BY <2>6, <2>7
<1> QED BY <1>3, <1>4

\* What is before the query is received, and the query.
LEMMA ReceivedUpToIt ==
  ASSUME Sized, FaultsKnown, NEW q, NEW s, AtIt(q, s), s.thrown = "none",
         s.error = P!NoError => q < s.second, NEW k, NEW t, t = ReceivedUpTo(q, s, k)
  PROVE  /\ AtIt(q, t) /\ t.thrown = "none"
         /\ t.error = P!NoError => q < t.second
         /\ P!Pending(t) => q < t.first
<1>1. /\ PipeKept(s) /\ q \in s.present /\ q \in P!Query /\ q \in Nat /\ q <= MaxQueries
      /\ MaxQueries \in Nat /\ P!End = MaxQueries + 1 /\ Placed(s) /\ s.cancelled = pipe.cancelled
      /\ s.present \subseteq P!Query
  BY DEF AtIt, PipeKept, PipeTyped, Sized, P!Query, P!End
<1>2. s.first \in Nat /\ s.second \in Nat /\ s.second <= P!End /\ s.first <= s.second
  BY <1>1, PipeNumbers
<1>3. CASE ~P!Pending(s)
  BY <1>1, <1>3 DEF ReceivedUpTo
<1>4. CASE P!Pending(s)
  <2>1. s.first # P!End
    BY <1>1, <1>2, <1>4 DEF P!Pending
  <2>2. PipeKept(t) /\ t.thrown = "none" /\ Follows(s, t) /\ (P!Pending(t) => q < t.first)
    <3>1. CASE q >= s.first
      <4>1. t = P!Receive(s, P!After(s, q), k)
        BY <1>4, <2>1, <3>1 DEF ReceivedUpTo
      <4>2. PICK stop \in Int : stop = P!After(s, q) /\ stop > q
        <5>1. P!After(s, q) \in s.present \cup {P!End} /\ P!After(s, q) > q
          BY <1>1, AfterIs
        <5>2. P!After(s, q) \in Int
          BY <1>1, <5>1 DEF P!Query
        <5> QED BY <5>1, <5>2
      <4>3. /\ PipeKept(t) /\ t.thrown = "none" /\ Follows(s, t)
            /\ ~P!Pending(t) \/ t.first >= stop
        BY <1>1, <1>4, <4>1, <4>2, ReceiveKeeps
      <4>4. t.first \in Nat
        BY <4>3, PipeNumbers
      <4> QED BY <1>1, <4>2, <4>3, <4>4
    <3>2. CASE ~(q >= s.first)
      <4>1. t = P!ReceiveIfAvailable(s, k)
        BY <1>4, <2>1, <3>2 DEF ReceivedUpTo
      <4>2. PipeKept(t) /\ t.thrown = "none" /\ Follows(s, t)
        BY <1>1, <1>4, <4>1, LookKeeps
      <4>3. t.first \in Nat
        BY <4>2, PipeNumbers
      <4> QED BY <1>1, <1>2, <3>2, <4>2, <4>3 DEF Follows
    <3> QED BY <3>1, <3>2
  <2> QED BY <1>1, <2>2 DEF AtIt, Follows, Calls
<1> QED BY <1>3, <1>4

\* The strings that wait are sent, once nothing is to be received.
LEMMA SendsOnIt ==
  ASSUME Sized, FaultsKnown, NEW q, NEW s, AtIt(q, s), s.thrown = "none", q < s.error, q < s.first,
         NEW t, t = SendsOn(s)
  PROVE  AtIt(q, t) /\ (t.thrown = "none" => q < t.error /\ q < t.first)
<1>1. CASE s.waiting > 0 /\ ~P!Pending(s) /\ s.error = P!NoError
  <2>1. Sent(s, t)
    BY <1>1, IssueKeeps DEF SendsOn, AtIt
  <2> QED BY <2>1 DEF Sent, Calls, AtIt
<1>2. CASE ~(s.waiting > 0 /\ ~P!Pending(s) /\ s.error = P!NoError)
  BY <1>2 DEF SendsOn
<1> QED BY <1>1, <1>2

\* The result is the query's own, or says of it that it failed.
LEMMA TakenIt ==
  ASSUME Sized, NEW q, NEW s, AtIt(q, s), s.thrown = "none", q < s.error, q < s.first,
         NEW t, t = TakenOut(q, s)
  PROVE  /\ PipeKept(t) /\ t.cancelled = pipe.cancelled /\ t.thrown \in {"none", "sql"}
         /\ t.thrown = "none" => t.res[q].of = q
         /\ t.thrown = "sql" => Spoilt(q)
<1>1. PipeKept(s) /\ q \in s.present /\ Kept(s) /\ s.cancelled = pipe.cancelled
  BY DEF AtIt, PipeKept
<1>2. IF s.res[q].ok THEN s.res[q].of = q ELSE Spoilt(q)
  BY <1>1 DEF Kept
<1>3. PICK u : u = Without(q, s)
  OBVIOUS
<1>4. PipeKept(u) /\ u.cancelled = s.cancelled /\ u.thrown = s.thrown /\ u.res = s.res
  BY <1>1, <1>3, WithoutKept
<1>5. CASE s.res[q].ok
  BY <1>1, <1>2, <1>3, <1>4, <1>5 DEF TakenOut
<1>6. CASE ~s.res[q].ok
  <2>1. t = P!Throw(u, "sql")
    BY <1>3, <1>6 DEF TakenOut
  <2>2. PipeKept(t) /\ t.cancelled = u.cancelled /\ t.thrown = "sql"
    <3>1. PICK e : e = "sql"
      OBVIOUS
    <3>2. t = P!Throw(u, e) /\ e \in {"sql", "earlier error"}
      BY <2>1, <3>1
    <3> QED BY ONLY <1>4, <3>1, <3>2, ThrowKept
  <2> QED BY <1>1, <1>2, <1>4, <1>6, <2>2
<1> QED BY <1>5, <1>6

\* retrieve, from its first step to its last.
LEMMA RetrievedKept ==
  ASSUME Sized, FaultsKnown, PipeKept(pipe), NEW q \in pipe.present, NEW k,
         NEW t, t = P!Retrieved(q, k)
  PROVE  /\ PipeKept(t) /\ t.cancelled = pipe.cancelled
         /\ t.thrown \in {"none", "sql", "earlier error", "more results"}
         /\ t.thrown = "none" => t.res[q].of = q
         /\ t.thrown = "sql" => Spoilt(q)
         /\ t.thrown = "earlier error" => pipe.cancelled \/ \E p \in 1..q - 1 : Spoilt(p)
<1>1. PICK o : o = P!Start
  OBVIOUS
<1>2. AtIt(q, o) /\ o.thrown = "none"
  BY <1>1, StartKept DEF AtIt, AlikeIn
<1>3. PICK a : a = Blocked(q, P!Start)
  OBVIOUS
<1>4. AtIt(q, a) /\ (a.thrown = "none" => q < a.error)
  BY <1>1, <1>2, <1>3, BlockedAt
<1>5. PICK b : b = IF a.thrown = "none" THEN SentUpTo(q, a, k) ELSE a
  OBVIOUS
<1>6. AtIt(q, b) /\ (b.thrown = "none" /\ b.error = P!NoError => q < b.second)
  <2>1. CASE a.thrown = "none"
    BY <1>4, <1>5, <2>1, SentUpToIt
  <2>2. CASE a.thrown # "none"
    BY <1>4, <1>5, <2>2
  <2> QED BY <2>1, <2>2
<1>7. PICK c : c = IF b.thrown = "none" THEN ReceivedUpTo(q, b, k) ELSE b
  OBVIOUS
<1>8. /\ AtIt(q, c)
      /\ c.thrown = "none" => /\ c.error = P!NoError => q < c.second
                              /\ P!Pending(c) => q < c.first
  <2>1. CASE b.thrown = "none"
    BY <1>6, <1>7, <2>1, ReceivedUpToIt
  <2>2. CASE b.thrown # "none"
    BY <1>6, <1>7, <2>2
  <2> QED BY <2>1, <2>2
<1>9. PICK d : d = IF c.thrown = "none" THEN Blocked(q, c) ELSE c
  OBVIOUS
<1>10. AtIt(q, d) /\ (d.thrown = "none" => q < d.error /\ q < d.first)
  <2>1. CASE c.thrown # "none"
    BY <1>8, <1>9, <2>1
  <2>2. CASE c.thrown = "none"
    <3>1. AtIt(q, d) /\ (d.thrown = "none" => d = c /\ q < c.error)
      BY <1>8, <1>9, <2>2, BlockedAt
    <3>2. q < c.error => q < c.first
      <4>1. /\ c.first \in Nat /\ c.second \in Nat /\ c.error \in Nat /\ q \in Nat
            /\ c.error # P!NoError => c.error <= c.second
        <5>1. PipeKept(c) /\ PipeTyped(c) /\ Placed(c) /\ q \in c.present
          BY <1>8 DEF AtIt, PipeKept
        <5>2. q \in Nat
          BY <5>1 DEF PipeTyped, P!Query
        <5> QED BY <5>1, <5>2, PipeNumbers DEF Placed
      <4>2. ~P!Pending(c) => c.first = c.second
        BY DEF P!Pending
      <4> QED BY <1>8, <2>2, <4>1, <4>2
    <3> QED BY <3>1, <3>2
  <2> QED BY <2>1, <2>2
<1>11. PICK e : e = IF d.thrown = "none" THEN SendsOn(d) ELSE d
  OBVIOUS
<1>12. AtIt(q, e) /\ (e.thrown = "none" => q < e.error /\ q < e.first)
  <2>1. CASE d.thrown = "none"
    BY <1>10, <1>11, <2>1, SendsOnIt
  <2>2. CASE d.thrown # "none"
    BY <1>10, <1>11, <2>2
  <2> QED BY <2>1, <2>2
<1>13. t = IF e.thrown = "none" THEN TakenOut(q, e) ELSE e
  BY ONLY <1>3, <1>5, <1>7, <1>9, <1>11, RetrievedIs, t = P!Retrieved(q, k)
<1>14. CASE e.thrown = "none"
  <2>1. t = TakenOut(q, e)
    BY <1>13, <1>14
  <2>2. /\ PipeKept(t) /\ t.cancelled = pipe.cancelled /\ t.thrown \in {"none", "sql"}
        /\ t.thrown = "none" => t.res[q].of = q
        /\ t.thrown = "sql" => Spoilt(q)
    BY ONLY Sized, <1>12, <1>14, <2>1, TakenIt
  <2> QED BY <2>2
<1>15. CASE e.thrown # "none"
  BY <1>12, <1>13, <1>15 DEF AtIt
<1> QED BY <1>14, <1>15

-----------------------------------------------------------------------------
(* The pipeline as a whole.                                                *)

\* What retrieve has told the program is explained.
Told ==
  /\ got \in [P!Query -> {"none", "own", "sql", "earlier error", "more results"}]
  /\ \A q \in P!Query :
       /\ got[q] = "sql" => Spoilt(q)
       /\ got[q] = "earlier error" => pipe.cancelled \/ \E p \in 1..q - 1 : Spoilt(p)

\* The inductive invariant.
PipelineInv == FaultsKnown /\ PipeKept(pipe) /\ Told

\* A pipeline that was just made.
LEMMA FreshKept == ASSUME Sized PROVE PipeKept(P!Fresh)
<1>1. PICK s : s = P!Fresh
  OBVIOUS
<1>2. /\ Shaped(s)
      /\ s.present = {} /\ s.res = [q \in P!Query |-> P!NoResult] /\ s.first = P!End /\ s.second = P!End
      /\ s.retain = 0 /\ s.waiting = 0 /\ s.last = 0 /\ ~s.dummy /\ s.error = P!NoError
      /\ s.unread = <<>> /\ ~s.active /\ ~s.failed /\ s.ran = <<>> /\ ~s.cancelled
      /\ s.thrown = "none"
  BY <1>1 DEF P!Fresh, Shaped, PipeFields
<1>3. MaxQueries \in Nat /\ P!End = MaxQueries + 1 /\ P!NoError = MaxQueries + 2
  BY DEF Sized, P!End, P!NoError
<1>4. ~P!Pending(s)
  BY <1>2 DEF P!Pending
<1>5. PipeTyped(s)
  <2>1. P!NoResult \in Reply
    BY DEF P!NoResult, P!Result, Reply
  <2> QED BY <1>2, <1>3, <2>1 DEF PipeTyped
<1>6. Placed(s)
  BY <1>2, <1>3 DEF Placed
<1>7. Reads(s) /\ Kept(s)
  BY <1>2, <1>4 DEF Reads, Kept
<1>8. Counted(s)
  <2>1. Unissued(s) = {}
    BY <1>2 DEF Unissued
  <2> QED BY <1>2, <2>1, FS_EmptySet DEF Counted
<1>9. RanInOrder(s) /\ Blamed(s) /\ Excused(s)
  BY <1>2 DEF RanInOrder, Blamed, Excused
<1> QED BY <1>1, <1>5, <1>6, <1>7, <1>8, <1>9 DEF PipeKept

\* The invariant holds at first,
LEMMA PipelineStarts == ASSUME Sized, P!Init PROVE PipelineInv
<1>1. pipe = P!Fresh /\ FaultsKnown /\ got = [q \in P!Query |-> "none"]
  BY DEF P!Init, FaultsKnown
<1>2. PipeKept(pipe)
  BY <1>1, FreshKept
<1>3. Told
  BY <1>1 DEF Told
<1> QED BY <1>1, <1>2, <1>3 DEF PipelineInv

\* What is kept speaks of the queries' faults, which never change.
LEMMA KeptSame ==
  ASSUME UNCHANGED <<inWork, fault>>, NEW t, t = pipe', PipeKept(t)
  PROVE  PipeKept(pipe)'
<1>1. /\ PipeTyped(t) /\ Placed(t) /\ Reads(t) /\ Kept(t) /\ Counted(t) /\ RanInOrder(t)
      /\ Blamed(t) /\ Excused(t)
  BY DEF PipeKept
<1>2. PipeTyped(pipe)'
  BY <1>1 DEF PipeTyped, Shaped
<1>3. Placed(pipe)'
  BY <1>1 DEF Placed, P!Pending
<1>4. Chain(t, t.unread) => Chain(pipe, pipe.unread)'
  BY DEF Chain, Spoilt, P!After
<1>5. Chain(t, Tail(t.unread)) => Chain(pipe, Tail(pipe.unread))'
  BY DEF Chain, Spoilt, P!After
<1>6. Ending(t, t.unread) => Ending(pipe, pipe.unread)'
  BY DEF Ending, Behind, Spoilt, P!After
<1>7. Ending(t, Tail(t.unread)) => Ending(pipe, Tail(pipe.unread))'
  BY DEF Ending, Behind, Spoilt, P!After
<1>8. Failing(t) => Failing(pipe)'
  BY DEF Failing
<1>9. Reads(pipe)'
  BY <1>1, <1>4, <1>5, <1>6, <1>7, <1>8 DEF Reads, P!Pending
<1>10. Kept(pipe)'
  BY <1>1 DEF Kept, Spoilt
<1>11. Counted(pipe)'
  BY <1>1 DEF Counted, Unissued
<1>12. RanInOrder(pipe)'
  BY <1>1 DEF RanInOrder
<1>13. Blamed(pipe)' /\ Excused(pipe)'
  BY <1>1 DEF Blamed, Excused, Spoilt
<1> QED BY <1>2, <1>3, <1>9, <1>10, <1>11, <1>12, <1>13 DEF PipeKept

\* A call that tells the program nothing.
LEMMA QuietStep ==
  ASSUME PipelineInv, NEW s, PipeKept(s), pipe.cancelled => s.cancelled, P!Returns(s)
  PROVE  PipelineInv'
<1>1. PICK t : t = pipe'
  OBVIOUS
<1>2. t = [s EXCEPT !.any = FALSE]
  BY <1>1 DEF P!Returns
<1>3. PipeKept(t) /\ t.cancelled = s.cancelled
  BY <1>2, ReturnKept
<1>4. UNCHANGED <<inWork, fault, got>>
  BY DEF P!Returns
<1>5. \A p : Spoilt(p)' <=> Spoilt(p)
  BY <1>4 DEF Spoilt
<1>6. PipeKept(pipe)'
  BY <1>1, <1>3, <1>4, KeptSame
<1>7. Told'
  BY <1>1, <1>3, <1>4, <1>5 DEF PipelineInv, Told
<1> QED BY <1>4, <1>6, <1>7 DEF PipelineInv, FaultsKnown

\* A call of retrieve, with what it tells the program.
LEMMA RetrieveStep == ASSUME Sized, PipelineInv, P!Retrieve PROVE PipelineInv'
<1>1. PICK q \in pipe.present, k \in P!Arrived :
        LET s == P!Retrieved(q, k) IN
        /\ pipe' = [s EXCEPT !.any = FALSE]
        /\ got' = [got EXCEPT ![q] = IF s.thrown # "none" THEN s.thrown
                                   ELSE IF s.res[q].of = q THEN "own" ELSE "another"]
        /\ UNCHANGED <<inWork, fault>>
  BY DEF P!Retrieve
<1>2. PICK s, g : /\ s = P!Retrieved(q, k)
                  /\ g = IF s.thrown # "none" THEN s.thrown
                         ELSE IF s.res[q].of = q THEN "own" ELSE "another"
  OBVIOUS
<1>3. pipe' = [s EXCEPT !.any = FALSE] /\ got' = [got EXCEPT ![q] = g] /\ UNCHANGED <<inWork, fault>>
  BY <1>1, <1>2
<1>4. PipeKept(pipe) /\ FaultsKnown /\ Told
  BY DEF PipelineInv
<1>5. /\ PipeKept(s) /\ s.cancelled = pipe.cancelled
      /\ s.thrown \in {"none", "sql", "earlier error", "more results"}
      /\ s.thrown = "none" => s.res[q].of = q
      /\ s.thrown = "sql" => Spoilt(q)
      /\ s.thrown = "earlier error" => pipe.cancelled \/ \E p \in 1..q - 1 : Spoilt(p)
  BY <1>2, <1>4, RetrievedKept
<1>6. PICK t : t = pipe'
  OBVIOUS
<1>7. PipeKept(t) /\ t.cancelled = pipe.cancelled
  <2>1. t = [s EXCEPT !.any = FALSE]
    BY <1>3, <1>6
  <2> QED BY <1>5, <2>1, ReturnKept
<1>8. PipeKept(pipe)'
  BY <1>3, <1>6, <1>7, KeptSame
<1>9. \A p : Spoilt(p)' <=> Spoilt(p)
  BY <1>3 DEF Spoilt
<1>10. /\ g \in {"none", "own", "sql", "earlier error", "more results"}
       /\ g = "sql" => Spoilt(q)
       /\ g = "earlier error" => pipe.cancelled \/ \E p \in 1..q - 1 : Spoilt(p)
  BY <1>2, <1>5
<1>11. q \in P!Query /\ got \in [P!Query -> {"none", "own", "sql", "earlier error", "more results"}]
  BY <1>4 DEF PipeKept, PipeTyped, Told
<1>12. \A p \in P!Query : got'[p] = IF p = q THEN g ELSE got[p]
  BY <1>3, <1>11
<1>13. got' \in [P!Query -> {"none", "own", "sql", "earlier error", "more results"}]
  BY <1>3, <1>10, <1>11
<1>14. pipe'.cancelled = pipe.cancelled
  BY <1>6, <1>7
<1>15. Told'
  <2>1. ASSUME NEW p \in P!Query
        PROVE  /\ got'[p] = "sql" => Spoilt(p)'
               /\ got'[p] = "earlier error" => pipe'.cancelled \/ \E r \in 1..p - 1 : Spoilt(r)'
    <3>1. CASE p = q
      BY <1>9, <1>10, <1>12, <1>14, <3>1
    <3>2. CASE p # q
      BY <1>4, <1>9, <1>12, <1>14, <3>2 DEF Told
    <3> QED BY <3>1, <3>2
  <2> QED BY <1>13, <2>1 DEF Told
<1> QED BY <1>3, <1>4, <1>8, <1>15 DEF PipelineInv, FaultsKnown

\* and whatever the program calls leaves it true.
LEMMA PipelineSteps == ASSUME Sized, PipelineInv, [P!Next]_P!vars PROVE PipelineInv'
<1>1. PipeKept(pipe) /\ FaultsKnown
  BY DEF PipelineInv
<1>2. CASE P!Insert
  <2>1. PICK k \in P!Arrived :
          LET s == P!Inserted(P!Start) IN
          P!Returns(IF s.waiting <= s.retain THEN s
                  ELSE P!Then(IF P!Pending(s) THEN P!ReceiveIfAvailable(s, k) ELSE s,
                            LAMBDA t : IF P!Pending(t) THEN t ELSE P!Issue(t)))
    BY <1>2 DEF P!Insert
  <2>2. PICK s : s = P!Inserted(P!Start)
    OBVIOUS
  <2>3. PICK t : t = IF s.waiting <= s.retain THEN s
                     ELSE P!Then(IF P!Pending(s) THEN P!ReceiveIfAvailable(s, k) ELSE s,
                               LAMBDA x : IF P!Pending(x) THEN x ELSE P!Issue(x))
    OBVIOUS
  <2>4. P!Returns(t)
    BY <2>1, <2>2, <2>3
  <2>5. PipeKept(t) /\ t.cancelled = pipe.cancelled
    <3>1. pipe.last < MaxQueries
      BY <1>2 DEF P!Insert
    <3> QED BY <1>1, <2>2, <2>3, <3>1, InsertKept
  <2> QED BY <2>4, <2>5, QuietStep
<1>3. CASE P!Complete
  <2>1. PICK k \in P!Arrived : P!Returns(Completed(k))
    BY <1>3 DEF P!Complete, Completed
  <2>2. PICK t : t = Completed(k)
    OBVIOUS
  <2>3. P!Returns(t)
    BY <2>1, <2>2
  <2>4. PipeKept(t) /\ t.cancelled = pipe.cancelled
    BY <1>1, <2>2, CompleteKept
  <2> QED BY <2>3, <2>4, QuietStep
<1>4. CASE P!Flush
  <2>1. PICK k \in P!Arrived :
          P!Returns(IF pipe.present = {} THEN [P!Start EXCEPT !.focus = FALSE]
                  ELSE P!Then(IF P!Pending(pipe) THEN P!Receive(P!Start, pipe.second, k) ELSE P!Start,
                            LAMBDA x : [x EXCEPT !.first = P!End, !.second = P!End, !.waiting = 0,
                                                 !.dummy = FALSE, !.present = {}, !.focus = FALSE]))
    BY <1>4 DEF P!Flush
  <2>2. PICK t :
          t = IF pipe.present = {} THEN [P!Start EXCEPT !.focus = FALSE]
              ELSE P!Then(IF P!Pending(pipe) THEN P!Receive(P!Start, pipe.second, k) ELSE P!Start,
                        LAMBDA x : [x EXCEPT !.first = P!End, !.second = P!End, !.waiting = 0,
                                             !.dummy = FALSE, !.present = {}, !.focus = FALSE])
    OBVIOUS
  <2>3. P!Returns(t)
    BY <2>1, <2>2
  <2>4. PipeKept(t) /\ t.cancelled = pipe.cancelled
    BY ONLY Sized, <1>1, <2>2, FlushKept
  <2> QED BY <2>3, <2>4, QuietStep
<1>5. CASE P!Cancel
  <2>1. PICK t : t = [P!Start EXCEPT !.present = {q \in @ : q < pipe.first \/ q >= pipe.second},
                                   !.first = pipe.second, !.cancelled = @ \/ P!Pending(pipe)]
    OBVIOUS
  <2>2. P!Returns(t)
    BY <1>5, <2>1 DEF P!Cancel
  <2>3. PipeKept(t) /\ (pipe.cancelled => t.cancelled)
    BY ONLY Sized, <1>1, <2>1, CancelKept
  <2> QED BY <2>2, <2>3, QuietStep
<1>6. CASE P!Retain
  <2>1. PICK n \in 0..MaxRetain, k \in P!Arrived :
          LET s == [P!Start EXCEPT !.retain = n] IN
          P!Returns(IF s.waiting < n THEN s ELSE P!Resumed(s, k))
    BY <1>6 DEF P!Retain
  <2>2. PICK o, s : o = P!Start /\ s = [o EXCEPT !.retain = n]
    OBVIOUS
  <2>3. PipeKept(s) /\ s.thrown = "none" /\ s.cancelled = pipe.cancelled
    <3>1. PipeKept(o) /\ o.thrown = "none" /\ o.cancelled = pipe.cancelled
      BY <1>1, <2>2, StartKept DEF AlikeIn
    <3>2. n \in Nat
      BY DEF Sized
    <3> QED BY <2>2, <3>1, <3>2, RetainKept
  <2>4. CASE s.waiting < n
    <3>1. P!Returns(s)
      BY <2>1, <2>2, <2>4
    <3> QED BY <2>3, <3>1, QuietStep
  <2>5. CASE ~(s.waiting < n)
    <3>1. PICK t : t = P!Resumed(s, k)
      OBVIOUS
    <3>2. P!Returns(t)
      BY <2>1, <2>2, <2>5, <3>1
    <3>3. PipeKept(t) /\ t.cancelled = s.cancelled
      BY <1>1, <2>3, <3>1, ResumedKept
    <3> QED BY <2>3, <3>2, <3>3, QuietStep
  <2> QED BY <2>4, <2>5
<1>7. CASE P!Resume
  <2>1. PICK k \in P!Arrived : P!Returns(P!Resumed(P!Start, k))
    BY <1>7 DEF P!Resume
  <2>2. PICK s, t : s = P!Start /\ t = P!Resumed(s, k)
    OBVIOUS
  <2>3. P!Returns(t)
    BY <2>1, <2>2
  <2>4. PipeKept(s) /\ s.thrown = "none" /\ s.cancelled = pipe.cancelled
    BY <1>1, <2>2, StartKept DEF AlikeIn
  <2>5. PipeKept(t) /\ t.cancelled = s.cancelled
    BY <1>1, <2>2, <2>4, ResumedKept
  <2> QED BY <2>3, <2>4, <2>5, QuietStep
<1>8. CASE P!Retrieve
  BY <1>8, RetrieveStep
<1>9. CASE UNCHANGED P!vars
  <2>1. UNCHANGED <<pipe, inWork, fault, got>>
    BY <1>9 DEF P!vars
  <2>2. PICK t : t = pipe'
    OBVIOUS
  <2>3. PipeKept(pipe)'
    BY <1>1, <2>1, <2>2, KeptSame
  <2>4. \A p : Spoilt(p)' <=> Spoilt(p)
    BY <2>1 DEF Spoilt
  <2>5. Told'
    BY <2>1, <2>4 DEF PipelineInv, Told
  <2> QED BY <2>1, <2>3, <2>5 DEF PipelineInv, FaultsKnown
<1> QED BY <1>2, <1>3, <1>4, <1>5, <1>6, <1>7, <1>8, <1>9 DEF P!Next

\* What the class promises follows from it.
LEMMA PipelineSafe == ASSUME Sized, PipelineInv PROVE P!InOrder
<1>1. /\ PipeTyped(pipe) /\ Placed(pipe) /\ Kept(pipe) /\ Counted(pipe) /\ RanInOrder(pipe)
      /\ Excused(pipe) /\ Told /\ pipe.present \subseteq P!Query
  BY DEF PipelineInv, PipeKept, PipeTyped
<1>2. \A i, j \in DOMAIN pipe.ran : i < j => pipe.ran[i] < pipe.ran[j]
  <2>1. DOMAIN pipe.ran = 1..Len(pipe.ran)
    BY <1>1 DEF PipeTyped
  <2> QED BY <1>1, <2>1 DEF RanInOrder
<1>3. ASSUME NEW q \in P!Query
      PROVE  LET spoilt(p) == fault[p] # "fine" \/ (inWork /\ \E e \in P!Query : fault[e] # "fine") IN
             /\ got[q] # "another"
             /\ got[q] = "sql" => spoilt(q)
             /\ got[q] = "earlier error" => pipe.cancelled \/ \E p \in 1..q - 1 : spoilt(p)
  BY <1>1 DEF Told, Spoilt
<1>4. ASSUME ~pipe.cancelled, NEW q \in pipe.present, P!IsFinished(q) PROVE pipe.res[q] # P!NoResult
  <2>1. q \in Nat /\ pipe.first \in Nat /\ pipe.error \in Nat /\ MaxQueries \in Nat /\ q < P!End
    BY <1>1, PipeNumbers DEF PipelineInv, P!Query, Sized, P!End
  <2>2. q < pipe.first /\ q < pipe.error
    BY <1>1, <1>4, <2>1 DEF P!IsFinished, Placed
  <2>3. IF pipe.res[q].ok THEN pipe.res[q].of = q ELSE Spoilt(q)
    BY <1>1, <2>2 DEF Kept
  <2>4. P!NoResult.ok /\ P!NoResult.of # q
    BY <2>1 DEF P!NoResult, P!Result
  <2> QED BY <2>3, <2>4
<1>5. pipe.error = P!NoError => pipe.waiting = Cardinality({q \in pipe.present : q >= pipe.second})
  BY <1>1 DEF Counted, Unissued
<1>6. pipe.error = P!NoError =>
        pipe.waiting = P!Cardinality({q \in pipe.present : q >= pipe.second})
  BY <1>5, SameCount
<1> QED BY <1>1, <1>2, <1>3, <1>4, <1>6 DEF P!InOrder, Excused
=============================================================================
