---------------------------- MODULE PartsProofs -----------------------------
(***************************************************************************)
(* The theorems of MCParts: of the parts of libpqxx, a behaviour runs      *)
(* one, and the invariants of MachineProofs and PipelineProofs are those   *)
(* of the parts.                                                           *)
(***************************************************************************)
EXTENDS MCParts, TransactionProofs, PipelineProofs

\* A step of the parts is one of a part and none of the others.
LEMMA EachPart ==
  ASSUME [Next]_vars
  PROVE  /\ [X!Next]_X!vars
         /\ [P!Next]_P!vars
         /\ [C!Next]_C!vars
         /\ [S!Next]_S!vars
         /\ [K!Next]_K!vars
         /\ [B!Next]_B!vars
         /\ [O!Next]_O!vars
<1>1. [X!Next]_X!vars
  <2>1. CASE TransactionStep
    BY <2>1 DEF TransactionStep
  <2>2. CASE UNCHANGED transactionVars
    BY <2>2 DEF transactionVars, X!vars, X!sessionVars
  <2>3. TransactionStep \/ UNCHANGED transactionVars
    BY DEF Next, vars, PipelineStep, CursorStep, StreamStep, BlobStep, ObjectStep, ConnectionStep
  <2> QED BY <2>1, <2>2, <2>3
<1>2. [C!Next]_C!vars
  <2>1. CASE CursorStep
    BY <2>1 DEF CursorStep
  <2>2. CASE UNCHANGED cursorVars
    BY <2>2 DEF cursorVars, C!vars
  <2>3. CursorStep \/ UNCHANGED cursorVars
    BY DEF Next, vars, TransactionStep, PipelineStep, StreamStep, BlobStep, ObjectStep, ConnectionStep
  <2> QED BY <2>1, <2>2, <2>3
<1>3. [S!Next]_S!vars
  <2>1. CASE StreamStep
    BY <2>1 DEF StreamStep
  <2>2. CASE UNCHANGED streamVars
    BY <2>2 DEF streamVars, S!vars
  <2>3. StreamStep \/ UNCHANGED streamVars
    BY DEF Next, vars, TransactionStep, PipelineStep, CursorStep, BlobStep, ObjectStep, ConnectionStep
  <2> QED BY <2>1, <2>2, <2>3
<1>4. [K!Next]_K!vars
  <2>1. CASE ConnectionStep
    BY <2>1 DEF ConnectionStep
  <2>2. CASE UNCHANGED connectionVars
    BY <2>2 DEF connectionVars, K!vars, K!server, K!notices, K!calls
  <2>3. ConnectionStep \/ UNCHANGED connectionVars
    BY DEF Next, vars, TransactionStep, PipelineStep, CursorStep, StreamStep, BlobStep, ObjectStep
  <2> QED BY <2>1, <2>2, <2>3
<1>5. [B!Next]_B!vars
  <2>1. CASE BlobStep
    BY <2>1 DEF BlobStep
  <2>2. CASE UNCHANGED blobVars
    BY <2>2 DEF blobVars, B!vars
  <2>3. BlobStep \/ UNCHANGED blobVars
    BY DEF Next, vars, TransactionStep, PipelineStep, CursorStep, StreamStep, ObjectStep, ConnectionStep
  <2> QED BY <2>1, <2>2, <2>3
<1>6. [O!Next]_O!vars
  <2>1. CASE ObjectStep
    BY <2>1 DEF ObjectStep
  <2>2. CASE UNCHANGED objectVars
    BY <2>2 DEF objectVars, O!vars
  <2>3. ObjectStep \/ UNCHANGED objectVars
    BY DEF Next, vars, TransactionStep, PipelineStep, CursorStep, StreamStep, BlobStep, ConnectionStep
  <2> QED BY <2>1, <2>2, <2>3
<1>7. [P!Next]_P!vars
  <2>1. CASE PipelineStep
    BY <2>1 DEF PipelineStep
  <2>2. CASE UNCHANGED pipelineVars
    BY <2>2 DEF pipelineVars, P!vars
  <2>3. PipelineStep \/ UNCHANGED pipelineVars
    BY DEF Next, vars, TransactionStep, CursorStep, StreamStep, BlobStep, ObjectStep, ConnectionStep
  <2> QED BY <2>1, <2>2, <2>3
<1> QED BY <1>1, <1>2, <1>3, <1>4, <1>5, <1>6, <1>7

\* The inductive invariant of transactions, for every number of objects and statements: what an
\* open object has done is in the server's transaction as long as that can commit, and a session
\* without an object is in none, but for the two cases that SessionClean names (transaction.cxx,
\* robusttransaction.cxx, subtransaction.cxx).
THEOREM TransactionsInductive == Spec => []IInv
<1>1. Init => IInv
  BY SessionsAssumption, IInvInit DEF Init, Bounds
<1>2. IInv /\ [Next]_vars => IInv'
  BY SessionsAssumption, EachPart, IInvNext DEF Bounds
<1> QED BY <1>1, <1>2, PTL DEF Spec

\* What an object has done is in the database as a whole or not at all, as its
\* status says (dbtransaction.hxx:28-31), whatever calls the program makes in
\* whatever order and whatever the server answers.
THEOREM WholeCorrect == Spec => []AllOrNothing
<1>1. IInv => AllOrNothing
  BY SessionsAssumption, IInvWhole DEF AllOrNothing, Bounds
<1> QED BY <1>1, TransactionsInductive, PTL

\* When the last object is gone the connection has forgotten it, and the session has no
\* transaction - in all but two cases, an abort that threw a pending error in place of its
\* ROLLBACK and a robusttransaction that failed between its BEGIN and its second statement
\* (transaction_base.cxx:169-191, robusttransaction.cxx:93-101).
THEOREM SessionCorrect == Spec => []SessionClean
<1>1. IInv => SessionClean
  BY SessionsAssumption, IInvSession DEF SessionClean, Bounds
<1> QED BY <1>1, TransactionsInductive, PTL

\* pipeline.hxx:33-58: retrieve gives each query its own result or an error that is explained,
\* queries take effect once and in their order, and what is counted as waiting is what was not
\* sent, whichever results have come in at each call, however many queries there are.
THEOREM PipelineCorrect == Spec => []PipelineInOrder
<1>1. Sized
  BY MachinesAssumption DEF Sized
<1>2. Init => PipelineInv
  BY <1>1, PipelineStarts DEF Init
<1>3. PipelineInv /\ [Next]_vars => PipelineInv'
  BY <1>1, EachPart, PipelineSteps
<1>4. PipelineInv => PipelineInOrder
  BY <1>1, PipelineSafe DEF PipelineInOrder
<1> QED BY <1>2, <1>3, <1>4, PTL DEF Spec

\* cursor.hxx: whatever was moved and retrieved before, the cursor knows where the server is, and
\* retrieve() brings the rows that were asked for, but for those down from one row beyond the end,
\* of which it brings one too many (cursor.cxx:57); an iterator that looks for its block finds that
\* one, or none, and has it once the stream has passed it, but for an iterator that came to a block
\* which had been read already, which stays empty (cursor.cxx:168).
THEOREM CursorsCorrect == Spec => []CursorsInPlace
<1>1. Init => CursorInv /\ StreamInv
  BY MachinesAssumption, CursorInit, StreamInit DEF Init, CursorBounds, StreamBounds
<1>2. CursorInv /\ StreamInv /\ [Next]_vars => (CursorInv /\ StreamInv)'
  BY MachinesAssumption, EachPart, CursorNext, StreamNext DEF CursorBounds, StreamBounds
<1>3. CursorInv /\ StreamInv => CursorsInPlace
  BY MachinesAssumption, CursorKept, StreamKept DEF CursorsInPlace, CursorBounds, StreamBounds
<1> QED BY <1>1, <1>2, <1>3, PTL DEF Spec

\* connection.cxx: the server listens to every channel that has a receiver, or has lost it with
\* the connection; a receiver is called in the order of sending, and misses nothing that was sent
\* while it listened; the processor is set while there is a handler for it.
THEOREM ReceiversCorrect == Spec => []ReceiversServed
<1>1. Init => ConnectionInv
  BY MachinesAssumption, ConnectionInit DEF Init
<1>2. ConnectionInv /\ [Next]_vars => (ConnectionInv)'
  BY MachinesAssumption, EachPart, ConnectionNext
<1>3. ConnectionInv => ReceiversServed
  BY MachinesAssumption, ConnectionServes DEF ReceiversServed
<1> QED BY <1>1, <1>2, <1>3, PTL DEF Spec

\* blob.hxx, largeobject.hxx: what is fetched in pieces is what the object begins with, pieces that
\* fail included; what is stored under an oid of the caller's is there whole or not at all while the
\* transaction stands, and under one that the server gives whole or, when it was more than a call
\* takes, as an empty object (blob.cxx:241).  What was put into a stream is in the object or its
\* buffer in order as long as the stream is good, and what was got from one begins the object, until
\* sync starts its buffer again.
THEOREM ObjectsCorrect == Spec => []ObjectsWhole
<1>1. Init => BlobInv /\ ObjectInv
  BY MachinesAssumption, BlobInit, ObjectInit DEF Init, BlobBounds, ObjectBounds
<1>2. BlobInv /\ ObjectInv /\ [Next]_vars => (BlobInv /\ ObjectInv)'
  BY MachinesAssumption, EachPart, BlobNext, ObjectNext DEF BlobBounds, ObjectBounds
<1>3. BlobInv /\ ObjectInv => ObjectsWhole
  BY MachinesAssumption DEF ObjectsWhole, BlobInv, ObjectInv
<1> QED BY <1>1, <1>2, <1>3, PTL DEF Spec

-----------------------------------------------------------------------------
(* The inputs: what is looked at is one of them, and stays the same.       *)

\* What a behaviour looks at stays one of the inputs of its part.
Looked == /\ Is("links") => case \in Links
          /\ Is("page") => case \in Pages
          /\ Is("errors") => case \in Outcomes

LEMMA OtherParts ==
  /\ \A c \in Pages : c.part = "page"
  /\ \A c \in Links : c.part = "links"
  /\ \A c \in CopiedRows : c.part = "copy"
  /\ \A c \in ArraysAndComposites : c.part \in {"array", "composite"}
  /\ \A c \in Numbers : c.part \in {"integer", "text", "date", "bytes", "ranges"}
  /\ \A c \in Outcomes : c.part = "errors"
  /\ \A c \in ResultsOf : c.part \in {"slice", "rows"}
  /\ \A c \in MachineCases : c.part \in {"transaction", "pipeline", "cursor", "stream", "blobs",
                                          "objects", "connection"}
<1>1. \A c \in Pages : c.part = "page"
  BY DEF Pages
<1>2. \A c \in Links : c.part = "links"
  BY DEF Links
<1>3. \A c \in CopiedRows : c.part = "copy"
  BY DEF CopiedRows
<1>4. \A c \in ArraysAndComposites : c.part \in {"array", "composite"}
  <2>1. ASSUME NEW enc, NEW c \in ArrayRows(enc) PROVE c.part \in {"array", "composite"}
    BY <2>1 DEF ArrayRows
  <2> QED BY <2>1 DEF ArraysAndComposites
<1>5. \A c \in Numbers : c.part \in {"integer", "text", "date", "bytes", "ranges"}
  <2>1. \A c \in IntegerCases : c.part = "integer"
    BY DEF IntegerCases
  <2>2. \A c \in TextCases : c.part = "text"
    BY DEF TextCases
  <2>3. \A c \in DateCases : c.part = "date"
    BY DEF DateCases
  <2> QED BY <2>1, <2>2, <2>3 DEF Numbers
<1>6. \A c \in Outcomes : c.part = "errors"
  BY DEF Outcomes
<1>7. \A c \in ResultsOf : c.part \in {"slice", "rows"}
  BY DEF ResultsOf
<1>8. \A c \in MachineCases : c.part \in {"transaction", "pipeline", "cursor", "stream", "blobs",
                                          "objects", "connection"}
  BY DEF MachineCases
<1> QED BY <1>1, <1>2, <1>3, <1>4, <1>5, <1>6, <1>7, <1>8

LEMMA LookedInit == Init => Looked
<1> SUFFICES ASSUME Init PROVE Looked
  OBVIOUS
<1>1. case \in Pages \cup Links \cup CopiedRows \cup ArraysAndComposites \cup Numbers
              \cup Outcomes \cup ResultsOf \cup MachineCases
  BY DEF Init
<1> QED BY <1>1, OtherParts DEF Looked, Is

LEMMA LookedNext == Looked /\ [Next]_vars => Looked'
<1> SUFFICES ASSUME Looked, [Next]_vars PROVE Looked'
  OBVIOUS
<1>1. case' = case
  BY DEF Next, vars, TransactionStep, PipelineStep, CursorStep, StreamStep, BlobStep, ObjectStep,
         ConnectionStep
<1> QED BY <1>1, Zenon DEF Looked, Is

LEMMA SeqsUpTo ==
  ASSUME NEW set, NEW n, NEW s \in UpTo(set, n)
  PROVE  s \in Seq(set)
<1>1. PICK m \in 0..n : s \in [1..m -> set]
  BY DEF UpTo, F!BoundedSeq, F!SeqOf
<1> QED BY <1>1

LEMMA LinksAre ==
  ASSUME Looked, Is("links")
  PROVE  case.site \in L!Site /\ case.from \in Seq(Name) /\ case.to \in Seq(Name)
<1>1. case.site \in L!Site /\ case.from \in UpTo(Name, MaxPath) /\ case.to \in UpTo(Name, MaxPath)
  BY DEF Looked, Links
<1> QED BY <1>1, SeqsUpTo

-----------------------------------------------------------------------------
(* Urls.                                                                   *)

\* A sequence of sequences, one behind the other: up to each of them.
LEMMA FlattenExists ==
  ASSUME NEW seqs, NEW n \in Nat \ {0}
  PROVE  \E f : f = [i \in 1..n |-> IF i = 1 THEN seqs[i] ELSE f[i - 1] \o seqs[i]]
<1> DEFINE Step(f, m) == f = [i \in 1..m |-> IF i = 1 THEN seqs[i] ELSE f[i - 1] \o seqs[i]]
           known == {m \in Nat : \E f : Step(f, m)}
<1>1. 0 \in known
  <2>1. Step([i \in 1..0 |-> <<>>], 0)
    OBVIOUS
  <2> QED BY <2>1
<1>2. ASSUME NEW m \in Nat, m \in known PROVE m + 1 \in known
  <2>1. PICK f : Step(f, m)
    BY <1>2
  <2> DEFINE g == [i \in 1..m + 1 |-> IF i <= m THEN f[i]
                                      ELSE IF i = 1 THEN seqs[i] ELSE f[i - 1] \o seqs[i]]
  <2>2. ASSUME NEW i \in 1..m + 1
        PROVE  g[i] = IF i = 1 THEN seqs[i] ELSE g[i - 1] \o seqs[i]
    <3>1. CASE i <= m
      <4>1. i \in 1..m /\ (i # 1 => i - 1 \in 1..m /\ i - 1 \in 1..m + 1 /\ i - 1 <= m)
        BY <3>1
      <4>2. f[i] = IF i = 1 THEN seqs[i] ELSE f[i - 1] \o seqs[i]
        BY <2>1, <4>1, Zenon
      <4>3. g[i] = f[i] /\ (i # 1 => g[i - 1] = f[i - 1])
        BY <3>1, <4>1
      <4> HIDE DEF g
      <4> QED BY <4>2, <4>3, Zenon
    <3>2. CASE ~(i <= m)
      <4>1. i = m + 1 /\ (i # 1 => i - 1 \in 1..m + 1 /\ i - 1 <= m)
        BY <3>2
      <4>2. i # 1 => g[i - 1] = f[i - 1]
        BY <4>1
      <4>3. g[i] = IF i = 1 THEN seqs[i] ELSE f[i - 1] \o seqs[i]
        BY <3>2, Zenon
      <4> HIDE DEF g
      <4> QED BY <4>2, <4>3, Zenon
    <3> QED BY <3>1, <3>2
  <2>3. Step(g, m + 1)
    <3>1. g = [i \in 1..m + 1 |-> g[i]]
      OBVIOUS
    <3> HIDE DEF g
    <3> QED BY <3>1, <2>2
  <2> HIDE DEF g, Step
  <2> QED BY <2>3
<1> HIDE DEF known
<1>3. n \in known
  BY <1>1, <1>2, NatSet
<1> QED BY <1>3 DEF known

\* The path of a URL: a slash in front of each segment.
LEMMA RootedIs ==
  ASSUME NEW path \in Seq(Name)
  PROVE  L!Rooted(path) = [k \in 1..2 * Len(path) |-> IF k % 2 = 1 THEN "/" ELSE path[k \div 2]]
<1> DEFINE n == Len(path)
           seqs == [i \in DOMAIN path |-> <<"/", path[i]>>]
           first(i) == [k \in 1..2 * i |-> IF k % 2 = 1 THEN "/" ELSE path[k \div 2]]
<1>1. n \in Nat /\ Len(seqs) = n /\ DOMAIN path = 1..n /\ \A i \in 1..n : seqs[i] = <<"/", path[i]>>
  OBVIOUS
<1>2. CASE n = 0
  BY <1>1, <1>2 DEF L!Rooted, L!FlattenSeq
<1>3. CASE n # 0
  <2> DEFINE Step(f) == f = [i \in 1..n |-> IF i = 1 THEN seqs[i] ELSE f[i - 1] \o seqs[i]]
  <2>1. \E f : Step(f)
    <3>1. n \in Nat \ {0}
      BY <1>1, <1>3
    <3> HIDE DEF n, seqs
    <3> QED BY <3>1, FlattenExists, Zenon
  <2>2. PICK f : Step(f) /\ L!FlattenSeq(seqs) = f[n]
    <3> HIDE DEF n
    <3> QED BY <1>1, <1>3, <2>1 DEF L!FlattenSeq
  <2>3. \A i \in Nat : i + 1 \in 1..n => f[i + 1] = first(i + 1)
    <3> DEFINE known == {i \in Nat : i + 1 \in 1..n => f[i + 1] = first(i + 1)}
    <3>1. 0 \in known
      <4>1. f[1] = <<"/", path[1]>>
        BY <1>1, <1>3, <2>2
      <4>2. first(1) = <<"/", path[1]>>
        OBVIOUS
      <4> QED BY <4>1, <4>2
    <3>2. ASSUME NEW i \in Nat, i \in known PROVE i + 1 \in known
      <4> SUFFICES ASSUME i + 2 \in 1..n PROVE f[i + 2] = first(i + 2)
        OBVIOUS
      <4>1. f[i + 2] = f[i + 1] \o <<"/", path[i + 2]>>
        <5>1. i + 2 \in 1..n /\ i + 2 # 1 /\ (i + 2) - 1 = i + 1
          OBVIOUS
        <5>2. f[i + 2] = f[(i + 2) - 1] \o seqs[i + 2]
          <6> HIDE DEF n, seqs
          <6> QED BY <5>1, <2>2, Zenon
        <5> QED BY <5>1, <5>2, <1>1
      <4>2. f[i + 1] = first(i + 1)
        BY <3>2
      <4>3. first(i + 1) \o <<"/", path[i + 2]>> = first(i + 2)
        <5>1. Len(first(i + 1)) = 2 * (i + 1) /\ \A k \in 1..2 * (i + 1) : first(i + 1)[k] = first(i + 2)[k]
          OBVIOUS
        <5>2. first(i + 1) \in Seq(Name \cup {"/"})
          <6>1. \A k \in 1..2 * (i + 1) : k % 2 # 1 => k \div 2 \in 1..n
            OBVIOUS
          <6> QED BY <6>1
        <5>3. first(i + 2)[2 * (i + 1) + 1] = "/" /\ first(i + 2)[2 * (i + 1) + 2] = path[i + 2]
          <6>1. (2 * (i + 1) + 1) % 2 = 1 /\ (2 * (i + 1) + 2) % 2 = 0
                /\ (2 * (i + 1) + 2) \div 2 = i + 2
            OBVIOUS
          <6>2. 2 * (i + 1) + 1 \in 1..2 * (i + 2) /\ 2 * (i + 1) + 2 \in 1..2 * (i + 2)
            OBVIOUS
          <6> QED BY <6>1, <6>2
        <5>4. path[i + 2] \in Name
          OBVIOUS
        <5> DEFINE all == first(i + 1) \o <<"/", path[i + 2]>>
        <5>5. all \in Seq(Name \cup {"/"}) /\ Len(all) = 2 * (i + 2)
              /\ \A k \in 1..2 * (i + 1) : all[k] = first(i + 1)[k]
              /\ all[2 * (i + 1) + 1] = "/" /\ all[2 * (i + 1) + 2] = path[i + 2]
          <6> HIDE DEF first
          <6> QED BY <5>1, <5>2, <5>4
        <5>6. all = [k \in 1..2 * (i + 2) |-> all[k]] /\ first(i + 2) = [k \in 1..2 * (i + 2) |-> first(i + 2)[k]]
          BY <5>5
        <5>7. ASSUME NEW k \in 1..2 * (i + 2) PROVE all[k] = first(i + 2)[k]
          <6>1. k \in 1..2 * (i + 1) \/ k = 2 * (i + 1) + 1 \/ k = 2 * (i + 1) + 2
            OBVIOUS
          <6> HIDE DEF all, first
          <6> QED BY <6>1, <5>1, <5>3, <5>5
        <5> HIDE DEF all, first
        <5> QED BY <5>6, <5>7 DEF all
      <4> QED BY <4>1, <4>2, <4>3
    <3> HIDE DEF known
    <3>3. Nat \subseteq known
      BY <3>1, <3>2, NatSet
    <3> QED BY <3>3 DEF known
  <2>4. f[n] = first(n)
    <3>1. n - 1 \in Nat /\ (n - 1) + 1 = n
      BY <1>1, <1>3
    <3> HIDE DEF n, first
    <3> QED BY <2>3, <3>1
  <2> QED BY <2>2, <2>4 DEF L!Rooted
<1> QED BY <1>2, <1>3

\* What a path looks like when its segments do not matter.
PathLike(r) ==
  /\ r \in Seq(Name \cup {"/"})
  /\ r # <<>> => r[1] = "/" /\ r[Len(r)] \in Name

LEMMA RootedLike ==
  ASSUME NEW path \in Seq(Name)
  PROVE  PathLike(L!Rooted(path)) /\ (L!Rooted(path) = <<>> <=> path = <<>>)
<1> DEFINE n == Len(path)
           first == [k \in 1..2 * n |-> IF k % 2 = 1 THEN "/" ELSE path[k \div 2]]
<1>1. L!Rooted(path) = first
  BY RootedIs
<1>2. n \in Nat /\ \A i \in 1..n : path[i] \in Name
  OBVIOUS
<1>3. \A k \in 1..2 * n : k % 2 # 1 => k \div 2 \in 1..n
  BY <1>2
<1>4. first \in Seq(Name \cup {"/"}) /\ Len(first) = 2 * n
  <2> HIDE DEF n
  <2> QED BY <1>2, <1>3
<1>5. n # 0 => first[1] = "/" /\ first[2 * n] = path[n] /\ path[n] \in Name
  <2>1. n # 0 => 1 \in 1..2 * n /\ 2 * n \in 1..2 * n /\ (2 * n) % 2 = 0 /\ (2 * n) \div 2 = n
    BY <1>2
  <2>2. 1 % 2 = 1
    OBVIOUS
  <2> HIDE DEF n
  <2> QED BY <2>1, <2>2, <1>2
<1>6. (first = <<>> <=> n = 0) /\ (path = <<>> <=> n = 0)
  <2>1. first = <<>> <=> Len(first) = 0
    <3> HIDE DEF first
    <3> QED BY <1>4
  <2> HIDE DEF first
  <2> QED BY <1>4, <2>1
<1> HIDE DEF first, n
<1> QED BY <1>1, <1>4, <1>5, <1>6 DEF PathLike

\* The URL of a page, piece by piece.
UrlShape(site, r, url) ==
  /\ url \in Seq(L!Piece \ {"#"}) /\ Len(url) = Len(r) + 2 /\ Len(r) \in Nat /\ Len(url) > 0
  /\ url[1] = site.scheme /\ url[2] = site.host /\ site.host # "/" /\ url[2] # "/" /\ url[1] # "/"
  /\ site.scheme \in L!Scheme
  /\ \A k \in 1..Len(r) : url[k + 2] = r[k]
  /\ url[Len(url)] # "/"

LEMMA UrlIs ==
  ASSUME NEW site \in L!Site, NEW r, PathLike(r), NEW url, url = <<site.scheme, site.host>> \o r
  PROVE  UrlShape(site, r, url)
<1>1. site.scheme \in L!Scheme /\ site.host \in Host
  BY DEF L!Site
<1>2. L!Scheme \cap {"/", "#"} = {}
  BY DEF L!Scheme
<1>3. r \in Seq(L!Piece \ {"#"}) /\ <<site.scheme, site.host>> \in Seq(L!Piece \ {"#"})
  <2>1. Name \cup {"/"} \subseteq L!Piece \ {"#"} /\ Host \subseteq L!Piece \ {"#"}
        /\ L!Scheme \subseteq L!Piece \ {"#"}
    BY <1>2, LinksAssumption DEF L!Piece
  <2> QED BY <1>1, <2>1 DEF PathLike
<1>4. /\ url \in Seq(L!Piece \ {"#"}) /\ Len(url) = Len(r) + 2 /\ Len(r) \in Nat
      /\ url[1] = site.scheme /\ url[2] = site.host
      /\ \A k \in 1..Len(r) : url[k + 2] = r[k]
  BY <1>3
<1>5. url[Len(url)] # "/"
  <2>1. CASE r = <<>>
    BY <1>1, <1>4, <2>1, LinksAssumption
  <2>2. CASE r # <<>>
    <3>1. Len(r) \in 1..Len(r) /\ r[Len(r)] \in Name
      BY <2>2 DEF PathLike
    <3> QED BY <1>4, <3>1, LinksAssumption
  <2> QED BY <2>1, <2>2
<1>6. site.host # "/" /\ site.scheme # "/"
  BY <1>1, <1>2, LinksAssumption
<1> QED BY <1>1, <1>4, <1>5, <1>6 DEF UrlShape

\* It is parsed into what it is made of.
LEMMA ParseIs ==
  ASSUME NEW site \in L!Site, NEW r, PathLike(r), NEW url, url = <<site.scheme, site.host>> \o r
  PROVE  /\ L!Parses(url)
         /\ L!Parse(url) = [protocol |-> site.scheme, hostName |-> <<site.host>>,
                            query |-> IF r = <<>> THEN <<"/">> ELSE r]
<1>0. UrlShape(site, r, url)
  BY UrlIs, Zenon
<1>1. /\ url \in Seq(L!Piece \ {"#"}) /\ Len(url) = Len(r) + 2 /\ Len(r) \in Nat
      /\ url[1] = site.scheme /\ url[2] = site.host /\ url[2] # "/"
      /\ site.scheme \in L!Scheme
      /\ \A k \in 1..Len(r) : url[k + 2] = r[k]
  BY <1>0, Zenon DEF UrlShape
<1>2. url[1] # "/"
  BY <1>0, Zenon DEF UrlShape
<1>3. L!HostEnd(url) = 2
  <2>1. CASE r = <<>>
    <3>1. L!Slashes(url) = {}
      BY <1>1, <1>2, <2>1 DEF L!Slashes
    <3> QED BY <1>1, <2>1, <3>1 DEF L!HostEnd
  <2>2. CASE r # <<>>
    <3>1. Len(r) >= 1 /\ url[3] = "/"
      BY <1>1, <2>2 DEF PathLike
    <3>2. 3 \in L!Slashes(url) /\ \A j \in L!Slashes(url) : j \in Nat /\ 3 <= j
      <4>1. DOMAIN url = 1..Len(url)
        BY <1>1
      <4> QED BY <1>1, <1>2, <3>1, <4>1 DEF L!Slashes
    <3>3. (CHOOSE i \in L!Slashes(url) : \A j \in L!Slashes(url) : i <= j) = 3
      <4> DEFINE slashes == L!Slashes(url)
                 first == CHOOSE i \in slashes : \A j \in slashes : i <= j
      <4>1. 3 \in slashes /\ \A j \in slashes : j \in Nat /\ 3 <= j
        BY <3>2
      <4> HIDE DEF slashes
      <4>2. first \in slashes /\ \A j \in slashes : first <= j
        BY ONLY <4>1
      <4> HIDE DEF first
      <4>3. first = 3
        BY ONLY <4>1, <4>2
      <4> QED BY <4>3 DEF first, slashes
    <3> QED BY <3>2, <3>3 DEF L!HostEnd
  <2> QED BY <2>1, <2>2
<1>4. SubSeq(url, 2, 2) = <<site.host>>
  <2>1. SubSeq(url, 2, 2) = [k \in 1..1 |-> url[k + 1]]
    BY <1>1
  <2>2. <<site.host>> = [k \in 1..1 |-> site.host]
    OBVIOUS
  <2>3. \A k \in 1..1 : url[k + 1] = site.host
    BY <1>1
  <2> QED BY <2>1, <2>2, <2>3
<1>5. r = <<>> <=> Len(r) = 0
  BY DEF PathLike
<1>6. r # <<>> => SubSeq(url, 3, Len(url)) = r
  <2> DEFINE rest == SubSeq(url, 3, Len(url))
  <2>1. rest \in Seq(L!Piece \ {"#"}) /\ Len(rest) = Len(r) /\ \A k \in 1..Len(r) : rest[k] = r[k]
    BY <1>1
  <2> HIDE DEF rest
  <2>2. rest = r
    BY <2>1 DEF PathLike
  <2> QED BY <2>2 DEF rest
<1>7. L!Parses(url)
  <2>1. Len(url) > 0 /\ url[1] \in L!Scheme
    BY <1>0, Zenon DEF UrlShape
  <2>2. L!HostEnd(url) > 1
    BY <1>3
  <2> QED BY <2>1, <2>2, Zenon DEF L!Parses
<1>8. L!Parse(url) = [protocol |-> url[1], hostName |-> SubSeq(url, 2, 2),
                      query |-> IF 2 = Len(url) THEN <<"/">> ELSE SubSeq(url, 3, Len(url))]
  <2>1. L!Parse(url) = [protocol |-> url[1], hostName |-> SubSeq(url, 2, 2),
                        query |-> IF 2 = Len(url) THEN <<"/">> ELSE SubSeq(url, 2 + 1, Len(url))]
    BY <1>3, Zenon DEF L!Parse
  <2>2. 2 + 1 = 3
    OBVIOUS
  <2> QED BY <2>1, <2>2, Zenon
<1>9. 2 = Len(url) <=> r = <<>>
  BY <1>1, <1>5
<1> QED BY <1>1, <1>4, <1>6, <1>7, <1>8, <1>9

\* An anchor is taken off, and a link without one stays as it is.
LEMMA AnchorOff ==
  ASSUME NEW link \in Seq(L!Piece \ {"#"}), NEW more, more = <<>> \/ \E n : more = <<"#">> \/ more = <<"#", n>>
  PROVE  L!Unanchored(link \o more) = link
<1> DEFINE l == link \o more
<1>0. Len(link) \in Nat /\ DOMAIN link = 1..Len(link) /\ \A k \in 1..Len(link) : link[k] # "#"
  OBVIOUS
<1>1. CASE more = <<>>
  <2>1. l = link
    BY <1>1
  <2>2. {i \in DOMAIN l : l[i] = "#"} = {}
    BY <1>0, <2>1
  <2> QED BY <2>1, <2>2 DEF L!Unanchored
<1>2. ASSUME NEW n, more = <<"#">> \/ more = <<"#", n>> PROVE L!Unanchored(l) = link
  <2> DEFINE hashes == {i \in DOMAIN l : l[i] = "#"}
  <2>1. more \in Seq({"#", n}) /\ Len(more) >= 1 /\ more[1] = "#"
    <3>1. CASE more = <<"#">>
      BY <3>1
    <3>2. CASE more = <<"#", n>>
      BY <3>2
    <3> QED BY <1>2, <3>1, <3>2
  <2>2. /\ l \in Seq(L!Piece \cup {"#", n}) /\ Len(l) = Len(link) + Len(more)
        /\ \A k \in 1..Len(link) : l[k] = link[k]
        /\ l[Len(link) + 1] = "#"
    BY <2>1
  <2>3. Len(link) + 1 \in hashes /\ \A j \in hashes : j \in Nat /\ Len(link) + 1 <= j
    <3>1. DOMAIN l = 1..Len(l) /\ Len(l) \in Nat /\ Len(more) \in Nat
      BY <2>1, <2>2
    <3> HIDE DEF l
    <3> QED BY <1>0, <2>1, <2>2, <3>1
  <2>4. (CHOOSE i \in hashes : \A j \in hashes : i <= j) = Len(link) + 1
    <3>1. \A i \in hashes : (\A j \in hashes : i <= j) <=> i = Len(link) + 1
      <4> HIDE DEF hashes
      <4> QED BY <2>3, <1>0
    <3> HIDE DEF hashes
    <3> QED BY <2>3, <3>1
  <2>5. SubSeq(l, 1, Len(link)) = link
    <3> DEFINE head == SubSeq(l, 1, Len(link))
    <3>1. head = [k \in 1..Len(link) |-> l[k]]
      <4> HIDE DEF l
      <4> QED BY <1>0, <2>1, <2>2
    <3>2. link = [k \in 1..Len(link) |-> link[k]]
      OBVIOUS
    <3> HIDE DEF l
    <3> QED BY <2>2, <3>1, <3>2
  <2>6. hashes # {} /\ L!Unanchored(l) = SubSeq(l, 1, (Len(link) + 1) - 1)
    <3>1. hashes # {}
      BY <2>3
    <3> HIDE DEF l
    <3> QED BY <2>4, <3>1 DEF L!Unanchored
  <2> HIDE DEF l, hashes
  <2> QED BY <1>0, <2>5, <2>6
<1> QED BY <1>1, <1>2

\* A slash at the end is taken off, once.
LEMMA SlashOff ==
  ASSUME NEW url \in Seq(L!Piece), Len(url) > 0, url[Len(url)] # "/"
  PROVE  L!Trimmed(url) = url /\ L!Trimmed(url \o <<"/">>) = url
<1>1. L!Trimmed(url) = url
  BY DEF L!Trimmed, L!Last
<1> DEFINE l == url \o <<"/">>
<1>2. l \in Seq(L!Piece \cup {"/"}) /\ Len(l) = Len(url) + 1 /\ l[Len(url) + 1] = "/"
      /\ \A k \in 1..Len(url) : l[k] = url[k]
  OBVIOUS
<1>3. SubSeq(l, 1, Len(url)) = url
  <2>1. SubSeq(l, 1, Len(url)) = [k \in 1..Len(url) |-> l[k]]
    <3> HIDE DEF l
    <3> QED BY <1>2
  <2>2. url = [k \in 1..Len(url) |-> url[k]]
    OBVIOUS
  <2> HIDE DEF l
  <2> QED BY <1>2, <2>1, <2>2
<1>4. (Len(url) + 1) - 1 = Len(url)
  OBVIOUS
<1> HIDE DEF l
<1>5. L!Trimmed(l) = url
  BY <1>2, <1>3, <1>4 DEF L!Trimmed, L!Last, L!Front
<1> QED BY <1>1, <1>5 DEF l

\* A link without an anchor that leads to url.
Leads(link, base, url) ==
  link \in Seq(L!Piece \ {"#"}) /\ link # <<>> /\ L!Trimmed(L!Absolute(link, base)) = url

\* Where a link leads, from any page of the site.
LEMMA SpellingLeads ==
  ASSUME NEW site \in L!Site, NEW r, PathLike(r), NEW url, url = <<site.scheme, site.host>> \o r,
         NEW s, PathLike(s), NEW base, base = <<site.scheme, site.host>> \o s,
         NEW link, link \in {url, url \o <<"/">>}
                           \cup (IF r = <<>> THEN {<<"/">>} ELSE {r, r \o <<"/">>})
  PROVE  Leads(link, base, url)
<1>0. UrlShape(site, r, url)
  BY UrlIs, Zenon
<1>1. /\ url \in Seq(L!Piece \ {"#"}) /\ Len(url) > 0
      /\ url[1] \in L!Scheme /\ url[Len(url)] # "/"
  BY <1>0, Zenon DEF UrlShape
<1>2. L!Parse(base).protocol = site.scheme /\ L!Parse(base).hostName = <<site.host>>
  <2>1. L!Parse(base) = [protocol |-> site.scheme, hostName |-> <<site.host>>,
                         query |-> IF s = <<>> THEN <<"/">> ELSE s]
    BY ParseIs, Zenon
  <2> QED BY ONLY <2>1
<1>3. L!Trimmed(url) = url /\ L!Trimmed(url \o <<"/">>) = url
  <2>1. url \in Seq(L!Piece)
    BY <1>1
  <2> QED BY <1>1, <2>1, SlashOff, Zenon
<1>4. "/" \in L!Piece \ {"#"} /\ "/" \notin L!Scheme
  BY DEF L!Piece, L!Scheme
<1>5. CASE link = url
  <2>1. L!Absolute(link, base) = url
    BY ONLY <1>1, <1>4, <1>5 DEF L!Absolute
  <2>2. link # <<>>
    BY <1>1, <1>5
  <2> QED BY <1>1, <1>3, <1>5, <2>1, <2>2, Zenon DEF Leads
<1>6. CASE link = url \o <<"/">>
  <2>1. link \in Seq(L!Piece \ {"#"}) /\ link # <<>> /\ link[1] = url[1]
    BY <1>1, <1>4, <1>6
  <2>2. L!Absolute(link, base) = link
    BY ONLY <1>1, <1>4, <2>1 DEF L!Absolute
  <2> QED BY <1>3, <1>6, <2>1, <2>2, Zenon DEF Leads
<1>7. ASSUME link[1] = "/", link \in Seq(L!Piece \ {"#"}), link # <<>>
      PROVE  L!Absolute(link, base) = <<site.scheme>> \o <<site.host>> \o link
  BY <1>2, <1>4, <1>7 DEF L!Absolute
<1>8. site.host \in L!Piece /\ site.scheme \in L!Piece
  BY DEF L!Site, L!Piece
<1>9. r \in Seq(L!Piece) /\ r \in Seq(L!Piece \ {"#"})
  <2>1. Name \cup {"/"} \subseteq L!Piece \ {"#"}
    BY <1>4, LinksAssumption DEF L!Piece
  <2> QED BY <2>1 DEF PathLike
<1>10. <<site.scheme>> \o <<site.host>> = <<site.scheme, site.host>>
  <2>1. \A x, y \in L!Piece : <<x>> \o <<y>> = <<x, y>>
    <3> TAKE x, y \in L!Piece
    <3> DEFINE c == <<x>> \o <<y>>
    <3>1. c \in Seq(L!Piece) /\ Len(c) = 2 /\ c[1] = x /\ c[2] = y
      OBVIOUS
    <3> HIDE DEF c
    <3>2. c = <<x, y>>
      BY <3>1
    <3> QED BY <3>2 DEF c
  <2> QED BY <1>8, <2>1
<1>11. CASE r = <<>> /\ link = <<"/">>
  <2>1. link \in Seq(L!Piece \ {"#"}) /\ link # <<>> /\ link[1] = "/"
    BY <1>4, <1>11
  <2>2. url = <<site.scheme, site.host>>
    BY <1>8, <1>11
  <2>3. L!Absolute(link, base) = url \o <<"/">>
    BY <1>7, <1>10, <1>11, <2>1, <2>2, Zenon
  <2> QED BY <1>3, <2>1, <2>3, Zenon DEF Leads
<1>12. CASE r # <<>> /\ link = r
  <2>1. link \in Seq(L!Piece \ {"#"}) /\ link # <<>> /\ link[1] = "/"
    BY <1>9, <1>12 DEF PathLike
  <2>2. L!Absolute(link, base) = url
    BY <1>7, <1>10, <1>12, <2>1, Zenon
  <2> QED BY <1>3, <2>1, <2>2, Zenon DEF Leads
<1>13. CASE r # <<>> /\ link = r \o <<"/">>
  <2>1. link \in Seq(L!Piece \ {"#"}) /\ link # <<>> /\ link[1] = "/"
    BY <1>4, <1>9, <1>13 DEF PathLike
  <2>2. <<site.scheme, site.host>> \o (r \o <<"/">>) = url \o <<"/">>
    <3>1. \A x, y, z \in Seq(L!Piece) : x \o (y \o z) = (x \o y) \o z
      OBVIOUS
    <3> QED BY <1>4, <1>8, <1>9, <3>1
  <2>3. L!Absolute(link, base) = url \o <<"/">>
    BY <1>7, <1>10, <1>13, <2>1, <2>2, Zenon
  <2> QED BY <1>3, <2>1, <2>3, Zenon DEF Leads
<1> QED BY <1>5, <1>6, <1>11, <1>12, <1>13

\* Links, and the same ones with an anchor.
AtName(link, name) == link \o <<"#", name>>
Anchored(links) ==
  links \cup {l \o <<"#">> : l \in links} \cup {AtName(l, n) : l \in links, n \in Name}

LEMMA AnchoredAre ==
  ASSUME NEW links, NEW l \in Anchored(links)
  PROVE  l \in links \/ (\E k \in links : l = k \o <<"#">>)
         \/ (\E k \in links, n \in Name : l = k \o <<"#", n>>)
<1> DEFINE bare == {k \o <<"#">> : k \in links}
           named == {AtName(k, n) : k \in links, n \in Name}
<1>1. l \in links \/ l \in bare \/ l \in named
  BY DEF Anchored
<1>2. l \in bare => \E k \in links : l = k \o <<"#">>
  OBVIOUS
<1>3. l \in named => \E k \in links, n \in Name : l = AtName(k, n)
  OBVIOUS
<1> HIDE DEF bare, named
<1>4. (\E k \in links, n \in Name : l = AtName(k, n)) => \E k \in links, n \in Name : l = k \o <<"#", n>>
  BY Zenon DEF AtName
<1> QED BY <1>1, <1>2, <1>3, <1>4, Zenon

\* However a link is written, it leads to the page's own URL.
LEMMA ExtractIs ==
  ASSUME NEW site \in L!Site, NEW path \in Seq(Name), NEW from \in Seq(Name),
         NEW l \in L!Spellings(site, path)
  PROVE  L!Extract(l, L!UrlOf(site, from)) = {L!UrlOf(site, path)}
<1> DEFINE r == L!Rooted(path)
           s == L!Rooted(from)
           url == L!UrlOf(site, path)
           base == L!UrlOf(site, from)
           plain == {url, url \o <<"/">>} \cup (IF r = <<>> THEN {<<"/">>} ELSE {r, r \o <<"/">>})
<1>1. PathLike(r) /\ PathLike(s) /\ (r = <<>> <=> path = <<>>)
  BY RootedLike
<1>2. url = <<site.scheme, site.host>> \o r /\ base = <<site.scheme, site.host>> \o s
  BY DEF L!UrlOf
<1>0. \A k \in plain : Leads(k, base, url)
  <2> HIDE DEF r, s, url, base
  <2> QED BY <1>1, <1>2, SpellingLeads, Zenon
<1>3. \E link \in plain : \E more : l = link \o more
        /\ (more = <<>> \/ \E n : more = <<"#">> \/ more = <<"#", n>>)
  <2>2. CASE l \in plain
    <3>1. l \in Seq(L!Piece \ {"#"})
      BY <1>0, <2>2, Zenon DEF Leads
    <3>2. l = l \o <<>>
      BY <3>1
    <3> QED BY <2>2, <3>2
  <2>3. CASE \E k \in plain : l = k \o <<"#">>
    BY <2>3, Zenon
  <2>4. CASE \E k \in plain, n \in Name : l = k \o <<"#", n>>
    BY <2>4, Zenon
  <2>5. l \in plain \/ (\E k \in plain : l = k \o <<"#">>) \/ (\E k \in plain, n \in Name : l = k \o <<"#", n>>)
    <3> DEFINE rooted == IF path = <<>> THEN {<<"/">>} ELSE {r, r \o <<"/">>}
               mine == {url, url \o <<"/">>} \cup rooted
    <3>2. rooted = IF r = <<>> THEN {<<"/">>} ELSE {r, r \o <<"/">>}
      BY <1>1, Zenon
    <3>3. mine = plain
      BY <3>2, Zenon
    <3>4. L!Spellings(site, path) = Anchored(mine)
      BY DEF L!Spellings, Anchored, AtName
    <3> HIDE DEF mine, plain
    <3>5. l \in Anchored(plain)
      BY <3>3, <3>4
    <3> QED BY <3>5, AnchoredAre, Zenon
  <2> QED BY <2>2, <2>3, <2>4, <2>5, Zenon
<1>4. PICK link, more : link \in plain /\ l = link \o more
        /\ (more = <<>> \/ \E n : more = <<"#">> \/ more = <<"#", n>>)
  BY <1>3, Zenon
<1>5. /\ link \in Seq(L!Piece \ {"#"}) /\ link # <<>>
      /\ L!Trimmed(L!Absolute(link, base)) = url
  <2> HIDE DEF plain
  <2> QED BY <1>4, <1>0, Zenon DEF Leads
<1>6. L!Unanchored(l) = link
  BY <1>4, <1>5, AnchorOff, Zenon
<1> QED BY <1>5, <1>6, Zenon DEF L!Extract

LEMMA LinksLead ==
  ASSUME NEW site \in L!Site, NEW path \in Seq(Name), NEW from \in Seq(Name)
  PROVE  L!OneUrl(site, path, from)
<1> DEFINE url == L!UrlOf(site, path)
           base == L!UrlOf(site, from)
<1>1. L!Extract(base \o <<"/">>, base) = {base}
  <2>1. base \o <<"/">> \in L!Spellings(site, from)
    BY DEF L!Spellings
  <2> QED BY <2>1, ExtractIs
<1>2. \A l \in L!Spellings(site, path) : L!Extract(l, base) = {url}
  BY ExtractIs
<1>3. /\ L!Parses(url)
      /\ L!Parse(url) = [protocol |-> site.scheme, hostName |-> <<site.host>>,
                         query |-> IF path = <<>> THEN <<"/">> ELSE L!Rooted(path)]
  <2>1. PathLike(L!Rooted(path)) /\ (L!Rooted(path) = <<>> <=> path = <<>>)
    BY RootedLike
  <2>2. url = <<site.scheme, site.host>> \o L!Rooted(path)
    BY DEF L!UrlOf
  <2> HIDE DEF url
  <2> QED BY <2>1, <2>2, ParseIs
<1> HIDE DEF url, base
<1>4. {base} \cup L!Extract(base \o <<"/">>, base) = {base}
  BY <1>1
<1> QED BY <1>2, <1>3, <1>4 DEF L!OneUrl, url, base

\* Utils/URLParser.cpp:27-51: however a link to a page of the site is spelled, and on whichever of
\* its pages it stands, what goes into the queue is the one URL of that page, which parses into its
\* host and its path - for all hosts and names without a slash or a number sign in them, and for
\* paths of every length.
THEOREM UrlsCorrect == Spec => []OneUrlPerPage
<1>1. Looked => OneUrlPerPage
  <2> SUFFICES ASSUME Looked, Is("links") PROVE OneUrlPerPage
    BY DEF OneUrlPerPage
  <2>1. case.site \in L!Site /\ case.from \in Seq(Name) /\ case.to \in Seq(Name)
    BY LinksAre
  <2>2. L!OneUrl(case.site, case.to, case.from)
    BY <2>1, LinksLead, Zenon
  <2>3. \A l \in L!Spellings(case.site, case.to) :
          L!Extract(l, L!UrlOf(case.site, case.from)) = {L!UrlOf(case.site, case.to)}
    BY <2>1, ExtractIs, Zenon
  <2> QED BY <2>2, <2>3 DEF OneUrlPerPage
<1> QED BY <1>1, LookedInit, LookedNext, PTL DEF Spec

-----------------------------------------------------------------------------
(* Texts: sequences of sequences, and where each of them ends.             *)

\* What stands in two sequences, one behind the other.
LEMMA ConcatIs ==
  ASSUME NEW set, NEW x \in Seq(set), NEW y \in Seq(set)
  PROVE  /\ x \o y \in Seq(set) /\ Len(x \o y) = Len(x) + Len(y)
         /\ \A j \in 1..Len(x) : (x \o y)[j] = x[j]
         /\ \A j \in 1..Len(y) : (x \o y)[Len(x) + j] = y[j]
  OBVIOUS

\* A part of a sequence.
LEMMA SubIs ==
  ASSUME NEW set, NEW s \in Seq(set), NEW e \in Nat, NEW w \in Nat, e + w <= Len(s)
  PROVE  SubSeq(s, e + 1, e + w) = [k \in 1..w |-> s[e + k]]
<1>1. DOMAIN SubSeq(s, e + 1, e + w) = 1..w
  <2>1. (e + w) - (e + 1) + 1 = w
    OBVIOUS
  <2>2. SubSeq(s, e + 1, e + w) \in Seq(set) /\ Len(SubSeq(s, e + 1, e + w)) = w
    BY <2>1
  <2> QED BY <2>2
<1>2. \A k \in 1..w : SubSeq(s, e + 1, e + w)[k] = s[e + k]
  <2> TAKE k \in 1..w
  <2>1. (e + 1) + k - 1 = e + k
    OBVIOUS
  <2> QED BY <2>1
<1>3. SubSeq(s, e + 1, e + w) = [k \in DOMAIN SubSeq(s, e + 1, e + w) |-> SubSeq(s, e + 1, e + w)[k]]
  OBVIOUS
<1> QED BY <1>1, <1>2, <1>3

\* Where each of the sequences ends in all of them together.
Joins(flat, seqs, ends) ==
  /\ ends \in [0..Len(seqs) -> Nat] /\ ends[0] = 0 /\ ends[Len(seqs)] = Len(flat)
  /\ \A k \in 1..Len(seqs) :
       /\ ends[k] = ends[k - 1] + Len(seqs[k]) /\ ends[k] <= Len(flat)
       /\ \A j \in 1..Len(seqs[k]) : flat[ends[k - 1] + j] = seqs[k][j]

LEMMA Flattened ==
  ASSUME NEW set, NEW seqs \in Seq(Seq(set))
  PROVE  /\ T!FlattenSeq(seqs) \in Seq(set)
         /\ \E ends : Joins(T!FlattenSeq(seqs), seqs, ends)
<1> DEFINE n == Len(seqs)
           all == T!FlattenSeq(seqs)
<1>0. n \in Nat /\ \A i \in 1..n : seqs[i] \in Seq(set) /\ Len(seqs[i]) \in Nat
  OBVIOUS
<1>1. CASE n = 0
  <2>1. all = <<>> /\ seqs = <<>>
    BY <1>0, <1>1 DEF T!FlattenSeq
  <2> DEFINE ends == [k \in 0..Len(seqs) |-> 0]
  <2>2. Joins(all, seqs, ends)
    BY <2>1 DEF Joins
  <2> QED BY <2>1, <2>2
<1>2. CASE n # 0
  <2> DEFINE Step(f) == f = [i \in 1..n |-> IF i = 1 THEN seqs[i] ELSE f[i - 1] \o seqs[i]]
  <2>1. \E f : Step(f)
    <3>1. n \in Nat \ {0}
      BY <1>0, <1>2
    <3> HIDE DEF n
    <3> QED BY <3>1, FlattenExists, Zenon
  <2>2. PICK f : Step(f) /\ all = f[n]
    <3> HIDE DEF n
    <3> QED BY <1>0, <1>2, <2>1 DEF T!FlattenSeq, n
  <2>3. f[1] = seqs[1]
    BY <1>0, <1>2, <2>2
  <2>4. ASSUME NEW i \in 1..n, i # 1 PROVE f[i] = f[i - 1] \o seqs[i]
    <3> HIDE DEF n
    <3> QED BY <2>2, <2>4, Zenon
  <2> HIDE DEF n, Step
  <2>5. \A k \in Nat : k + 1 \in 1..n => f[k + 1] \in Seq(set)
    <3> DEFINE known == {k \in Nat : k + 1 \in 1..n => f[k + 1] \in Seq(set)}
    <3>1. 0 \in known
      BY <1>0, <1>2, <2>3
    <3>2. ASSUME NEW k \in Nat, k \in known PROVE k + 1 \in known
      <4> SUFFICES ASSUME k + 2 \in 1..n PROVE f[k + 2] \in Seq(set)
        OBVIOUS
      <4>1. f[k + 2] = f[k + 1] \o seqs[k + 2]
        <5>1. k + 2 # 1 /\ (k + 2) - 1 = k + 1
          OBVIOUS
        <5> QED BY <5>1, <2>4
      <4>2. f[k + 1] \in Seq(set) /\ seqs[k + 2] \in Seq(set)
        BY <3>2, <1>0
      <4> QED BY <4>1, <4>2
    <3> HIDE DEF known
    <3>3. Nat \subseteq known
      BY <3>1, <3>2, NatSet
    <3> QED BY <3>3 DEF known
  <2>6. \A i \in 1..n : f[i] \in Seq(set) /\ Len(f[i]) \in Nat
    <3> TAKE i \in 1..n
    <3>1. i - 1 \in Nat /\ (i - 1) + 1 = i
      BY <1>0
    <3>2. f[(i - 1) + 1] \in Seq(set)
      BY <2>5, <3>1
    <3>3. f[i] \in Seq(set)
      BY <3>1, <3>2
    <3> QED BY <3>3
  <2> DEFINE ends == [k \in 0..n |-> IF k = 0 THEN 0 ELSE Len(f[k])]
  <2>7. ends \in [0..n -> Nat] /\ ends[0] = 0 /\ ends[n] = Len(all)
    BY <1>0, <1>2, <2>2, <2>6
  <2>8. ASSUME NEW k \in 1..n
        PROVE  /\ ends[k] = ends[k - 1] + Len(seqs[k]) /\ ends[k] = Len(f[k])
               /\ \A j \in 1..Len(seqs[k]) : f[k][ends[k - 1] + j] = seqs[k][j]
    <3>1. CASE k = 1
      BY <3>1, <1>0, <2>3
    <3>2. CASE k # 1
      <4>1. k - 1 \in 1..n /\ k - 1 # 0 /\ k - 1 \in 0..n /\ k \in 0..n /\ k # 0
        BY <3>2, <1>0
      <4>2. f[k] = f[k - 1] \o seqs[k]
        BY <3>2, <2>4
      <4>3. /\ f[k - 1] \in Seq(set) /\ seqs[k] \in Seq(set) /\ Len(f[k - 1]) \in Nat
            /\ Len(seqs[k]) \in Nat
        BY <4>1, <2>6, <1>0
      <4>4. ends[k - 1] = Len(f[k - 1]) /\ ends[k] = Len(f[k])
        BY <4>1
      <4> HIDE DEF ends
      <4>5. Len(f[k]) = Len(f[k - 1]) + Len(seqs[k])
            /\ \A j \in 1..Len(seqs[k]) : f[k][Len(f[k - 1]) + j] = seqs[k][j]
        <5>1. PICK x \in Seq(set), y \in Seq(set), z \in {f[k]} :
                x = f[k - 1] /\ y = seqs[k] /\ z = f[k] /\ z = x \o y
          BY <4>2, <4>3, Zenon
        <5>3. x \in Seq(set) /\ y \in Seq(set)
          OBVIOUS
        <5>0. Len(x \o y) = Len(x) + Len(y) /\ \A j \in 1..Len(y) : (x \o y)[Len(x) + j] = y[j]
          BY ONLY <5>3
        <5>2. Len(z) = Len(x) + Len(y) /\ \A j \in 1..Len(y) : z[Len(x) + j] = y[j]
          BY <5>0, <5>1, Zenon
        <5> QED BY <5>1, <5>2, Zenon
      <4> QED BY <4>4, <4>5
    <3> QED BY <3>1, <3>2
  <2> HIDE DEF ends
  \* What stands in the first of them stays there.
  <2>9. \A d \in Nat : \A k \in 1..n : k + d <= n =>
          /\ Len(f[k]) <= Len(f[k + d]) /\ \A j \in 1..Len(f[k]) : f[k + d][j] = f[k][j]
    <3> DEFINE known == {d \in Nat : \A k \in 1..n : k + d <= n =>
          /\ Len(f[k]) <= Len(f[k + d]) /\ \A j \in 1..Len(f[k]) : f[k + d][j] = f[k][j]}
    <3>1. 0 \in known
      BY <2>6, <1>0
    <3>2. ASSUME NEW d \in Nat, d \in known PROVE d + 1 \in known
      <4> SUFFICES ASSUME NEW k \in 1..n, k + (d + 1) <= n
                   PROVE  /\ Len(f[k]) <= Len(f[k + (d + 1)])
                          /\ \A j \in 1..Len(f[k]) : f[k + (d + 1)][j] = f[k][j]
        OBVIOUS
      <4>1. /\ k + d <= n /\ k + d \in 1..n /\ k + (d + 1) \in 1..n /\ k + (d + 1) # 1
            /\ (k + (d + 1)) - 1 = k + d
        BY <1>0
      <4>2. f[k + (d + 1)] = f[k + d] \o seqs[k + (d + 1)]
        BY <4>1, <2>4
      <4>3. Len(f[k]) <= Len(f[k + d]) /\ \A j \in 1..Len(f[k]) : f[k + d][j] = f[k][j]
        BY <3>2, <4>1
      <4>4. f[k + d] \in Seq(set) /\ seqs[k + (d + 1)] \in Seq(set) /\ Len(f[k]) \in Nat
        BY <4>1, <2>6, <1>0
      <4>5. /\ Len(f[k + d]) <= Len(f[k + (d + 1)])
            /\ \A j \in 1..Len(f[k + d]) : f[k + (d + 1)][j] = f[k + d][j]
        <5>1. PICK x \in Seq(set), y \in Seq(set), z \in {f[k + (d + 1)]} :
                x = f[k + d] /\ y = seqs[k + (d + 1)] /\ z = f[k + (d + 1)] /\ z = x \o y
          BY <4>2, <4>4, Zenon
        <5>0. Len(x \o y) = Len(x) + Len(y) /\ \A j \in 1..Len(x) : (x \o y)[j] = x[j]
          BY ONLY ConcatIs, Zenon
        <5>3. Len(z) = Len(x) + Len(y) /\ \A j \in 1..Len(x) : z[j] = x[j]
          BY <5>0, <5>1, Zenon
        <5>4. Len(x) \in Nat /\ Len(y) \in Nat
          OBVIOUS
        <5>2. Len(x) <= Len(z) /\ \A j \in 1..Len(x) : z[j] = x[j]
          BY ONLY <5>3, <5>4
        <5> QED BY <5>1, <5>2, Zenon
      <4>6. Len(f[k + d]) \in Nat /\ Len(f[k + (d + 1)]) \in Nat
        BY <4>1, <2>6
      <4> QED BY <4>3, <4>4, <4>5, <4>6
    <3> HIDE DEF known
    <3>3. Nat \subseteq known
      BY <3>1, <3>2, NatSet
    <3> QED BY <3>3 DEF known
  <2>10. ASSUME NEW k \in 1..n
         PROVE  Len(f[k]) <= Len(all) /\ \A j \in 1..Len(f[k]) : all[j] = f[k][j]
    <3>1. n - k \in Nat /\ k + (n - k) = n /\ k + (n - k) <= n
      BY <1>0
    <3>2. /\ Len(f[k]) <= Len(f[k + (n - k)])
          /\ \A j \in 1..Len(f[k]) : f[k + (n - k)][j] = f[k][j]
      BY <2>9, <3>1
    <3> QED BY <3>1, <3>2, <2>2
  <2>11. Joins(all, seqs, ends)
    <3>1. ASSUME NEW k \in 1..n, NEW j \in 1..Len(seqs[k]) PROVE all[ends[k - 1] + j] = seqs[k][j]
      <4>1. ends[k - 1] \in Nat /\ Len(seqs[k]) \in Nat
        BY <1>0, <2>7
      <4>2. ends[k - 1] + j \in 1..Len(f[k])
        BY <4>1, <2>8
      <4> QED BY <4>2, <2>8, <2>10
    <3>2. \A k \in 1..n : ends[k] <= Len(all)
      BY <2>8, <2>10
    <3> QED BY <2>7, <2>8, <3>1, <3>2 DEF Joins, n
  <2> QED BY <2>2, <2>5, <2>6, <2>11, <1>0, <1>2
<1> QED BY <1>1, <1>2

-----------------------------------------------------------------------------
\* A text that is read item by item: what stands at a place, and how wide it is.
ReadsOff(f, n, m, item, width) ==
  f = [i \in 1..m |-> IF i > n THEN <<>> ELSE <<item[i]>> \o f[i + width[i]]]

LEMMA ReadExists ==
  ASSUME NEW n \in Nat, NEW m \in Nat, NEW item, NEW width,
         \A i \in 1..n : width[i] \in Nat \ {0} /\ i + width[i] <= m
  PROVE  \E f : ReadsOff(f, n, m, item, width)
<1> DEFINE Item(f, i) == IF i > n THEN <<>> ELSE <<item[i]>> \o f[i + width[i]]
           Upto(f, k) == f = [i \in 1..m |-> f[i]] /\ \A i \in 1..m : i > n - k => f[i] = Item(f, i)
           good == {k \in Nat : \E f : Upto(f, k)}
<1>1. 0 \in good
  <2> DEFINE f == [i \in 1..m |-> <<>>]
  <2>1. Upto(f, 0)
    OBVIOUS
  <2> HIDE DEF f, Upto
  <2> QED BY <2>1
<1>2. ASSUME NEW k \in Nat, k \in good PROVE k + 1 \in good
  <2>1. PICK f : Upto(f, k)
    BY <1>2
  <2> DEFINE h == [i \in 1..m |-> IF i = n - k THEN Item(f, i) ELSE f[i]]
  <2>2. ASSUME NEW i \in 1..m, i > n - (k + 1) PROVE h[i] = Item(h, i)
    <3>1. CASE i > n
      <4>1. i # n - k /\ i > n - k
        BY <3>1
      <4> QED BY <3>1, <4>1, <2>1
    <3>2. CASE i <= n
      <4>1. i \in 1..n /\ i + width[i] \in 1..m /\ i + width[i] > n - k /\ i + width[i] # n - k
        BY <2>2, <3>2
      <4>2. h[i + width[i]] = f[i + width[i]]
        BY <4>1
      <4>3. h[i] = Item(f, i)
        <5>1. CASE i = n - k
          BY <5>1
        <5>2. CASE i # n - k
          <6>1. i > n - k
            BY <2>2, <5>2
          <6> QED BY <5>2, <6>1, <2>1
        <5> QED BY <5>1, <5>2
      <4>4. Item(f, i) = Item(h, i)
        <5> HIDE DEF h
        <5> QED BY <4>2
      <4> HIDE DEF h, Item
      <4> QED BY <4>3, <4>4
    <3> QED BY <3>1, <3>2
  <2>3. h = [i \in 1..m |-> h[i]]
    OBVIOUS
  <2> HIDE DEF h, Item
  <2>4. Upto(h, k + 1)
    BY <2>2, <2>3
  <2> HIDE DEF Upto
  <2> QED BY <2>4
<1> HIDE DEF good
<1>3. n \in good
  BY <1>1, <1>2, NatSet
<1>4. PICK f : Upto(f, n)
  BY <1>3 DEF good
<1>5. \A i \in 1..m : f[i] = Item(f, i)
  <2> HIDE DEF Item
  <2> QED BY <1>4
<1>6. f = [i \in 1..m |-> Item(f, i)]
  <2> HIDE DEF Item
  <2>1. f = [i \in 1..m |-> f[i]]
    BY <1>4
  <2> QED BY <1>5, <2>1
<1> QED BY <1>6 DEF ReadsOff

\* Each item begins where the one before it ends.
Matches(letters, n, item, width, ends) ==
  /\ ends[0] = 0 /\ ends[Len(letters)] = n
  /\ \A j \in 1..Len(letters) :
       /\ ends[j - 1] \in Nat /\ ends[j] \in Nat /\ ends[j - 1] + 1 <= n
       /\ item[ends[j - 1] + 1] = letters[j]
       /\ width[ends[j - 1] + 1] = ends[j] - ends[j - 1]

\* When each item begins where the one before it ends, it is what the text was made of.
LEMMA ReadsBack ==
  ASSUME NEW set, NEW letters \in Seq(set), NEW n \in Nat, NEW m \in Nat, n < m,
         NEW item, NEW width, NEW f, ReadsOff(f, n, m, item, width),
         NEW ends, Matches(letters, n, item, width, ends)
  PROVE  f[1] = letters
<1> DEFINE l == Len(letters)
           back(k) == SubSeq(letters, l - k + 1, l)
           known == {k \in Nat : k <= l => f[ends[l - k] + 1] = back(k)}
<1>0. l \in Nat /\ \A j \in 1..l : letters[j] \in set
  OBVIOUS
<1>5. ends[l] = n /\ ends[0] = 0
  BY DEF Matches
<1>1. 0 \in known
  <2>1. back(0) = <<>> /\ l - 0 = l
    BY <1>0
  <2>2. n + 1 \in 1..m /\ n + 1 > n
    OBVIOUS
  <2>3. f[n + 1] = <<>>
    BY <2>2 DEF ReadsOff
  <2> HIDE DEF back, l
  <2> QED BY <1>5, <2>1, <2>3
<1>2. ASSUME NEW k \in Nat, k \in known PROVE k + 1 \in known
  <2> SUFFICES ASSUME k + 1 <= l PROVE f[ends[l - (k + 1)] + 1] = back(k + 1)
    OBVIOUS
  <2> DEFINE j == l - k
             i == ends[j - 1] + 1
  <2>1. j \in 1..l /\ l - (k + 1) = j - 1 /\ k <= l
    BY <1>0
  <2>2. /\ i \in 1..n /\ i \in 1..m /\ ~(i > n) /\ item[i] = letters[j] /\ i + width[i] = ends[j] + 1
    <3> HIDE DEF j
    <3>1. /\ ends[j - 1] \in Nat /\ i <= n /\ item[i] = letters[j]
          /\ width[i] = ends[j] - ends[j - 1] /\ ends[j] \in Nat
      BY <2>1 DEF Matches
    <3> QED BY <3>1
  <2>3. f[i] = <<item[i]>> \o f[i + width[i]]
    <3> HIDE DEF i
    <3> QED BY <2>2 DEF ReadsOff
  <2>4. f[ends[j] + 1] = back(k)
    BY <1>2, <2>1
  <2>5. <<letters[j]>> \o back(k) = back(k + 1)
    <3>1. l - (k + 1) + 1 = j /\ l - k + 1 = j + 1
      BY <1>0
    <3>2. <<letters[j]>> \o SubSeq(letters, j + 1, l) = SubSeq(letters, j, l)
      <4> HIDE DEF j
      <4> QED BY <1>0, <2>1
    <3> HIDE DEF j
    <3> QED BY <3>1, <3>2
  <2> HIDE DEF i, back
  <2>6. f[i] = back(k + 1)
    BY <2>2, <2>3, <2>4, <2>5
  <2> QED BY <2>1, <2>6 DEF i
<1>3. l \in known
  <2> HIDE DEF known
  <2> QED BY <1>0, <1>1, <1>2, NatSet
<1>4. back(l) = letters /\ l - l = 0
  BY <1>0
<1> HIDE DEF back, l
<1> QED BY <1>0, <1>3, <1>4, <1>5

-----------------------------------------------------------------------------
(* Words of the index, and the form they are sent in.                      *)

\* The characters of such a word, as it stands in the index and in capitals.
Indexed == {"a", "ya", "han", "_", "-"}
Typed == Indexed \cup {"A", "Ya"}
Octet == {"a", "A", "_", "-", "D1", "8F", "D0", "AF", "E4", "B8", "AD"}

LEMMA Utf8Is ==
  /\ \A c \in T!Char : /\ Len(T!Utf8(c)) \in 1..3
                       /\ \A d \in T!Char : T!Utf8(c)[1] = T!Utf8(d)[1] => c = d
  /\ \A c \in Typed : c \in T!Char /\ T!Utf8(c) \in Seq(Octet)
<1>1. ASSUME NEW c \in T!Char
      PROVE  \/ c = "ya" /\ T!Utf8(c) = <<"D1", "8F">>
             \/ c = "Ya" /\ T!Utf8(c) = <<"D0", "AF">>
             \/ c = "han" /\ T!Utf8(c) = <<"E4", "B8", "AD">>
             \/ c \notin {"ya", "Ya", "han"} /\ T!Utf8(c) = <<c>>
  BY DEF T!Utf8
<1>2. \A c \in T!Char : c \notin {"D1", "D0", "E4"}
  BY DEF T!Char, T!WordChar, T!Letter, T!Latin
<1>3. Typed \subseteq T!Char
  BY DEF Typed, Indexed, T!Char, T!WordChar, T!Letter, T!Latin
<1>4. ASSUME NEW c \in T!Char
      PROVE  /\ Len(T!Utf8(c)) \in 1..3
             /\ T!Utf8(c)[1] = (IF c = "ya" THEN "D1" ELSE IF c = "Ya" THEN "D0"
                                ELSE IF c = "han" THEN "E4" ELSE c)
  BY <1>1
<1>5. ASSUME NEW c \in T!Char, NEW d \in T!Char, T!Utf8(c)[1] = T!Utf8(d)[1] PROVE c = d
  BY <1>2, <1>4, <1>5
<1>6. ASSUME NEW c \in Typed PROVE T!Utf8(c) \in Seq(Octet)
  <2>1. CASE c \in {"ya", "Ya", "han"}
    <3>1. <<"D1", "8F">> \in Seq(Octet) /\ <<"D0", "AF">> \in Seq(Octet)
          /\ <<"E4", "B8", "AD">> \in Seq(Octet)
      BY DEF Octet
    <3>2. c \in T!Char
      BY <1>3
    <3> QED BY <1>1, <2>1, <3>1, <3>2, Zenon
  <2>2. CASE c \notin {"ya", "Ya", "han"}
    <3>1. c \in Octet
      BY <2>2 DEF Typed, Indexed, Octet
    <3>2. T!Utf8(c) = <<c>>
      BY <1>1, <1>3, <2>2
    <3>3. <<c>> \in Seq(Octet)
      BY <3>1
    <3> QED BY <3>2, <3>3
  <2> QED BY <2>1, <2>2
<1> QED BY <1>3, <1>4, <1>5, <1>6

LEMMA SentIs ==
  ASSUME NEW b \in Octet
  PROVE  \/ b \notin {"%", "+"} /\ T!Sent(b) = <<b>>
         \/ /\ b \in T!Escaped /\ T!Hex(b) = <<T!Hex(b)[1], T!Hex(b)[2]>>
            /\ {T!Hex(b)[1], T!Hex(b)[2]} \subseteq T!HexDigit
            /\ T!Sent(b) = <<"%", T!Hex(b)[1], T!Hex(b)[2]>>
            /\ \A d \in T!Escaped : T!Hex(d) = T!Hex(b) => d = b
<1>1. CASE b \in T!Safe
  BY <1>1 DEF T!Safe, T!Sent
<1>2. CASE b \notin T!Safe
  <2>1. b \in T!Escaped /\ b # " "
    BY <1>2 DEF Octet, T!Safe, T!Escaped
  <2> DEFINE One(d) == CASE d = "'" -> "2" [] d = "<" -> "3" [] d = ">" -> "3" [] d = "D1" -> "D"
                         [] d = "8F" -> "8" [] d = "D0" -> "D" [] d = "AF" -> "A" [] d = "E4" -> "E"
                         [] d = "B8" -> "B" [] d = "AD" -> "A"
             Two(d) == CASE d = "'" -> "7" [] d = "<" -> "C" [] d = ">" -> "E" [] d = "D1" -> "1"
                         [] d = "8F" -> "F" [] d = "D0" -> "0" [] d = "AF" -> "F" [] d = "E4" -> "4"
                         [] d = "B8" -> "8" [] d = "AD" -> "D"
  <2>2. \A d \in T!Escaped : T!Hex(d) = <<One(d), Two(d)>>
    BY DEF T!Escaped, T!Hex
  <2>3. \A d \in T!Escaped : One(d) = One(b) /\ Two(d) = Two(b) => d = b
    BY <2>1 DEF T!Escaped
  <2> HIDE DEF One, Two
  <2>4. \A d \in T!Escaped : T!Hex(d)[1] = One(d) /\ T!Hex(d)[2] = Two(d)
    BY <2>2
  <2>5. T!Range(T!Hex(b)) = {One(b), Two(b)}
    <3>1. \A x, y : T!Range(<<x, y>>) = {x, y}
      <4> TAKE x, y
      <4>1. DOMAIN <<x, y>> = {1, 2}
        OBVIOUS
      <4> QED BY <4>1 DEF T!Range
    <3> QED BY <2>1, <2>2, <3>1
  <2>6. {One(b), Two(b)} \subseteq T!HexDigit
    BY <2>1, <2>5 DEF T!HexDigit
  <2>7. T!Sent(b) = <<"%">> \o T!Hex(b)
    BY <1>2, <2>1 DEF T!Sent
  <2>8. T!Sent(b) = <<"%", One(b), Two(b)>>
    <3>1. \A x, y : <<"%">> \o <<x, y>> = <<"%", x, y>>
      <4> TAKE x, y
      <4> DEFINE c == <<"%">> \o <<x, y>>
      <4>1. <<"%">> \in Seq({"%", x, y}) /\ <<x, y>> \in Seq({"%", x, y})
        OBVIOUS
      <4>2. c \in Seq({"%", x, y}) /\ Len(c) = 3 /\ c[1] = "%" /\ c[2] = x /\ c[3] = y
        BY <4>1
      <4> HIDE DEF c
      <4>3. c = <<"%", x, y>>
        BY <4>2
      <4> QED BY <4>3 DEF c
    <3> QED BY <2>1, <2>2, <2>7, <3>1
  <2> QED BY <2>1, <2>2, <2>3, <2>4, <2>6, <2>8
<1> QED BY <1>1, <1>2

\* A text in bytes is read back, character by character.
LEMMA BytesRead ==
  ASSUME NEW t \in Seq(Typed)
  PROVE  T!ToBytes(t) \in Seq(Octet) /\ T!FromBytes(T!ToBytes(t)) = t
<1> DEFINE b == T!ToBytes(t)
           n == Len(b)
           m == n + 3
           seqs == [i \in DOMAIN t |-> T!Utf8(t[i])]
           fits(c, i) == LET u == T!Utf8(c) IN i + Len(u) <= n + 1 /\ SubSeq(b, i, i + Len(u) - 1) = u
           char(i) == CHOOSE c \in T!Char : fits(c, i)
           item == [i \in 1..n |-> char(i)]
           width == [i \in 1..n |-> Len(T!Utf8(char(i)))]
<1>0. Len(t) \in Nat /\ DOMAIN t = 1..Len(t) /\ \A i \in 1..Len(t) : t[i] \in Typed /\ t[i] \in T!Char
  BY Utf8Is
<1>1. /\ seqs \in Seq(Seq(Octet)) /\ Len(seqs) = Len(t)
      /\ \A i \in 1..Len(t) : seqs[i] = T!Utf8(t[i]) /\ Len(seqs[i]) \in 1..3
  BY <1>0, Utf8Is
<1>2. b = T!FlattenSeq(seqs)
  BY DEF T!ToBytes
<1>3. b \in Seq(Octet) /\ n \in Nat /\ m \in Nat
  <2> HIDE DEF b, seqs
  <2> QED BY <1>1, <1>2, Flattened
<1>4. PICK ends : Joins(b, seqs, ends)
  <2> HIDE DEF b, seqs
  <2> QED BY <1>1, <1>2, Flattened
<1>5. \A i \in 1..n : width[i] \in Nat \ {0} /\ i + width[i] <= m
  <2> TAKE i \in 1..n
  <2>1. T!Utf8(char(i)) \in {<<"D1", "8F">>, <<"D0", "AF">>, <<"E4", "B8", "AD">>, <<char(i)>>}
    <3> HIDE DEF char
    <3> QED BY DEF T!Utf8
  <2>2. Len(T!Utf8(char(i))) \in 1..3
    <3> HIDE DEF char
    <3>1. \A x : Len(<<x>>) = 1
      OBVIOUS
    <3> QED BY <2>1, <3>1
  <2>3. width[i] = Len(T!Utf8(char(i)))
    <3> HIDE DEF char
    <3> QED OBVIOUS
  <2> HIDE DEF char, width
  <2>4. PICK w \in 1..3 : width[i] = w
    BY <2>2, <2>3
  <2>5. w \in Nat \ {0} /\ i + w <= m
    BY <1>3
  <2> QED BY <2>4, <2>5
<1>6. T!FromBytes(b) = (CHOOSE f : ReadsOff(f, n, m, item, width))[1]
  <2>1. ASSUME NEW f
        PROVE  f = [i \in 1..m |-> IF i > n THEN <<>>
                                   ELSE LET c == char(i) IN <<c>> \o f[i + Len(T!Utf8(c))]]
               <=> ReadsOff(f, n, m, item, width)
    <3>1. ASSUME NEW i \in 1..m
          PROVE  (IF i > n THEN <<>> ELSE LET c == char(i) IN <<c>> \o f[i + Len(T!Utf8(c))])
                 = IF i > n THEN <<>> ELSE <<item[i]>> \o f[i + width[i]]
      <4>1. CASE i > n
        BY <4>1
      <4>2. CASE ~(i > n)
        <5>1. i \in 1..n
          BY <1>3, <4>2
        <5>2. item[i] = char(i) /\ width[i] = Len(T!Utf8(char(i)))
          BY <5>1
        <5> HIDE DEF char, item, width
        <5> QED BY <5>2
      <4> QED BY <4>1, <4>2
    <3> HIDE DEF char, item, width, n, m
    <3> QED BY <3>1 DEF ReadsOff
  <2> DEFINE g == CHOOSE f : f = [i \in 1..m |-> IF i > n THEN <<>>
                                   ELSE LET c == char(i) IN <<c>> \o f[i + Len(T!Utf8(c))]]
  <2>2. T!FromBytes(b) = g[1]
    BY Zenon DEF T!FromBytes
  <2>3. g = CHOOSE f : ReadsOff(f, n, m, item, width)
    <3> HIDE DEF char, item, width, n, m
    <3> QED BY <2>1
  <2> HIDE DEF g
  <2> QED BY <2>2, <2>3, Zenon
<1>7. PICK f : ReadsOff(f, n, m, item, width) /\ T!FromBytes(b) = f[1]
  <2>1. \E f : ReadsOff(f, n, m, item, width)
    <3> HIDE DEF item, width, n, m
    <3> QED BY <1>3, <1>5, ReadExists
  <2> HIDE DEF item, width, n, m
  <2> QED BY <1>6, <2>1, Zenon
<1>8. /\ ends[0] = 0 /\ ends[Len(t)] = n
      /\ \A j \in 1..Len(t) :
           /\ ends[j - 1] \in Nat /\ ends[j] \in Nat /\ ends[j] = ends[j - 1] + Len(seqs[j]) /\ ends[j] <= n
           /\ \A k \in 1..Len(seqs[j]) : b[ends[j - 1] + k] = seqs[j][k]
  <2>1. \A j \in 1..Len(t) : j \in 0..Len(t) /\ j - 1 \in 0..Len(t)
    BY <1>0
  <2> HIDE DEF seqs, b
  <2> QED BY <1>1, <1>4, <2>1 DEF Joins
<1>9. ASSUME NEW j \in 1..Len(t)
      PROVE  /\ ends[j - 1] + 1 <= n
             /\ item[ends[j - 1] + 1] = t[j] /\ width[ends[j - 1] + 1] = ends[j] - ends[j - 1]
  <2> DEFINE i == ends[j - 1] + 1
             u == T!Utf8(t[j])
  <2>1. /\ t[j] \in T!Char /\ seqs[j] = u /\ Len(u) \in 1..3 /\ ends[j - 1] \in Nat
        /\ ends[j] = ends[j - 1] + Len(u) /\ ends[j] <= n
        /\ \A k \in 1..Len(u) : b[ends[j - 1] + k] = u[k]
    <3> HIDE DEF seqs, b
    <3> QED BY <1>0, <1>1, <1>8
  <2>2. i \in 1..n /\ i + Len(u) <= n + 1
    <3>1. PICK e0, e1, w : e0 = ends[j - 1] /\ e1 = ends[j] /\ w = Len(u)
      OBVIOUS
    <3>2. e0 \in Nat /\ w \in 1..3 /\ e1 = e0 + w /\ e1 <= n /\ i = e0 + 1
      <4> HIDE DEF n, u
      <4> QED BY <2>1, <3>1, Zenon
    <3>3. i \in 1..n /\ i + w <= n + 1
      <4> HIDE DEF i, n, u
      <4> QED BY <1>3, <3>2
    <3> HIDE DEF i, n, u
    <3> QED BY <3>1, <3>3, Zenon
  <2>3. u \in Seq(Octet)
    BY <1>0, Utf8Is
  <2>4. SubSeq(b, i, i + Len(u) - 1) = u
    <3>1. SubSeq(b, i, i + Len(u) - 1) = [k \in 1..Len(u) |-> b[ends[j - 1] + k]]
      <4>1. PICK w \in 1..3, e0 \in Nat : w = Len(u) /\ e0 = ends[j - 1]
        BY <2>1, Zenon
      <4>2. i = e0 + 1 /\ i + w <= n + 1 /\ e0 + w <= n
        BY <1>3, <2>2, <4>1
      <4>3. SubSeq(b, e0 + 1, e0 + 1 + w - 1) = [k \in 1..w |-> b[e0 + k]]
        <5>1. w \in Nat /\ (e0 + 1) + w - 1 = e0 + w
          BY <4>1
        <5>2. b \in Seq(Octet) /\ e0 + w <= Len(b)
          BY <1>3, <4>2
        <5> HIDE DEF b, u, i
        <5>4. \A s \in Seq(Octet), e, x \in Nat :
                e + x <= Len(s) => SubSeq(s, e + 1, e + x) = [k \in 1..x |-> s[e + k]]
          BY SubIs, Zenon
        <5>5. e0 \in Nat
          OBVIOUS
        <5>3. SubSeq(b, e0 + 1, e0 + w) = [k \in 1..w |-> b[e0 + k]]
          BY <5>1, <5>2, <5>4, <5>5, Zenon
        <5> QED BY <5>1, <5>3, Zenon
      <4> QED BY <4>1, <4>2, <4>3, Zenon
    <3>2. u = [k \in 1..Len(u) |-> u[k]]
      <4> HIDE DEF u
      <4> QED BY <2>3
    <3> HIDE DEF b, u
    <3> QED BY <2>1, <3>1, <3>2
  <2>5. fits(t[j], i)
    <3> HIDE DEF b, i
    <3> QED BY <2>2, <2>4
  <2>6. ASSUME NEW c \in T!Char, fits(c, i) PROVE c = t[j]
    <3> DEFINE v == T!Utf8(c)
    <3>1. Len(v) \in 1..3 /\ i + Len(v) <= n + 1 /\ SubSeq(b, i, i + Len(v) - 1) = v
      <4> HIDE DEF i, b
      <4> QED BY <2>6, Utf8Is
    <3>2. SubSeq(b, i, i + Len(v) - 1)[1] = b[i]
      <4> HIDE DEF i, b, v
      <4> QED BY <1>3, <2>2, <3>1
    <3>3. b[i] = u[1]
      <4> HIDE DEF b, u
      <4> QED BY <2>1
    <3>4. T!Utf8(c)[1] = T!Utf8(t[j])[1]
      BY <3>1, <3>2, <3>3
    <3> QED BY <2>1, <3>4, Utf8Is
  <2>7. char(i) = t[j]
    <3> HIDE DEF fits, i
    <3> QED BY <2>1, <2>5, <2>6
  <2>8. item[i] = char(i) /\ width[i] = Len(T!Utf8(char(i)))
    <3> HIDE DEF char, i
    <3> QED BY <2>2
  <2> HIDE DEF item, width, char, n
  <2> QED BY <2>1, <2>2, <2>7, <2>8
<1>10. f[1] = t
  <2>1. n < m
    BY <1>3
  <2>2. Matches(t, n, item, width, ends)
    <3> HIDE DEF item, width, n, m, seqs
    <3> QED BY <1>8, <1>9, Zenon DEF Matches
  <2> HIDE DEF item, width, n, m
  <2> QED BY <1>3, <1>7, <2>1, <2>2, ReadsBack, Zenon
<1> QED BY <1>3, <1>7, <1>10

\* What a browser has sent of bytes is decoded to the same bytes.
LEMMA FormRead ==
  ASSUME NEW b \in Seq(Octet)
  PROVE  T!URLDecode(T!FlattenSeq([i \in DOMAIN b |-> T!Sent(b[i])])) = b
<1> DEFINE seqs == [i \in DOMAIN b |-> T!Sent(b[i])]
           e == T!FlattenSeq(seqs)
           n == Len(e)
           m == n + 1
           hex(i) == CHOOSE d \in T!Escaped : T!Hex(d) = <<e[i + 1], e[i + 2]>>
           one(i) == IF e[i] = "+" THEN " " ELSE e[i]
           item == [i \in 1..n |-> IF T!IsEscape(e, i) THEN hex(i) ELSE one(i)]
           width == [i \in 1..n |-> IF T!IsEscape(e, i) THEN 3 ELSE 1]
           Sign == Octet \cup {"%"} \cup T!HexDigit
<1>0. Len(b) \in Nat /\ DOMAIN b = 1..Len(b) /\ \A i \in 1..Len(b) : b[i] \in Octet
  OBVIOUS
<1>1. /\ seqs \in Seq(Seq(Sign)) /\ Len(seqs) = Len(b)
      /\ \A i \in 1..Len(b) : seqs[i] = T!Sent(b[i])
  <2>1. ASSUME NEW c \in Octet PROVE T!Sent(c) \in Seq(Sign)
    <3>1. PICK x, y : \/ T!Sent(c) = <<c>>
                      \/ {x, y} \subseteq T!HexDigit /\ T!Sent(c) = <<"%", x, y>>
      BY SentIs, Zenon
    <3>2. <<c>> \in Seq(Sign) /\ ({x, y} \subseteq T!HexDigit => <<"%", x, y>> \in Seq(Sign))
      OBVIOUS
    <3> QED BY <3>1, <3>2, Zenon
  <2> HIDE DEF Sign
  <2> QED BY <1>0, <2>1
<1>3. e \in Seq(Sign) /\ n \in Nat /\ m \in Nat
  <2>1. e \in Seq(Sign)
    <3> HIDE DEF seqs, Sign
    <3> QED BY <1>1, Flattened
  <2> HIDE DEF e, Sign
  <2> QED BY <2>1
<1>4. PICK ends : Joins(e, seqs, ends)
  <2> HIDE DEF seqs, Sign
  <2> QED BY <1>1, Flattened
<1>5. \A i \in 1..n : width[i] \in Nat \ {0} /\ i + width[i] <= m
  <2> TAKE i \in 1..n
  <2>1. T!IsEscape(e, i) => i + 2 <= n
    BY DEF T!IsEscape
  <2> HIDE DEF e
  <2> QED BY <1>3, <2>1
<1>6. T!URLDecode(e) = (CHOOSE f : ReadsOff(f, n, m, item, width))[1]
  <2> DEFINE Step(f, i) == IF i > n THEN <<>>
                           ELSE IF T!IsEscape(e, i) THEN <<hex(i)>> \o f[i + 3]
                           ELSE <<one(i)>> \o f[i + 1]
  <2>1. ASSUME NEW f
        PROVE  f = [i \in 1..m |-> Step(f, i)] <=> ReadsOff(f, n, m, item, width)
    <3>1. ASSUME NEW i \in 1..m
          PROVE  Step(f, i) = IF i > n THEN <<>> ELSE <<item[i]>> \o f[i + width[i]]
      <4>1. CASE i > n
        BY <4>1
      <4>2. CASE ~(i > n)
        <5>1. i \in 1..n
          BY <1>3, <4>2
        <5>2. IF T!IsEscape(e, i) THEN item[i] = hex(i) /\ width[i] = 3 ELSE item[i] = one(i) /\ width[i] = 1
          BY <5>1
        <5> HIDE DEF hex, one, item, width, n, e
        <5>3. CASE T!IsEscape(e, i)
          BY <4>2, <5>2, <5>3
        <5>4. CASE ~T!IsEscape(e, i)
          BY <4>2, <5>2, <5>4
        <5> QED BY <5>3, <5>4
      <4> HIDE DEF Step, item, width, n
      <4> QED BY <4>1, <4>2
    <3> HIDE DEF Step, item, width, n, m
    <3> QED BY <3>1 DEF ReadsOff
  <2> DEFINE g == CHOOSE f : f = [i \in 1..m |-> Step(f, i)]
  <2>2. T!URLDecode(e) = g[1]
    BY Zenon DEF T!URLDecode
  <2>3. g = CHOOSE f : ReadsOff(f, n, m, item, width)
    <3> HIDE DEF Step, item, width, n, m
    <3> QED BY <2>1
  <2> HIDE DEF g
  <2> QED BY <2>2, <2>3, Zenon
<1>7. PICK f : ReadsOff(f, n, m, item, width) /\ T!URLDecode(e) = f[1]
  <2>1. \E f : ReadsOff(f, n, m, item, width)
    <3> HIDE DEF item, width, n, m
    <3> QED BY <1>3, <1>5, ReadExists
  <2> HIDE DEF item, width, n, m
  <2> QED BY <1>6, <2>1, Zenon
<1>8. /\ ends[0] = 0 /\ ends[Len(b)] = n
      /\ \A j \in 1..Len(b) :
           /\ ends[j - 1] \in Nat /\ ends[j] \in Nat /\ ends[j] = ends[j - 1] + Len(seqs[j]) /\ ends[j] <= n
           /\ \A k \in 1..Len(seqs[j]) : e[ends[j - 1] + k] = seqs[j][k]
  <2>1. \A j \in 1..Len(b) : j \in 0..Len(b) /\ j - 1 \in 0..Len(b)
    BY <1>0
  <2> HIDE DEF seqs, e
  <2> QED BY <1>1, <1>4, <2>1 DEF Joins
<1>9. ASSUME NEW j \in 1..Len(b)
      PROVE  /\ ends[j - 1] + 1 <= n
             /\ item[ends[j - 1] + 1] = b[j] /\ width[ends[j - 1] + 1] = ends[j] - ends[j - 1]
  <2> DEFINE u == T!Sent(b[j])
  <2>1. /\ b[j] \in Octet /\ seqs[j] = u
        /\ ends[j] = ends[j - 1] + Len(u) /\ ends[j] <= n
        /\ \A k \in 1..Len(u) : e[ends[j - 1] + k] = u[k]
    <3> HIDE DEF seqs, e
    <3> QED BY <1>0, <1>1, <1>8
  <2>2. PICK e0 \in Nat, e1 \in Nat : e0 = ends[j - 1] /\ e1 = ends[j]
    BY <1>8, Zenon
  <2>3. PICK c \in Octet : c = b[j]
    BY <2>1, Zenon
  <2>4. CASE c \notin {"%", "+"} /\ u = <<c>>
    <3>1. Len(u) = 1 /\ u[1] = c
      <4> HIDE DEF u
      <4> QED BY <2>4
    <3>2. e1 = e0 + 1 /\ e1 <= n /\ e[e0 + 1] = c
      <4> HIDE DEF u, e
      <4> QED BY <2>1, <2>2, <3>1
    <3>3. e0 + 1 \in 1..n
      <4> HIDE DEF e
      <4> QED BY <1>3, <3>2
    <3>4. ~T!IsEscape(e, e0 + 1) /\ one(e0 + 1) = c
      <4> HIDE DEF e
      <4> QED BY <2>4, <3>2 DEF T!IsEscape
    <3>5. item[e0 + 1] = c /\ width[e0 + 1] = 1
      <4> HIDE DEF one, hex, e, n
      <4> QED BY <3>3, <3>4
    <3> HIDE DEF item, width, n
    <3> QED BY <2>2, <2>3, <3>2, <3>5
  <2>5. CASE /\ c \in T!Escaped /\ T!Hex(c) = <<T!Hex(c)[1], T!Hex(c)[2]>>
             /\ {T!Hex(c)[1], T!Hex(c)[2]} \subseteq T!HexDigit
             /\ u = <<"%", T!Hex(c)[1], T!Hex(c)[2]>>
             /\ \A d \in T!Escaped : T!Hex(d) = T!Hex(c) => d = c
    <3>1. PICK x, y \in T!HexDigit : T!Hex(c) = <<x, y>> /\ u = <<"%", x, y>>
      <4> HIDE DEF u
      <4> QED BY <2>5, Zenon
    <3>2. Len(u) = 3 /\ u[1] = "%" /\ u[2] = x /\ u[3] = y
      <4> HIDE DEF u
      <4> QED BY <3>1
    <3>3. e1 = e0 + 3 /\ e1 <= n /\ e[e0 + 1] = "%" /\ e[e0 + 2] = x /\ e[e0 + 3] = y
      <4> HIDE DEF u, e
      <4> QED BY <2>1, <2>2, <3>2
    <3>4. e0 + 1 \in 1..n /\ (e0 + 1) + 1 = e0 + 2 /\ (e0 + 1) + 2 = e0 + 3 /\ e0 + 3 <= n
      <4> HIDE DEF e
      <4> QED BY <1>3, <3>3
    <3>5. T!IsEscape(e, e0 + 1)
      <4> HIDE DEF e
      <4> QED BY <3>3, <3>4 DEF T!IsEscape
    <3>6. hex(e0 + 1) = c
      <4>1. <<e[(e0 + 1) + 1], e[(e0 + 1) + 2]>> = T!Hex(c)
        <5> HIDE DEF e
        <5> QED BY <3>1, <3>3, <3>4, Zenon
      <4> HIDE DEF e
      <4>2. hex(e0 + 1) \in T!Escaped /\ T!Hex(hex(e0 + 1)) = T!Hex(c)
        BY <2>5, <4>1
      <4> HIDE DEF hex
      <4> QED BY <2>5, <4>2, Zenon
    <3>7. item[e0 + 1] = c /\ width[e0 + 1] = 3
      <4> HIDE DEF one, hex, e, n
      <4> QED BY <3>4, <3>5, <3>6
    <3> HIDE DEF item, width, n
    <3> QED BY <2>2, <2>3, <3>3, <3>4, <3>7
  <2> QED BY <2>3, <2>4, <2>5, SentIs, Zenon
<1>10. f[1] = b
  <2>1. n < m
    BY <1>3
  <2>2. Matches(b, n, item, width, ends)
    <3> HIDE DEF item, width, n, m, seqs
    <3> QED BY <1>8, <1>9, Zenon DEF Matches
  <2> HIDE DEF item, width, n, m
  <2> QED BY <1>3, <1>7, <2>1, <2>2, ReadsBack, Zenon
<1> QED BY <1>7, <1>10

\* What is left of a word is the whole of it exactly when nothing in it has to go.
Searchable == {c \in T!Char : T!NotPunct(c) /\ T!Encodable(c)}

LEMMA SearchedIs ==
  ASSUME NEW w \in Seq(T!Char)
  PROVE  T!Searched(w) = w <=> \A i \in 1..Len(w) : w[i] \in Searchable
<1> DEFINE Step(g) == g = [n \in 0..Len(w) |-> IF n = 0 THEN <<>>
                            ELSE IF w[n] \in Searchable THEN Append(g[n - 1], w[n]) ELSE g[n - 1]]
           left == CHOOSE g : Step(g)
<1>0. Len(w) \in Nat /\ w = [i \in 1..Len(w) |-> w[i]] /\ \A i \in 1..Len(w) : w[i] \in T!Char
  OBVIOUS
<1>1. Step(left)
  <2>1. \E g : Step(g)
    BY ChosenExists
  <2> QED BY <2>1, Zenon
<1>2. T!Searched(w) = left[Len(w)]
  BY Zenon DEF T!Searched, Searchable
<1>3. K!Chosen(w, Searchable) = left[Len(w)]
  BY Zenon DEF K!Chosen
<1> HIDE DEF left
<1>4. ASSUME T!Searched(w) = w PROVE \A i \in 1..Len(w) : w[i] \in Searchable
  <2>1. Keeps(w, w, Searchable)
    <3>1. Keeps(K!Chosen(w, Searchable), w, Searchable)
      BY ChosenKeeps
    <3> QED BY <1>2, <1>3, <1>4, <3>1
  <2> QED BY <2>1 DEF Keeps
<1>5. ASSUME \A i \in 1..Len(w) : w[i] \in Searchable PROVE T!Searched(w) = w
  <2> DEFINE first(n) == [i \in 1..n |-> w[i]]
             known == {n \in Nat : n <= Len(w) => left[n] = first(n)}
  <2>1. 0 \in known
    <3>1. left[0] = <<>>
      BY <1>0, <1>1
    <3>2. first(0) = <<>>
      OBVIOUS
    <3> QED BY <3>1, <3>2
  <2>2. ASSUME NEW n \in Nat, n \in known PROVE n + 1 \in known
    <3> SUFFICES ASSUME n + 1 <= Len(w) PROVE left[n + 1] = first(n + 1)
      OBVIOUS
    <3>1. n + 1 \in 0..Len(w) /\ n + 1 # 0 /\ (n + 1) - 1 = n /\ n + 1 \in 1..Len(w) /\ n <= Len(w)
      BY <1>0
    <3>2. left[n + 1] = Append(left[n], w[n + 1])
      <4>1. left[n + 1] = IF w[n + 1] \in Searchable THEN Append(left[(n + 1) - 1], w[n + 1]) ELSE left[(n + 1) - 1]
        BY <1>1, <3>1
      <4>2. w[n + 1] \in Searchable
        BY <1>5, <3>1, Zenon
      <4> QED BY <3>1, <4>1, <4>2, Zenon
    <3>3. left[n] = first(n)
      BY <2>2, <3>1
    <3>4. Append(first(n), w[n + 1]) = first(n + 1)
      <4>1. first(n) \in Seq(T!Char) /\ Len(first(n)) = n /\ w[n + 1] \in T!Char
        BY <1>0, <3>1
      <4> DEFINE a == Append(first(n), w[n + 1])
      <4>2. a \in Seq(T!Char) /\ Len(a) = n + 1 /\ a[n + 1] = w[n + 1] /\ \A i \in 1..n : a[i] = w[i]
        <5>1. \A i \in 1..n : first(n)[i] = w[i]
          OBVIOUS
        <5> HIDE DEF first
        <5> QED BY <4>1, <5>1
      <4>3. a = [i \in 1..n + 1 |-> a[i]]
        <5> HIDE DEF a
        <5> QED BY <4>2
      <4>4. \A i \in 1..n + 1 : a[i] = w[i]
        <5> HIDE DEF a
        <5> QED BY <4>2
      <4> HIDE DEF a
      <4> QED BY <4>3, <4>4 DEF a
    <3> QED BY <3>2, <3>3, <3>4
  <2> HIDE DEF known
  <2>3. Nat \subseteq known
    BY <2>1, <2>2, NatSet
  <2>4. left[Len(w)] = first(Len(w))
    BY <1>0, <2>3 DEF known
  <2> QED BY <1>0, <1>2, <2>4, Zenon
<1> QED BY <1>4, <1>5

\* A word of the index.
LEMMA IndexedAre ==
  ASSUME NEW page \in Seq(T!Char), NEW w \in T!Index(page)
  PROVE  w \in Seq(Indexed) /\ Len(w) > 0
<1> DEFINE t == T!RemoveHtmlTags(page)
           S0 == T!WordChar \cup {"-"}
<1>1. PICK n \in Nat : t = [i \in 1..n |-> t[i]] /\ DOMAIN t = 1..n /\ \A i \in 1..n : t[i] \notin {"A", "Ya"}
  <2> DEFINE u == T!Untechnical(T!Untagged(T!Unscripted(page)))
  <2>1. DOMAIN page = 1..Len(page) /\ Len(page) \in Nat
    OBVIOUS
  <2>2. DOMAIN u = DOMAIN page
    BY DEF T!Untechnical, T!Untagged, T!Unscripted
  <2>3. \A c : T!Lower(c) \notin {"A", "Ya"}
    BY DEF T!Lower
  <2> HIDE DEF u
  <2>4. T!LowerText(u) = [i \in DOMAIN u |-> T!LowerText(u)[i]] /\ DOMAIN T!LowerText(u) = DOMAIN u /\ \A i \in DOMAIN u : T!LowerText(u)[i] \notin {"A", "Ya"}
    BY <2>3 DEF T!LowerText
  <2>5. t = T!LowerText(u)
    BY DEF T!RemoveHtmlTags, u
  <2> HIDE DEF t
  <2> QED BY <2>1, <2>2, <2>4, <2>5
<1>2. w \in {SubSeq(t, r[1], r[2]) : r \in T!Runs(t, S0)}
  BY DEF T!Index, T!Words
<1> HIDE DEF t, S0
<1>3. PICK r \in T!Runs(t, S0) : w = SubSeq(t, r[1], r[2])
  BY <1>2
<1>4. r \in (DOMAIN t) \X (DOMAIN t) /\ r[1] <= r[2] /\ \A k \in r[1]..r[2] : t[k] \in S0
  BY <1>3 DEF T!Runs
<1>5. PICK i, j : i = r[1] /\ j = r[2]
  OBVIOUS
<1>6. i \in 1..n /\ j \in 1..n /\ i <= j /\ \A k \in i..j : t[k] \in Indexed
  <2>1. i \in 1..n /\ j \in 1..n /\ i <= j /\ \A k \in i..j : t[k] \in S0
    BY <1>1, <1>4, <1>5
  <2>2. \A k \in i..j : t[k] \notin {"A", "Ya"}
    BY <1>1, <2>1
  <2>3. S0 \ {"A", "Ya"} \subseteq Indexed
    BY DEF S0, T!WordChar, T!Letter, T!Latin, Indexed
  <2> QED BY <2>1, <2>2, <2>3
<1>7. w = [k \in 1..(j - i + 1) |-> t[i + k - 1]]
  <2> DEFINE values == {t[k] : k \in 1..n}
             e == i - 1
             m == j - i + 1
  <2>1. t \in Seq(values) /\ Len(t) = n
    <3>1. \A k \in 1..n : t[k] \in values
      OBVIOUS
    <3> HIDE DEF values
    <3> QED BY <1>1, <3>1
  <2>2. e \in Nat /\ m \in Nat /\ e + m <= n /\ e + 1 = i /\ e + m = j /\ \A k \in Nat : e + k = i + k - 1
    BY <1>6
  <2> HIDE DEF values, e, m
  <2>3. SubSeq(t, e + 1, e + m) = [k \in 1..m |-> t[e + k]]
    BY <2>1, <2>2, SubIs
  <2>4. \A k \in 1..m : t[e + k] = t[i + k - 1]
    <3>1. \A k \in 1..m : k \in Nat
      BY <2>2
    <3> QED BY <2>2, <3>1, Zenon
  <2> QED BY <1>3, <1>5, <2>2, <2>3, <2>4 DEF m
<1>8. j - i + 1 \in Nat \ {0} /\ \A k \in 1..(j - i + 1) : i + k - 1 \in i..j
  BY <1>6
<1> QED BY <1>6, <1>7, <1>8

\* What is searched for when such a word is typed, however its letters are typed.
LEMMA TypedIs ==
  ASSUME NEW w \in Seq(Indexed), Len(w) > 0, NEW u \in Seq(Typed), T!LowerText(u) = w
  PROVE  T!SearchWords(T!Form(u)) = {T!Searched(w)} \ {<<>>}
<1> DEFINE whole == T!Char \ {" "}
<1>1. T!FromBytes(T!URLDecode(T!Form(u))) = u
  <2>1. T!Form(u) = T!FlattenSeq([i \in DOMAIN T!ToBytes(u) |-> T!Sent(T!ToBytes(u)[i])])
    BY Zenon DEF T!Form
  <2> QED BY <2>1, BytesRead, FormRead
<1>0. Len(w) \in Nat /\ DOMAIN w = 1..Len(w) /\ \A k \in 1..Len(w) : w[k] \in whole
  <2>1. Indexed \subseteq whole
    BY DEF Indexed, T!Char, T!WordChar, T!Letter, T!Latin
  <2> HIDE DEF whole
  <2> QED BY <2>1
<1> HIDE DEF whole
<1>2. T!Runs(w, whole) = {<<1, Len(w)>>}
  <2>1. ASSUME NEW r \in T!Runs(w, whole) PROVE r = <<1, Len(w)>>
    <3>1. /\ r \in (1..Len(w)) \X (1..Len(w))
          /\ r[1] - 1 \in DOMAIN w => w[r[1] - 1] \notin whole
          /\ r[2] + 1 \in DOMAIN w => w[r[2] + 1] \notin whole
      BY <1>0 DEF T!Runs
    <3>2. PICK i \in 1..Len(w), j \in 1..Len(w) : r = <<i, j>>
      BY <3>1
    <3>3. i - 1 \notin 1..Len(w) /\ j + 1 \notin 1..Len(w)
      BY <1>0, <3>1, <3>2
    <3>4. i = 1 /\ j = Len(w)
      <4>1. PICK l \in Nat : l = Len(w)
        BY <1>0
      <4>2. i \in 1..l /\ j \in 1..l /\ i - 1 \notin 1..l /\ j + 1 \notin 1..l
        BY <3>3, <4>1
      <4>3. i = 1 /\ j = l
        BY ONLY <4>2, l \in Nat
      <4> QED BY <4>1, <4>3
    <3> QED BY <3>2, <3>4
  <2>2. <<1, Len(w)>> \in T!Runs(w, whole)
    BY <1>0 DEF T!Runs
  <2> QED BY <2>1, <2>2
<1>3. SubSeq(w, 1, Len(w)) = w
  OBVIOUS
<1> DEFINE words == {SubSeq(w, r[1], r[2]) : r \in T!Runs(w, whole)}
<1>4. words = {w}
  <2> DEFINE p == <<1, Len(w)>>
  <2>1. SubSeq(w, p[1], p[2]) = w
    BY <1>3
  <2> HIDE DEF p
  <2>2. words = {SubSeq(w, r[1], r[2]) : r \in {p}}
    BY <1>2 DEF p
  <2> QED BY <2>1, <2>2
<1>5. T!SearchWords(T!Form(u)) = {T!Searched(x) : x \in words} \ {<<>>}
  <2> DEFINE t == T!LowerText(T!FromBytes(T!URLDecode(T!Form(u))))
  <2>1. t = w
    BY <1>1, Zenon
  <2>2. T!SearchWords(T!Form(u)) = {T!Searched(x) : x \in {SubSeq(t, r[1], r[2]) : r \in T!Runs(t, whole)}} \ {<<>>}
    BY Zenon DEF T!SearchWords, whole
  <2> HIDE DEF t
  <2> QED BY <2>1, <2>2
<1> HIDE DEF words
<1> QED BY <1>4, <1>5

\* Small letters and capitals are the same word, in small letters.
LEMMA LettersAre ==
  ASSUME NEW w \in Seq(Indexed)
  PROVE  /\ w \in Seq(Typed) /\ T!LowerText(w) = w
         /\ T!UpperText(w) \in Seq(Typed) /\ T!LowerText(T!UpperText(w)) = w
<1>1. \A c \in Indexed : T!Lower(c) = c /\ T!Upper(c) \in Typed /\ T!Lower(T!Upper(c)) = c
  BY DEF Indexed, Typed, T!Lower, T!Upper
<1>2. Len(w) \in Nat /\ DOMAIN w = 1..Len(w) /\ w = [i \in DOMAIN w |-> w[i]]
      /\ \A i \in DOMAIN w : w[i] \in Indexed
  OBVIOUS
<1>3. w \in Seq(Typed)
  BY <1>2 DEF Typed
<1>4. T!LowerText(w) = w
  BY <1>1, <1>2 DEF T!LowerText
<1>5. T!UpperText(w) \in Seq(Typed)
  BY <1>1, <1>2 DEF T!UpperText
<1>6. T!LowerText(T!UpperText(w)) = w
  BY <1>1, <1>2 DEF T!LowerText, T!UpperText
<1> QED BY <1>3, <1>4, <1>5, <1>6

LEMMA WordsFound ==
  ASSUME NEW page \in Seq(T!Char), NEW w \in T!Index(page)
  PROVE  T!WordFound(w) <=> T!Findable(w)
<1>1. w \in Seq(Indexed) /\ Len(w) > 0
  BY IndexedAre, Zenon
<1>2. T!SearchWords(T!Form(w)) = {T!Searched(w)} \ {<<>>}
      /\ T!SearchWords(T!Form(T!UpperText(w))) = {T!Searched(w)} \ {<<>>}
  BY <1>1, LettersAre, TypedIs, Zenon
<1>3. w \in Seq(T!Char) /\ w # <<>> /\ DOMAIN w = 1..Len(w) /\ \A i \in 1..Len(w) : w[i] \in Indexed
  <2>1. Indexed \subseteq T!Char
    BY DEF Indexed, T!Char, T!WordChar, T!Letter, T!Latin
  <2> QED BY <1>1, <2>1
<1>4. T!WordFound(w) <=> T!Searched(w) = w
  BY <1>2, <1>3 DEF T!WordFound
<1>5. \A c \in Indexed : c \in Searchable <=> c \in T!Letter /\ T!Encodable(c)
  BY DEF Searchable, Indexed, T!Char, T!WordChar, T!Letter, T!Latin, T!NotPunct, T!Encodable, T!Punct
<1>6. T!Findable(w) <=> \A i \in 1..Len(w) : w[i] \in Searchable
  BY <1>3, <1>5 DEF T!Findable
<1> QED BY <1>3, <1>4, <1>6, SearchedIs

\* Indexer.cpp:11-47, SearchEngine.cpp:194-227: a word of a page's index that is typed into the
\* search form, in small letters or in capitals, is searched for as the index has it exactly when
\* it is written with letters of Windows-1251 alone - for pages of every length, and whatever the
\* shortest and the longest word of the index are.
THEOREM TextsCorrect == Spec => []TypedAsIndexed
<1>1. Looked => TypedAsIndexed
  <2> SUFFICES ASSUME Looked, Is("page"), NEW w \in T!Index(case.content)
               PROVE  T!WordFound(w) <=> T!Findable(w)
    BY DEF TypedAsIndexed
  <2>1. case.content \in Seq(T!Char)
    <3>1. case.content \in UpTo(T!Char, MaxText)
      BY DEF Looked, Pages
    <3> QED BY <3>1, SeqsUpTo
  <2> QED BY <2>1, WordsFound, Zenon
<1> QED BY <1>1, LookedInit, LookedNext, PTL DEF Spec

-----------------------------------------------------------------------------
(* Errors: which class becomes of a code, and which classes let perform() go on.*)

\* The class above a class; runtime_error, which is none of the library's, stays.
Above(d) == IF d \in E!Class THEN E!Base[d] ELSE d

\* No class is more than four steps below runtime_error.
LEMMA AboveIs ==
  /\ "runtime_error" \notin E!Class
  /\ \A d \in E!Class : Above(Above(Above(Above(d)))) = "runtime_error"
<1> USE DEF E!OfFailure, E!OfConnection, E!OfSqlError, E!OfRollback, E!OfViolation, E!OfSyntax,
            E!OfResources, E!OfPlpgsql
<1>1. "runtime_error" \notin E!Class
  BY DEF E!Class
<1>2. ASSUME NEW d \in E!Class
      PROVE  /\ d = "failure" => Above(d) = "runtime_error"
             /\ d \in E!OfFailure => Above(d) = "failure"
             /\ d \in E!OfConnection => Above(d) = "broken_connection"
             /\ d \in E!OfSqlError => Above(d) = "sql_error"
             /\ d \in E!OfRollback => Above(d) = "transaction_rollback"
             /\ d \in E!OfViolation => Above(d) = "integrity_constraint_violation"
             /\ d \in E!OfSyntax => Above(d) = "syntax_error"
             /\ d \in E!OfResources => Above(d) = "insufficient_resources"
             /\ d \in E!OfPlpgsql => Above(d) = "plpgsql_error"
  BY DEF Above, E!Base
<1>3. /\ {"failure", "broken_connection", "sql_error", "transaction_rollback", "syntax_error",
          "integrity_constraint_violation", "insufficient_resources", "plpgsql_error"} \subseteq E!Class
      /\ Above("runtime_error") = "runtime_error"
  BY <1>1 DEF E!Class, Above
<1>4. /\ Above("failure") = "runtime_error" /\ Above("broken_connection") = "failure"
      /\ Above("sql_error") = "failure" /\ Above("transaction_rollback") = "sql_error"
      /\ Above("syntax_error") = "sql_error" /\ Above("integrity_constraint_violation") = "sql_error"
      /\ Above("insufficient_resources") = "sql_error" /\ Above("plpgsql_error") = "sql_error"
  BY <1>2, <1>3
<1>5. ASSUME NEW d \in E!Class
      PROVE  Above(d) \in {"runtime_error", "failure", "broken_connection", "sql_error",
                           "transaction_rollback", "syntax_error", "integrity_constraint_violation",
                           "insufficient_resources", "plpgsql_error"}
  BY <1>2 DEF E!Class
<1> QED BY <1>1, <1>3, <1>4, <1>5

\* A handler catches the class itself and those below it.
LEMMA CatchesIs ==
  ASSUME NEW c \in E!Class, NEW e \in E!Class
  PROVE  E!Catches(c, e) <=> c \in {e, Above(e), Above(Above(e)), Above(Above(Above(e)))}
<1> DEFINE Step(f) == f = [d \in E!Class |-> d = c \/ (E!Base[d] \in E!Class /\ f[E!Base[d]])]
           under(d) == c \in {d, Above(d), Above(Above(d)), Above(Above(Above(d)))}
           f0 == CHOOSE f : Step(f)
<1>1. \A d \in E!Class : Above(d) = E!Base[d] /\ Above(Above(Above(Above(d)))) = "runtime_error"
  BY AboveIs DEF Above
<1>2. \E f : Step(f)
  <2> DEFINE g == [d \in E!Class |-> under(d)]
  <2>1. ASSUME NEW d \in E!Class
        PROVE  under(d) <=> d = c \/ (E!Base[d] \in E!Class /\ g[E!Base[d]])
    <3>1. CASE Above(d) \in E!Class
      <4>1. g[E!Base[d]] = under(Above(d))
        BY <1>1, <3>1
      <4>2. c # "runtime_error"
        BY AboveIs
      <4> HIDE DEF g
      <4> QED BY <1>1, <3>1, <4>1, <4>2
    <3>2. CASE Above(d) \notin E!Class
      <4>1. Above(Above(d)) = Above(d)
        BY <3>2 DEF Above
      <4> QED BY <1>1, <3>2, <4>1
    <3> QED BY <3>1, <3>2
  <2>2. Step(g)
    <3> HIDE DEF under
    <3>1. g = [d \in E!Class |-> under(d)]
      OBVIOUS
    <3>2. \A d \in E!Class : under(d) = (d = c \/ (E!Base[d] \in E!Class /\ g[E!Base[d]]))
      BY <2>1 DEF under
    <3> HIDE DEF g
    <3> QED BY <3>1, <3>2
  <2> HIDE DEF Step, g
  <2> QED BY <2>2
<1>3. Step(f0)
  BY <1>2, Zenon
<1>4. E!Catches(c, e) = f0[e]
  BY Zenon DEF E!Catches
<1> HIDE DEF f0
<1>5. \A d \in E!Class : f0[d] <=> d = c \/ (Above(d) \in E!Class /\ f0[Above(d)])
  <2>1. \A d \in E!Class : f0[d] = (d = c \/ (E!Base[d] \in E!Class /\ f0[E!Base[d]]))
    BY <1>3, Zenon
  <2>2. ASSUME NEW d \in E!Class
        PROVE  f0[d] <=> d = c \/ (Above(d) \in E!Class /\ f0[Above(d)])
    <3>1. f0[d] = (d = c \/ (E!Base[d] \in E!Class /\ f0[E!Base[d]]))
      BY <2>1
    <3>2. Above(d) = E!Base[d]
      BY <1>1
    <3> QED BY <3>1, <3>2, Zenon
  <2> QED BY <2>2
<1>6. \A d : d \notin E!Class => d # c /\ Above(d) = d
  BY DEF Above
<1> HIDE DEF Step
<1>7. ASSUME NEW d PROVE (d \in E!Class /\ f0[d]) <=> (d = c \/ (Above(d) \in E!Class /\ f0[Above(d)]))
  BY <1>5, <1>6
<1>8. f0[e] <=> \/ e = c \/ Above(e) = c \/ Above(Above(e)) = c \/ Above(Above(Above(e))) = c
                \/ (Above(Above(Above(Above(e)))) \in E!Class /\ f0[Above(Above(Above(Above(e))))])
  <2>1. PICK a, b, d, g : a = Above(e) /\ b = Above(a) /\ d = Above(b) /\ g = Above(d)
    OBVIOUS
  <2>2. /\ (f0[e] <=> e = c \/ (a \in E!Class /\ f0[a]))
        /\ ((a \in E!Class /\ f0[a]) <=> (a = c \/ (b \in E!Class /\ f0[b])))
        /\ ((b \in E!Class /\ f0[b]) <=> (b = c \/ (d \in E!Class /\ f0[d])))
        /\ ((d \in E!Class /\ f0[d]) <=> (d = c \/ (g \in E!Class /\ f0[g])))
    BY <1>5, <1>7, <2>1
  <2> QED BY <2>1, <2>2, Zenon
<1> QED BY <1>1, <1>4, <1>8, AboveIs, Zenon

\* The exceptions after which perform() goes on.
Repeated == {"broken_connection", "too_many_connections", "transaction_rollback",
             "serialization_failure", "deadlock_detected"}

LEMMA AgainIs ==
  ASSUME NEW e \in E!Class
  PROVE  E!Again(e) <=> e \in Repeated
<1> DEFINE one == Above(e)
           two == Above(one)
           three == Above(two)
           Under(c) == c \in {e, one, two, three}
<1>1. \A c \in E!Class : E!Catches(c, e) <=> Under(c)
  BY CatchesIs
<1>2. /\ {"in_doubt_error", "statement_completion_unknown", "protocol_violation", "broken_connection",
          "transaction_rollback"} \subseteq E!Class
  BY DEF E!Class, E!OfFailure, E!OfConnection, E!OfSqlError, E!OfRollback
<1>3. /\ Under("in_doubt_error") <=> e = "in_doubt_error"
      /\ Under("statement_completion_unknown") <=> e = "statement_completion_unknown"
      /\ Under("protocol_violation") <=> e = "protocol_violation"
      /\ Under("broken_connection") <=> e \in {"broken_connection", "protocol_violation", "too_many_connections"}
      /\ Under("transaction_rollback") <=>
           e \in {"transaction_rollback", "serialization_failure", "deadlock_detected",
                  "statement_completion_unknown"}
  <2> USE DEF E!OfFailure, E!OfConnection, E!OfSqlError, E!OfRollback, E!OfViolation, E!OfSyntax,
              E!OfResources, E!OfPlpgsql
  <2>0. Above("runtime_error") = "runtime_error" /\ Above("failure") = "runtime_error"
        /\ Above("sql_error") = "failure"
    BY AboveIs DEF Above, E!Base, E!Class
  <2>1. e \in E!OfConnection => one = "broken_connection"
    BY DEF Above, E!Base, E!Class
  <2>2. e \in E!OfRollback => one = "transaction_rollback"
    BY DEF Above, E!Base, E!Class
  <2>3. e = "failure" => one = "runtime_error"
    BY DEF Above, E!Base, E!Class
  <2>4. e \in E!OfFailure => one = "failure"
    BY DEF Above, E!Base, E!Class
  <2>5. e \in E!OfSqlError => one = "sql_error"
    BY DEF Above, E!Base, E!Class
  <2>6. e \in E!OfViolation \cup E!OfSyntax \cup E!OfResources \cup E!OfPlpgsql
        => one \in {"integrity_constraint_violation", "syntax_error", "insufficient_resources", "plpgsql_error"}
    BY DEF Above, E!Base, E!Class
  <2>7. \A d \in {"integrity_constraint_violation", "syntax_error", "insufficient_resources",
                  "plpgsql_error", "transaction_rollback"} : Above(d) = "sql_error"
    BY DEF Above, E!Base, E!Class
  <2>8. Above("broken_connection") = "failure"
    BY DEF Above, E!Base, E!Class
  <2>9. e = "failure" \/ e \in E!OfFailure \/ e \in E!OfConnection \/ e \in E!OfSqlError
        \/ e \in E!OfRollback
        \/ e \in E!OfViolation \cup E!OfSyntax \cup E!OfResources \cup E!OfPlpgsql
    BY DEF E!Class
  <2> HIDE DEF one
  <2>10. CASE e = "failure" \/ e \in E!OfFailure \/ e \in E!OfSqlError
    BY <2>0, <2>3, <2>4, <2>5, <2>10
  <2>11. CASE e \in E!OfConnection
    BY <2>0, <2>1, <2>8, <2>11
  <2>12. CASE e \in E!OfRollback
    BY <2>0, <2>2, <2>7, <2>12
  <2>13. CASE e \in E!OfViolation \cup E!OfSyntax \cup E!OfResources \cup E!OfPlpgsql
    BY <2>0, <2>6, <2>7, <2>13
  <2> QED BY <2>9, <2>10, <2>11, <2>12, <2>13
<1> DEFINE h == E!Handlers
<1>4. /\ DOMAIN h = 1..5
      /\ h[1].class = "in_doubt_error" /\ ~h[1].again
      /\ h[2].class = "statement_completion_unknown" /\ ~h[2].again
      /\ h[3].class = "protocol_violation" /\ ~h[3].again
      /\ h[4].class = "broken_connection" /\ h[4].again
      /\ h[5].class = "transaction_rollback" /\ h[5].again
  BY DEF E!Handlers
<1> DEFINE Caught(k) == E!Catches(h[k].class, e)
<1>5. /\ Caught(1) <=> Under("in_doubt_error")
      /\ Caught(2) <=> Under("statement_completion_unknown")
      /\ Caught(3) <=> Under("protocol_violation")
      /\ Caught(4) <=> Under("broken_connection")
      /\ Caught(5) <=> Under("transaction_rollback")
  <2> HIDE DEF Under
  <2> QED BY <1>1, <1>2, <1>4, Zenon
<1>6. E!Again(e) <=> \E k \in 1..5 : h[k].again /\ Caught(k) /\ \A j \in 1..k - 1 : ~Caught(j)
  BY <1>4, Zenon DEF E!Again
<1> HIDE DEF h, Caught, Under
<1>7. E!Again(e) <=> (Caught(4) /\ ~Caught(1) /\ ~Caught(2) /\ ~Caught(3)) \/ (Caught(5) /\ ~Caught(1) /\ ~Caught(2) /\ ~Caught(3) /\ ~Caught(4))
  <2>1. \A k \in 1..5 : h[k].again => k = 4 \/ k = 5
    BY <1>4
  <2>2. 1..4 - 1 = {1, 2, 3} /\ 1..5 - 1 = {1, 2, 3, 4}
    OBVIOUS
  <2> QED BY <1>4, <1>6, <2>1, <2>2
<1> QED BY <1>3, <1>5, <1>7 DEF Repeated

\* An SQLSTATE that the library may have to do with.
SqlState(c) ==
  c \in {E!NoState, <<>>, <<"in_doubt">>} \/ \E a, b, x, y, z : c = <<a, b, x, y, z>>

\* For every SQLSTATE: perform() goes on after what the server says undid the transaction, and after
\* a lost connection.
LEMMA ThrownIs ==
  ASSUME NEW c, SqlState(c)
  PROVE  /\ E!Raises(c) \in E!Class
         /\ E!Raises(c) \in Repeated <=> E!Undone(c) \/ E!Lost(c)
<1> USE DEF E!Class, E!OfFailure, E!OfConnection, E!OfSqlError, E!OfRollback, E!OfViolation, E!OfSyntax,
            E!OfResources, E!OfPlpgsql
<1>1. CASE c \in {E!NoState, <<>>}
  BY <1>1 DEF E!NoState, E!Raises, E!ThrowSqlError, Repeated, E!Undone, E!Lost
<1>2. CASE c = <<"in_doubt">>
  <2>1. c # E!NoState /\ c # <<>> /\ Len(c) = 1
    BY <1>2 DEF E!NoState
  <2>2. E!Raises(c) = "in_doubt_error"
    BY <1>2 DEF E!Raises
  <2>3. ~E!Undone(c) /\ ~E!Lost(c)
    BY <1>2, <2>1 DEF E!Undone, E!Lost
  <2> QED BY <2>2, <2>3 DEF Repeated
<1>3. ASSUME NEW a, NEW b, NEW x, NEW y, NEW z,
             c = <<a, b, x, y, z>>
      PROVE  /\ E!Raises(c) \in E!Class
             /\ E!Raises(c) \in Repeated <=> E!Undone(c) \/ E!Lost(c)
  <2>1. c # E!NoState /\ c # <<>> /\ c # <<"in_doubt">> /\ Len(c) = 5
    BY <1>3 DEF E!NoState
  <2>2. SubSeq(c, 1, 2) = <<a, b>> /\ c[1] = a
    <3>1. c \in Seq({a, b, x, y, z}) /\ Len(c) = 5
      BY ONLY <1>3
    <3>2. c[1] = a /\ c[2] = b
      BY ONLY <1>3
    <3>3. SubSeq(c, 0 + 1, 0 + 2) = [k \in 1..2 |-> c[0 + k]]
      BY <3>1, SubIs
    <3>4. SubSeq(c, 1, 2) = [k \in 1..2 |-> c[k]]
      BY ONLY <3>3
    <3>5. <<c[1], c[2]>> = [k \in 1..2 |-> c[k]]
      BY ONLY TRUE
    <3> QED BY ONLY <3>2, <3>4, <3>5
  <2>3. E!Raises(c) = E!ThrowSqlError(c)
    BY <2>1 DEF E!Raises
  <2>4. CASE E!IsExact(c)
    <3> DEFINE e == E!Raises(c)
    <3>1. e \in DOMAIN E!Exact /\ E!Exact[e] = c
      <4>1. e = CHOOSE d \in DOMAIN E!Exact : E!Exact[d] = c
        BY <2>1, <2>3, <2>4, Zenon DEF E!ThrowSqlError
      <4> QED BY <2>4, <4>1, Zenon DEF E!IsExact
    <3> HIDE DEF e
    <3>2. e \in E!Class
      BY <3>1 DEF E!Exact
    <3>3. e \in Repeated <=> e \in {"too_many_connections", "transaction_rollback", "serialization_failure",
                                    "deadlock_detected"}
      BY <3>1 DEF E!Exact, Repeated
    <3>4. E!Undone(c) <=> e \in {"transaction_rollback", "serialization_failure", "deadlock_detected"}
      BY <3>1 DEF E!Exact, E!Undone
    <3>5. E!Lost(c) <=> e = "too_many_connections"
      BY <1>3, <2>1, <2>2, <3>1 DEF E!Exact, E!Lost
    <3> QED BY <3>2, <3>3, <3>4, <3>5 DEF e
  <2>5. CASE ~E!IsExact(c)
    <3>1. /\ c # <<"0", "8", "P", "0", "1">> /\ c # <<"5", "3", "3", "0", "0">>
          /\ c # <<"4", "0", "0", "0", "0">> /\ c # <<"4", "0", "0", "0", "1">>
          /\ c # <<"4", "0", "P", "0", "1">>
      <4>1. \A d \in {"protocol_violation", "too_many_connections", "transaction_rollback",
                      "serialization_failure", "deadlock_detected"} : d \in DOMAIN E!Exact /\ E!Exact[d] # c
        <5>1. {"protocol_violation", "too_many_connections", "transaction_rollback",
               "serialization_failure", "deadlock_detected"} \subseteq DOMAIN E!Exact
          BY DEF E!Exact
        <5> QED BY <2>5, <5>1, Zenon DEF E!IsExact
      <4>2. /\ E!Exact["protocol_violation"] = <<"0", "8", "P", "0", "1">>
            /\ E!Exact["too_many_connections"] = <<"5", "3", "3", "0", "0">>
            /\ E!Exact["transaction_rollback"] = <<"4", "0", "0", "0", "0">>
            /\ E!Exact["serialization_failure"] = <<"4", "0", "0", "0", "1">>
            /\ E!Exact["deadlock_detected"] = <<"4", "0", "P", "0", "1">>
        BY DEF E!Exact
      <4> QED BY <4>1, <4>2, Zenon
    <3>2. ~E!Undone(c) /\ (E!Lost(c) <=> <<a, b>> = <<"0", "8">>)
      BY <2>1, <2>2, <3>1 DEF E!Undone, E!Lost
    <3>3. CASE E!IsOfClass(c)
      <4> DEFINE e == E!Raises(c)
      <4>1. e \in DOMAIN E!ByClass /\ <<a, b>> \in E!ByClass[e]
        <5>1. e = CHOOSE d \in DOMAIN E!ByClass : SubSeq(c, 1, 2) \in E!ByClass[d]
          BY <2>1, <2>3, <2>5, <3>3, Zenon DEF E!ThrowSqlError
        <5>2. e \in DOMAIN E!ByClass /\ SubSeq(c, 1, 2) \in E!ByClass[e]
          BY <3>3, <5>1, Zenon DEF E!IsOfClass
        <5> QED BY <2>2, <5>2
      <4> HIDE DEF e
      <4>2. e \in E!Class /\ (e \in Repeated <=> e = "broken_connection")
        BY <4>1 DEF E!ByClass, Repeated
      <4>3. e = "broken_connection" <=> <<a, b>> = <<"0", "8">>
        BY <4>1 DEF E!ByClass
      <4> QED BY <3>2, <4>2, <4>3 DEF e
    <3>4. CASE ~E!IsOfClass(c)
      <4>1. E!Raises(c) \in {"plpgsql_error", "sql_error"}
        BY <2>1, <2>3, <2>5, <3>4 DEF E!ThrowSqlError
      <4>2. <<a, b>> # <<"0", "8">>
        <5>1. "broken_connection" \in DOMAIN E!ByClass /\ <<"0", "8">> \in E!ByClass["broken_connection"]
          BY DEF E!ByClass
        <5> QED BY <2>2, <3>4, <5>1 DEF E!IsOfClass
      <4> QED BY <3>2, <4>1, <4>2 DEF Repeated
    <3> QED BY <3>3, <3>4
  <2> QED BY <2>4, <2>5
<1> QED BY <1>1, <1>2, <1>3 DEF SqlState

\* Where the runs of perform() come to their end.
Stops(raised, attempts, n) == n > Len(raised) \/ ~E!Again(raised[n]) \/ n = attempts

LEMMA PerformIs ==
  ASSUME NEW raised, Len(raised) \in Nat, NEW attempts \in Nat \ {0}
  PROVE  \E m \in 1..attempts :
           /\ Stops(raised, attempts, m) /\ \A k \in 1..m - 1 : ~Stops(raised, attempts, k)
           /\ E!Perform(raised, attempts) =
                [ran |-> m, out |-> IF m > Len(raised) THEN "result" ELSE raised[m]]
<1> DEFINE Ends(n) == Stops(raised, attempts, n)
           res(n) == [ran |-> n, out |-> IF n > Len(raised) THEN "result" ELSE raised[n]]
           Item(f, n) == IF n > Len(raised) THEN [ran |-> n, out |-> "result"]
                         ELSE IF ~E!Again(raised[n]) \/ n = attempts THEN [ran |-> n, out |-> raised[n]]
                         ELSE f[n + 1]
           Step(f) == f = [n \in 1..attempts |-> Item(f, n)]
           first(n) == CHOOSE m \in n..attempts : Ends(m) /\ \A k \in n..m - 1 : ~Ends(k)
           runs == CHOOSE f : Step(f)
<1>1. ASSUME NEW f, NEW n \in 1..attempts
      PROVE  Item(f, n) = IF Ends(n) THEN res(n) ELSE f[n + 1]
  BY DEF Stops
<1>2. \A n \in 1..attempts : ~Ends(n) => n + 1 \in 1..attempts
  BY DEF Stops
<1> HIDE DEF Ends, Item, res
<1>3. \E f : Step(f)
  <2> DEFINE g == [n \in 1..attempts |-> res(first(n))]
  <2>1. ASSUME NEW n \in 1..attempts PROVE res(first(n)) = IF Ends(n) THEN res(n) ELSE g[n + 1]
    <3>1. CASE Ends(n)
      <4>1. \A m \in n..attempts : (Ends(m) /\ \A k \in n..m - 1 : ~Ends(k)) <=> m = n
        BY <3>1
      <4>2. n \in n..attempts
        OBVIOUS
      <4>3. first(n) = n
        BY <4>1, <4>2
      <4> HIDE DEF first
      <4> QED BY <3>1, <4>3
    <3>2. CASE ~Ends(n)
      <4>1. n + 1 \in 1..attempts
        BY <1>2, <3>2
      <4>2. \A m : (m \in n..attempts /\ Ends(m) /\ \A k \in n..m - 1 : ~Ends(k))
                   <=> (m \in n + 1..attempts /\ Ends(m) /\ \A k \in n + 1..m - 1 : ~Ends(k))
        <5> TAKE m
        <5>1. CASE m = n
          BY <3>2, <5>1
        <5>2. CASE m # n
          <6>1. m \in n..attempts <=> m \in n + 1..attempts
            BY <5>2
          <6>2. ASSUME m \in n + 1..attempts PROVE n..m - 1 = {n} \cup (n + 1..m - 1)
            BY <6>2
          <6> QED BY <3>2, <6>1, <6>2
        <5> QED BY <5>1, <5>2
      <4>3. first(n) = first(n + 1)
        BY <4>2
      <4>4. g[n + 1] = res(first(n + 1))
        <5> HIDE DEF first
        <5> QED BY <4>1
      <4> HIDE DEF first, g
      <4> QED BY <3>2, <4>3, <4>4
    <3> QED BY <3>1, <3>2
  <2>2. Step(g)
    <3>1. g = [n \in 1..attempts |-> res(first(n))]
      OBVIOUS
    <3>2. \A n \in 1..attempts : res(first(n)) = Item(g, n)
      <4> HIDE DEF first, g
      <4> QED BY <1>1, <2>1
    <3> HIDE DEF first, g
    <3> QED BY <3>1, <3>2
  <2> HIDE DEF Step, g
  <2> QED BY <2>2
<1>4. Step(runs)
  BY <1>3, Zenon
<1>5. E!Perform(raised, attempts) = runs[1]
  <2>1. ~(attempts <= 0)
    OBVIOUS
  <2> QED BY <2>1, Zenon DEF E!Perform, Item
<1> HIDE DEF runs
<1>6. \A n \in 1..attempts : runs[n] = IF Ends(n) THEN res(n) ELSE runs[n + 1]
  <2>1. \A n \in 1..attempts : runs[n] = Item(runs, n)
    BY <1>4
  <2> QED BY <1>1, <2>1
<1>7. PICK m \in 1..attempts : Ends(m) /\ \A k \in 1..m - 1 : ~Ends(k)
  <2> SUFFICES ASSUME \A m \in 1..attempts : Ends(m) => \E k \in 1..m - 1 : Ends(k) PROVE FALSE
    BY Zenon
  <2> DEFINE none == {n \in Nat : \A k \in 1..n : k <= attempts => ~Ends(k)}
  <2>1. 0 \in none
    OBVIOUS
  <2>2. ASSUME NEW n \in Nat, n \in none PROVE n + 1 \in none
    <3> SUFFICES ASSUME n + 1 <= attempts, Ends(n + 1) PROVE FALSE
      BY <2>2
    <3>1. PICK k \in 1..(n + 1) - 1 : Ends(k)
      OBVIOUS
    <3>2. k \in 1..n /\ k <= attempts
      OBVIOUS
    <3> QED BY <2>2, <3>1, <3>2
  <2> HIDE DEF none
  <2>3. attempts \in none
    BY <2>1, <2>2, NatSet
  <2>4. Ends(attempts)
    BY DEF Ends, Stops
  <2> QED BY <2>3, <2>4 DEF none
<1>8. \A n \in Nat : n + 1 <= m => runs[1] = runs[n + 1]
  <2> DEFINE known == {n \in Nat : n + 1 <= m => runs[1] = runs[n + 1]}
  <2>1. 0 \in known
    OBVIOUS
  <2>2. ASSUME NEW n \in Nat, n \in known PROVE n + 1 \in known
    <3> SUFFICES ASSUME n + 2 <= m PROVE runs[1] = runs[n + 2]
      OBVIOUS
    <3>1. n + 1 \in 1..attempts /\ n + 1 \in 1..m - 1 /\ (n + 1) + 1 = n + 2
      OBVIOUS
    <3>2. runs[n + 1] = runs[(n + 1) + 1]
      BY <1>6, <1>7, <3>1
    <3>3. runs[1] = runs[n + 1]
      BY <2>2
    <3> QED BY <3>1, <3>2, <3>3
  <2> HIDE DEF known
  <2>3. Nat \subseteq known
    BY <2>1, <2>2, NatSet
  <2> QED BY <2>3 DEF known
<1>9. runs[1] = res(m)
  <2>1. m - 1 \in Nat /\ (m - 1) + 1 = m
    OBVIOUS
  <2>2. runs[1] = runs[m]
    BY <1>8, <2>1
  <2> QED BY <1>6, <1>7, <2>2
<1> QED BY <1>5, <1>7, <1>9 DEF Ends, res

\* transactor.hxx:71-147, result.cxx:184-310: for every row of SQLSTATEs, known ones or not, and every
\* number of attempts, perform() runs its callback again exactly after the errors by which the
\* transaction was undone or the connection lost, no more often than it may, and hands over what came
\* out of the last run.
THEOREM Retries ==
  ASSUME NEW codes, Len(codes) \in Nat, DOMAIN codes = 1..Len(codes),
         \A i \in 1..Len(codes) : SqlState(codes[i]), NEW attempts \in Nat
  PROVE  E!RetriedRightly(codes, attempts)
<1> DEFINE raised == [i \in DOMAIN codes |-> E!Raises(codes[i])]
           p == E!Perform(raised, attempts)
           l == Len(codes)
           GoesOn(i) == E!Undone(codes[i]) \/ E!Lost(codes[i])
<1> SUFFICES ASSUME attempts > 0
             PROVE  /\ p.ran \in 1..attempts /\ p.ran <= l + 1
                    /\ \A i \in 1..p.ran - 1 : GoesOn(i)
                    /\ p.ran = attempts \/ p.ran > l \/ ~GoesOn(p.ran)
                    /\ p.out = IF p.ran > l THEN "result" ELSE raised[p.ran]
  BY Zenon DEF E!RetriedRightly
<1>1. Len(raised) = l
  OBVIOUS
<1>2. \A i \in 1..l : E!Again(raised[i]) <=> GoesOn(i)
  <2> TAKE i \in 1..l
  <2>1. raised[i] = E!Raises(codes[i])
    OBVIOUS
  <2> HIDE DEF raised
  <2> QED BY <2>1, ThrownIs, AgainIs
<1> HIDE DEF raised, GoesOn
<1>3. PICK m \in 1..attempts :
        /\ Stops(raised, attempts, m) /\ \A k \in 1..m - 1 : ~Stops(raised, attempts, k)
        /\ p = [ran |-> m, out |-> IF m > Len(raised) THEN "result" ELSE raised[m]]
  <2>1. attempts \in Nat \ {0} /\ Len(raised) \in Nat
    BY <1>1
  <2> QED BY <2>1, PerformIs, Zenon
<1>4. p.ran = m /\ p.out = IF m > l THEN "result" ELSE raised[m]
  BY <1>1, <1>3
<1> HIDE DEF p
<1>5. m = attempts \/ m > l \/ ~GoesOn(m)
  BY <1>1, <1>2, <1>3 DEF Stops
<1>6. \A k \in 1..m - 1 : k <= l /\ GoesOn(k)
  BY <1>1, <1>2, <1>3 DEF Stops
<1>7. m <= l + 1
  <2> SUFFICES ASSUME m > l + 1 PROVE FALSE
    OBVIOUS
  <2>1. l + 1 \in 1..m - 1
    OBVIOUS
  <2> QED BY <1>6, <2>1
<1> QED BY <1>4, <1>5, <1>6, <1>7

\* What the runs of the part look at.
LEMMA OutcomesAre ==
  ASSUME NEW c \in Outcomes
  PROVE  /\ c.attempts \in Nat /\ Len(c.codes) \in Nat /\ DOMAIN c.codes = 1..Len(c.codes)
         /\ \A i \in 1..Len(c.codes) : SqlState(c.codes[i])
<1> DEFINE own == {E!Exact[e] : e \in DOMAIN E!Exact}
           begun == {p \o <<"X", "X", "X">> : p \in UNION {E!ByClass[e] : e \in DOMAIN E!ByClass}}
           rest == {E!NoState, <<>>, <<"in_doubt">>, <<"4", "0", "0", "0", "2">>,
                    <<"5", "7", "P", "0", "1">>, <<"X", "X", "0", "0", "0">>}
           codes == own \cup begun \cup rest
<1>1. c.codes \in UpTo(codes, 2) /\ c.attempts \in 0..3
  <2>1. Outcomes = [part : {"errors"}, codes : UpTo(codes, 2), attempts : 0..3]
    BY Zenon DEF Outcomes
  <2> HIDE DEF codes
  <2> QED BY <2>1
<1>2. ASSUME NEW d \in codes PROVE SqlState(d)
  <2>1. CASE d \in own
    <3>1. PICK e \in DOMAIN E!Exact : d = E!Exact[e]
      BY <2>1
    <3>2. \E a, b, x, y, z : d = <<a, b, x, y, z>>
      BY <3>1 DEF E!Exact
    <3> QED BY <3>2 DEF SqlState
  <2>2. CASE d \in begun
    <3>1. PICK p \in UNION {E!ByClass[e] : e \in DOMAIN E!ByClass} : d = p \o <<"X", "X", "X">>
      BY <2>2
    <3>2. PICK a, b : p = <<a, b>>
      BY DEF E!ByClass
    <3>3. d = <<a, b, "X", "X", "X">>
      <4>1. p \in Seq({a, b, "X"}) /\ <<"X", "X", "X">> \in Seq({a, b, "X"})
        BY ONLY <3>2
      <4>2. d \in Seq({a, b, "X"}) /\ Len(d) = 5 /\ d[1] = a /\ d[2] = b /\ d[3] = "X" /\ d[4] = "X" /\ d[5] = "X"
        BY ONLY <3>1, <3>2, <4>1
      <4> QED BY ONLY <4>2
    <3> QED BY <3>3 DEF SqlState
  <2>3. CASE d \in rest
    BY <2>3 DEF SqlState
  <2> QED BY <2>1, <2>2, <2>3
<1> HIDE DEF codes
<1>3. c.codes \in Seq(codes)
  BY <1>1, SeqsUpTo
<1> QED BY <1>1, <1>2, <1>3

\* transactor.hxx:71-147: perform() runs its callback again when the server says that the transaction
\* was undone, or when the connection was lost, and after no other error, and no more often than it may
\* (Retries, for what the runs of the part look at); and nothing of what the callback did before is in
\* the database then.
THEOREM RetryCorrect == Spec => []RetriedMeansUndone
<1>1. IInv => X!RetriedMeansUndone
  BY SessionsAssumption, IInvRetry DEF Bounds
<1>2. Looked => (Is("errors") => E!RetriedRightly(case.codes, case.attempts))
  <2> SUFFICES ASSUME Looked, Is("errors") PROVE E!RetriedRightly(case.codes, case.attempts)
    OBVIOUS
  <2>1. case \in Outcomes
    BY DEF Looked
  <2> QED BY <2>1, OutcomesAre, Retries, Zenon
<1>3. IInv /\ Looked => RetriedMeansUndone
  BY <1>1, <1>2 DEF RetriedMeansUndone
<1> QED BY <1>3, LookedInit, LookedNext, TransactionsInductive, PTL DEF Spec
=============================================================================
