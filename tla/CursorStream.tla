---------------------------- MODULE CursorStream ----------------------------
(***************************************************************************)
(* icursorstream, which reads a forward-only cursor in blocks of a stride, *)
(* and the icursor_iterators on it: each has a position in the stream,     *)
(* moving one moves what the next one to move will reach, and a block is   *)
(* read when it is first looked at, for all iterators that wait for it.    *)
(*                                                                         *)
(* A program keeps the rules of cursor.hxx: it neither reads the stream    *)
(* nor changes its stride while an iterator is on it.                      *)
(***************************************************************************)
EXTENDS Integers, FiniteSets

CONSTANTS Rows, MaxStride, MaxPos,  \* MaxPos: bound on m_reqpos
          Iter

Nullptr == 0

VARIABLES
  m_stride, m_realpos, m_reqpos, m_done,
  m_iterators,  \* the head of the list
  it            \* the iterators

vars == <<m_stride, m_realpos, m_reqpos, m_done, m_iterators, it>>

\* attached: m_stream is this stream.  here: m_here, a set of rows.  late, history:
\* the block it stands at had been read before it came.
NoIterator ==
  [alive |-> FALSE, attached |-> FALSE, here |-> {}, pos |-> 0, prev |-> Nullptr, next |-> Nullptr,
   late |-> FALSE]

Init ==
  /\ m_stride \in 1..MaxStride
  /\ m_realpos = 0 /\ m_reqpos = 0 /\ m_done = FALSE
  /\ m_iterators = Nullptr /\ it = [i \in Iter |-> NoIterator]

Attached == {i \in Iter : it[i].attached}
Least(a, b) == IF a < b THEN a ELSE b

\* The block of rows at p, numbered from 0.
Block(p) == {r \in 0..Rows - 1 : p <= r /\ r < p + m_stride}

-----------------------------------------------------------------------------
(* The stream.                                                             *)

Get ==
  /\ Attached = {}
  /\ m_realpos' = Least(m_realpos + m_stride, Rows)
  /\ m_done' = (m_done \/ Block(m_realpos) = {})
  /\ UNCHANGED <<m_stride, m_reqpos, m_iterators, it>>

Ignore ==
  /\ Attached = {}
  /\ \E n \in 1..MaxStride :
       /\ m_realpos' = Least(m_realpos + n, Rows)
       /\ m_done' = (m_done \/ m_realpos + n > Rows)
  /\ UNCHANGED <<m_stride, m_reqpos, m_iterators, it>>

SetStride ==
  /\ Attached = {}
  /\ m_stride' \in 1..MaxStride
  /\ UNCHANGED <<m_realpos, m_reqpos, m_done, m_iterators, it>>

\* insert_iterator and remove_iterator, on a list given by its head and its links.
\* Mutant: the old head does not learn who is before it.
InsertHalfway(l, i) ==
  [head |-> i, it |-> [l.it EXCEPT ![i].next = l.head]]

InsertIterator(l, i) ==
  [head |-> i,
   it |-> [j \in Iter |-> IF j = i THEN [l.it[i] EXCEPT !.next = l.head]
                          ELSE IF j = l.head THEN [l.it[j] EXCEPT !.prev = i] ELSE l.it[j]]]

RemoveIterator(l, i) ==
  LET next == l.it[i].next
      prev == IF i = l.head THEN Nullptr ELSE l.it[i].prev
  IN  [head |-> IF i = l.head THEN next ELSE l.head,
       it |-> [j \in Iter |->
                 IF j = i THEN [l.it[i] EXCEPT !.prev = Nullptr, !.next = Nullptr]
                 ELSE IF j = next THEN [l.it[j] EXCEPT !.prev = prev]
                 ELSE IF j = prev THEN [l.it[j] EXCEPT !.next = next]
                 ELSE l.it[j]]]

List == [head |-> m_iterators, it |-> it]
Becomes(l) == m_iterators' = l.head /\ it' = l.it

\* service_iterators: the blocks that are waited for, up to p, are read in order; the
\* last of them is the one at p, for which it was called.
Served(p) ==
  IF p < m_realpos THEN [real |-> m_realpos, done |-> m_done, it |-> it]
  ELSE [real |-> Least(p + m_stride, Rows), done |-> m_done \/ Block(p) = {},
        it |-> [i \in Iter |-> IF it[i].attached /\ m_realpos <= it[i].pos /\ it[i].pos <= p
                               THEN [it[i] EXCEPT !.here = Block(it[i].pos)] ELSE it[i]]]

-----------------------------------------------------------------------------
(* The iterators.                                                          *)

Same == UNCHANGED <<m_stride, m_realpos, m_reqpos, m_done>>

ConstructEnd(i) ==
  /\ ~it[i].alive
  /\ it' = [it EXCEPT ![i] = [NoIterator EXCEPT !.alive = TRUE]]
  /\ UNCHANGED m_iterators /\ Same

Construct(i) ==
  /\ ~it[i].alive
  /\ Becomes(InsertIterator([List EXCEPT !.it[i] =
       [NoIterator EXCEPT !.alive = TRUE, !.attached = TRUE, !.pos = m_reqpos,
                          !.late = m_reqpos < m_realpos]], i))
  /\ Same

\* The copy of j, of which i keeps only its own links.
Copied(i, j) == [it[j] EXCEPT !.prev = it[i].prev, !.next = it[i].next]

Copy(i, j) ==
  /\ ~it[i].alive /\ it[j].alive
  /\ LET l == [List EXCEPT !.it[i] = Copied(i, j)]
     IN  Becomes(IF it[j].attached THEN InsertIterator(l, i) ELSE l)
  /\ Same

Assign(i, j) ==
  /\ i # j /\ it[i].alive /\ it[j].alive
  /\ IF it[i].attached = it[j].attached THEN Becomes([List EXCEPT !.it[i] = Copied(i, j)])
     ELSE IF it[i].attached
     THEN LET l == RemoveIterator(List, i) IN Becomes([l EXCEPT !.it[i] = [it[j] EXCEPT !.prev = Nullptr, !.next = Nullptr]])
     ELSE Becomes(InsertIterator([List EXCEPT !.it[i] = Copied(i, j)], i))
  /\ Same

Destroy(i) ==
  /\ it[i].alive
  /\ LET l == IF it[i].attached THEN RemoveIterator(List, i) ELSE List
     IN  Becomes([l EXCEPT !.it[i] = NoIterator])
  /\ Same

\* operator++ and operator+=.
Advance(i, n) ==
  /\ it[i].attached /\ m_reqpos + n * m_stride <= MaxPos
  /\ m_reqpos' = m_reqpos + n * m_stride
  /\ it' = [it EXCEPT ![i].pos = m_reqpos', ![i].here = {}, ![i].late = m_reqpos' < m_realpos]
  /\ UNCHANGED <<m_stride, m_realpos, m_done, m_iterators>>

\* operator++(int): the copy j is made first.
PostIncrement(i, j) ==
  /\ it[i].attached /\ ~it[j].alive /\ m_reqpos + m_stride <= MaxPos
  /\ m_reqpos' = m_reqpos + m_stride
  /\ Becomes(InsertIterator([List EXCEPT
       !.it[i] = [it[i] EXCEPT !.pos = m_reqpos', !.here = {},
                                 !.late = m_reqpos' < m_realpos],
       !.it[j] = [Copied(j, i) EXCEPT !.alive = TRUE]], j))
  /\ UNCHANGED <<m_stride, m_realpos, m_done>>

\* operator*, and a comparison with an iterator that is on no stream.
Refresh(i) ==
  /\ it[i].attached
  /\ LET s == Served(it[i].pos) IN m_realpos' = s.real /\ m_done' = s.done /\ it' = s.it
  /\ UNCHANGED <<m_stride, m_reqpos, m_iterators>>

Next ==
  \/ Get \/ Ignore \/ SetStride
  \/ \E i \in Iter : \/ ConstructEnd(i) \/ Construct(i) \/ Destroy(i) \/ Refresh(i)
                     \/ \E n \in 1..2 : Advance(i, n)
                     \/ \E j \in Iter : Copy(i, j) \/ Assign(i, j) \/ PostIncrement(i, j)

Spec == Init /\ [][Next]_vars

-----------------------------------------------------------------------------
\* cursor.hxx - an iterator shows the block at its position, as often as it is
\* looked at and wherever the stream has gone on to; one that the stream has
\* passed has its block.  One that came to a block that had been read before stays
\* empty, which cursor.hxx:407-410 denies, and is left out.  The list that is walked
\* holds the iterators on the stream, both ways.
BlocksShown ==
  /\ \A i \in Attached :
       /\ it[i].here \in {{}, Block(it[i].pos)}
       /\ it[i].pos < m_realpos /\ ~it[i].late => it[i].here = Block(it[i].pos)
  /\ {m_iterators} \subseteq Attached \cup {Nullptr}
  /\ Cardinality({i \in Attached : it[i].prev = Nullptr}) = IF Attached = {} THEN 0 ELSE 1
  /\ \A i \in Attached :
       /\ (it[i].prev = Nullptr) = (i = m_iterators)
       /\ it[i].next # Nullptr => it[i].next \in Attached /\ it[it[i].next].prev = i
       /\ it[i].prev # Nullptr => it[i].prev \in Attached /\ it[it[i].prev].next = i
=============================================================================
