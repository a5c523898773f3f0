------------------------------- MODULE Crawl --------------------------------
(***************************************************************************)
(* What a crawl promises, without threads, queue, mutexes or counters:     *)
(* pages are found, each is processed at most once, links are only found   *)
(* on pages in progress, and the crawl is closed only when nothing found   *)
(* is left to process and nothing is in progress.                          *)
(***************************************************************************)
EXTENDS Sequences, Naturals

CONSTANTS Url, StartUrl

VARIABLES
  web,      \* the links of every page
  todo,     \* found and not yet claimed by anyone
  open,     \* being processed
  seen,     \* claimed so far, whether still open or not
  closed    \* the crawl has been declared complete

vars == <<web, todo, open, seen, closed>>

Init ==
  /\ todo = {StartUrl} /\ open = {} /\ seen = {}
  /\ closed = FALSE

\* A page is claimed once and for all.
Claim(u) ==
  /\ u \in todo
  /\ todo' = todo \ {u}
  /\ open' = open \cup {u}
  /\ seen' = seen \cup {u}
  /\ UNCHANGED <<web, closed>>

\* A link on an open page leads to a page nobody has claimed.
Find(u, i) ==
  /\ u \in open /\ i \in 1..Len(web[u])
  /\ web[u][i] \notin seen
  /\ todo' = todo \cup {web[u][i]}
  /\ UNCHANGED <<web, open, seen, closed>>

\* Processing a page ends, whether it succeeded or not.
Leave(u) ==
  /\ u \in open
  /\ open' = open \ {u}
  /\ closed' \in {closed, (todo = {} /\ open' = {})}
  /\ UNCHANGED <<web, todo, seen>>

Close ==
  /\ todo = {} /\ open = {}
  /\ closed' = TRUE
  /\ UNCHANGED <<web, todo, open, seen>>

Next ==
  \/ \E u \in todo : Claim(u)
  \/ \E u \in open : \E i \in 1..Len(web[u]) : Find(u, i)
  \/ \E u \in open : Leave(u)
  \/ Close

Spec == Init /\ [][Next]_vars
=============================================================================
