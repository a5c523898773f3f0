------------------------------ MODULE MCSpider ------------------------------
(***************************************************************************)
(* Instances of Spider for TLC: up to four pages, the start page being s,  *)
(* and sets of webs over them.                                             *)
(***************************************************************************)
EXTENDS Spider, TLC

CONSTANTS s, a, b, c

ThreeUrls == {s, a, b}
FourUrls  == {s, a, b, c}

\* A page holds up to two links; one may repeat, or lead back to the page.
LinkLists == {<<>>, <<a>>, <<b>>, <<a, b>>, <<b, s>>}

\* Every web in which each of the three pages holds one of these lists.
AllWebs == [ThreeUrls -> LinkLists]

\* The start page links to a and b; a and b to anything.
FanWebs == {w \in AllWebs : w[s] = <<a, b>>}

\* The start page links to a and b, which may link to each other; c is at most
\* two links away and may only be reached through b.
ChainWebs ==
  {w \in [FourUrls -> {<<>>, <<a>>, <<b>>, <<c>>, <<a, b>>, <<a, c>>}] :
     /\ w[s] = <<a, b>>
     /\ w[a] \in {<<>>, <<b>>, <<c>>}
     /\ w[b] \in {<<c>>, <<a, c>>}
     /\ w[c] \in {<<>>, <<a>>}}

NoFaults  == {}
AllFaults == FaultKind

Threads == Permutations(Worker)

=============================================================================
