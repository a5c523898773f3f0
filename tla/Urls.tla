-------------------------------- MODULE Urls --------------------------------
(***************************************************************************)
(* Utils/URLParser.cpp: parse and extractLinks.  A URL is a sequence of    *)
(* its pieces: the scheme with its colon and slashes, a slash, a number    *)
(* sign, and names (of a host, or of a segment of a path).                 *)
(***************************************************************************)
EXTENDS Integers, Sequences, SequencesExt

CONSTANTS Host, Name

Scheme == {"http://", "https://"}
Piece  == Scheme \cup Host \cup Name \cup {"/", "#"}

\* ^(https?)://([^/]+)(/?.*)$ - the host goes up to the first slash.
Slashes(url) == {i \in DOMAIN url : url[i] = "/"}
HostEnd(url) ==
  IF Slashes(url) = {} THEN Len(url) ELSE (CHOOSE i \in Slashes(url) : \A j \in Slashes(url) : i <= j) - 1

Parses(url) == Len(url) > 0 /\ url[1] \in Scheme /\ HostEnd(url) > 1

Parse(url) ==
  [protocol |-> url[1],
   hostName |-> SubSeq(url, 2, HostEnd(url)),
   query    |-> IF HostEnd(url) = Len(url) THEN <<"/">> ELSE SubSeq(url, HostEnd(url) + 1, Len(url))]

-----------------------------------------------------------------------------
(* extractLinks, for one href of the page at baseUrl.                      *)

Unanchored(link) ==
  LET hashes == {i \in DOMAIN link : link[i] = "#"}
  IN IF hashes = {} THEN link
     ELSE SubSeq(link, 1, (CHOOSE i \in hashes : \A j \in hashes : i <= j) - 1)

\* Mutant: a link from the root is taken from the page.
FromPage(link, baseUrl) == IF link[1] \in Scheme THEN link ELSE baseUrl \o <<"/">> \o link

Absolute(link, baseUrl) ==
  CASE link[1] \in Scheme -> link
    [] link[1] = "/"      -> <<Parse(baseUrl).protocol>> \o Parse(baseUrl).hostName \o link
    [] OTHER              -> baseUrl \o <<"/">> \o link

Trimmed(link) == IF Last(link) = "/" THEN Front(link) ELSE link

\* No link, or the one that goes into the queue.
Extract(href, baseUrl) ==
  LET link == Unanchored(href)
  IN IF link = <<>> THEN {} ELSE {Trimmed(Absolute(link, baseUrl))}

-----------------------------------------------------------------------------
\* A page of a site: where it is, and its URL without a slash at its end.
Site == [scheme : Scheme, host : Host]
Rooted(path) == FlattenSeq([i \in DOMAIN path |-> <<"/", path[i]>>])
UrlOf(site, path) == <<site.scheme, site.host>> \o Rooted(path)

\* The ways to write a link to it on a page of the same site.
Spellings(site, path) ==
  LET full   == UrlOf(site, path)
      rooted == IF path = <<>> THEN {<<"/">>} ELSE {Rooted(path), Rooted(path) \o <<"/">>}
      plain  == {full, full \o <<"/">>} \cup rooted
  IN plain \cup {l \o <<"#">> : l \in plain} \cup {l \o <<"#", n>> : l \in plain, n \in Name}

\* However a link to a page is written, and on whatever page of its site, it
\* goes into the queue under one URL, which visitedUrls can recognise, which
\* fetchPage can parse, and which asks the host for that page.  A link without
\* a slash in front is not among them: it is hung below the page it stands on,
\* even when that page is not a directory.
OneUrl(site, path, from) ==
  \A l \in Spellings(site, path) :
    \A base \in {UrlOf(site, from)} \cup Extract(UrlOf(site, from) \o <<"/">>, UrlOf(site, from)) :
      /\ Extract(l, base) = {UrlOf(site, path)}
      /\ Parses(UrlOf(site, path))
      /\ Parse(UrlOf(site, path)) =
           [protocol |-> site.scheme, hostName |-> <<site.host>>,
            query |-> IF path = <<>> THEN <<"/">> ELSE Rooted(path)]
=============================================================================
