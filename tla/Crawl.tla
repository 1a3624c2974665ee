---------------------------------- MODULE Crawl ----------------------------------
(***************************************************************************)
(* What the crawler promises of a crawl that nobody shuts down: from the   *)
(* starting page it fetches every page it has found exactly once, it finds *)
(* pages only through links of the page it is following up, until it has   *)
(* once mixed up the texts of two links, and it declares the crawl         *)
(* finished only when no page it has found is left.                        *)
(***************************************************************************)
EXTENDS FiniteSets, Sequences

CONSTANTS Pages, Start,
          Links          \* Links[p]: the links in page p, in the page's order

VARIABLES found,         \* the pages found so far
          fetched,       \* the pages whose links have been followed up
          finished,
          mixed          \* from now on what is found need not be a link of the page

LinkedFrom(p) == {Links[p][i] : i \in DOMAIN Links[p]}

CrawlInit == found = {Start} /\ fetched = {} /\ finished = FALSE /\ mixed = FALSE

\* A link of a page that is being followed up leads to another page.
Follow(p) == /\ ~finished
             /\ p \in found \ fetched
             /\ \E q \in IF mixed THEN Pages ELSE LinkedFrom(p) : found' = found \cup {q}
             /\ UNCHANGED <<fetched, finished, mixed>>

\* The text of a link is another's.
Mix == /\ ~finished
       /\ mixed' = TRUE
       /\ UNCHANGED <<found, fetched, finished>>

\* The links of p have been followed up, or as many of them as ever will be.
Fetch(p) == /\ ~finished
            /\ p \in found \ fetched
            /\ fetched' = fetched \cup {p}
            /\ UNCHANGED <<found, finished, mixed>>

Finish == /\ found = fetched
          /\ finished' = TRUE
          /\ UNCHANGED <<found, fetched, mixed>>

CrawlNext == (\E p \in Pages : Follow(p) \/ Fetch(p)) \/ Mix \/ Finish

CrawlSpec == CrawlInit /\ [][CrawlNext]_<<found, fetched, finished, mixed>>
================================================================================
