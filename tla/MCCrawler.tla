-------------------------------- MODULE MCCrawler --------------------------------
(***************************************************************************)
(* Instances of Crawler for TLC: small sites given by their links.         *)
(***************************************************************************)
EXTENDS Crawler, TLC

CONSTANTS t1, t2, t3, p1, p2, p3, p4, junk, s1, s2

TwoThreads == {t1, t2}
ThreeThreads == {t1, t2, t3}
ThreePages == {p1, p2, p3}
FourPages == {p1, p2, p3, p4}
WithJunk == FourPages \cup {junk}
\* directoryfile as an earlier crawl left it.
OneSite == {s1}

\* Every page has two links; p3 can be reached from p1 by second links only.
Triangle == p1 :> <<p2, p3>> @@ p2 :> <<p1, p3>> @@ p3 :> <<p1, p2>>
\* A diamond: p4 is found from two pages at once.
Diamond == p1 :> <<p2, p3>> @@ p2 :> <<p4>> @@ p3 :> <<p4>> @@ p4 :> <<p1>>
\* A chain, on which a single page at a time is left to download.
Chain == p1 :> <<p2>> @@ p2 :> <<p3>> @@ p3 :> <<p1>>
\* The diamond, and a text that strtok() may find elsewhere, which is no page: the
\* server's 404 reply has no links.
DiamondJunk == Diamond @@ junk :> <<>>

TwoSites3 == p1 :> s1 @@ p2 :> s1 @@ p3 :> s2
TwoSites4 == p1 :> s1 @@ p2 :> s1 @@ p3 :> s2 @@ p4 :> s2
TwoSitesJunk == TwoSites4 @@ junk :> s2

\* Threads are interchangeable; used where only safety is checked.
Symmetry == Permutations(TwoThreads) \cup Permutations(ThreeThreads)
================================================================================
