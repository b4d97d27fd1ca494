---------------------------- MODULE MCMemRegion -----------------------------
(* Regions for TLC, in units of 8 bytes; the fallback page has 4 units. *)
EXTENDS MemRegion

Region(pat, active, page, line) ==
    [pattern |-> pat, active |-> active, page |-> page, line |-> line]

\* One page, several, a remainder, a page larger than the region, a line that
\* does not divide the page.
MCParams ==
    {Region(pat, active, page, line) :
        pat \in Patterns, active \in {4, 6, 7, 8}, page \in {3, 4, 9}, line \in {1, 2}}
=============================================================================
