----------------------------- MODULE MemoryPool -----------------------------
(* What callers expect of a heap: regions of memory that never overlap and   *)
(* that nobody but their owner ever moves, resizes or takes away.  There is  *)
(* no list, no header and no page; a request may always be refused.          *)
EXTENDS Integers

CONSTANT Address    \* the bytes a region may be made of

VARIABLE regions    \* [start, size] of the regions handed out

Bytes(r) == r.start .. (r.start + r.size - 1)

Init == regions = {}

\* A region with bytes of its own; one of size 0 has none, but still a start
\* no other region has.
Fresh(r) ==
    /\ Bytes(r) \subseteq Address
    /\ \A q \in regions : r.start # q.start /\ Bytes(r) \cap Bytes(q) = {}

Give ==
    \E r \in regions' :
        /\ Fresh(r)
        /\ regions' = regions \cup {r}

TakeBack == \E r \in regions : regions' = regions \ {r}

\* Both halves of a reallocation: the new region is given while the old one
\* is still there to be copied from.
Move ==
    \E r \in regions' :
        /\ Fresh(r)
        /\ \E old \in regions :
              /\ old.size < r.size
              /\ regions' = (regions \cup {r}) \ {old}

Next == Give \/ TakeBack \/ Move

Spec == Init /\ [][Next]_regions
=============================================================================
