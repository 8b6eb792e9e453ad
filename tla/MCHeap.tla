------------------------------- MODULE MCHeap -------------------------------
(* Pages of 12 bytes with headers of 2: a page holds one block of 10, or two *)
(* small ones.  One region above "1 MiB": frame 3 holds the bitmap, the page *)
(* tables take frame 4, the heap gets the rest.                              *)
EXTENDS Heap

CONSTANT Top    \* the end of the region

MCMemmaps == {<< [base |-> 36, length |-> Top - 36, usable |-> TRUE] >>}

\* Small ones, a whole page, more than a page, more than the machine has.
MCRequests == {0, 3, 5, 10, 15, 40}

\* Two regions with one frame between them that is not usable.
MCHoleMemmaps == {<< [base |-> 36, length |-> 36, usable |-> TRUE],
                     [base |-> 72, length |-> 12, usable |-> FALSE],
                     [base |-> 84, length |-> 12, usable |-> TRUE] >>}

\* One that fits and one whose product overflows.
MCArrays == {<<2, 3>>, <<2, 40>>}
=============================================================================
