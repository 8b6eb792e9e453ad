-------------------------------- MODULE MCPmm --------------------------------
(* Small machines for Pmm: frames of two bytes, frames 0 and 1 below "1 MiB".*)
EXTENDS Pmm

U(base, length) == [base |-> base, length |-> length, usable |-> TRUE]
R(base, length) == [base |-> base, length |-> length, usable |-> FALSE]

MCMemmaps == {
    \* low memory, a hole, one region that hosts the bitmap in its first frame
    <<U(0, 4), R(4, 2), U(6, 14)>>,
    \* two regions with a hole between them, listed out of order; the first
    \* region is too small for the bitmap of 3 bytes, which takes two frames
    <<U(28, 8), R(16, 12), U(4, 2), U(10, 6)>>,
    \* every region above 1 MiB is smaller than the bitmap
    <<U(0, 4), U(6, 2), R(8, 24), U(32, 2)>>,
    \* usable memory below 1 MiB only
    <<U(0, 4), R(4, 4)>>,
    \* no usable memory at all
    <<R(0, 8)>> }
=============================================================================
