------------------------------- MODULE MCVmm -------------------------------
(* Tables of two entries, four levels of them: sixteen pages, eight in the   *)
(* lower half.  Page 3 is the last of its table and of the table above it, so *)
(* a range of two pages from there needs five tables.                        *)
EXTENDS Vmm

\* The bitmap in frame 2, frames 3 to frames - 1 to give.  The direct map
\* takes three of them, a page map one and its pages three or five more.
MCMemmap(frames) == <<
    [base |-> 0, length |-> PageSize, usable |-> FALSE],
    [base |-> 2 * PageSize, length |-> (frames - 2) * PageSize, usable |-> TRUE]>>

CONSTANT FrameCount
MachineMemmap == MCMemmap(FrameCount)

AnyCaller == {"returned", "physical"}
LastOfTable == {3}
OneTarget == {9}
UserFlags == {"USER"}
=============================================================================
