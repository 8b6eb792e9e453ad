----------------------------- MODULE MCRamdisk -----------------------------
(* Two slots and three names, with the empty one, on a heap of a few pages   *)
(* of 12 bytes, so that the table and the memory both run out.               *)
EXTENDS Ramdisk, TLC

CONSTANTS fileA, fileB, fileC, Top

MCMemmap == << [base |-> 36, length |-> Top - 36, usable |-> TRUE] >>

MCTexts == {[id |-> "short", size |-> 2], [id |-> "other", size |-> 2],
            [id |-> "long", size |-> 8]}

\* As much as a small file, and as much as a page.
MCTestSizes == {4, 10}

\* The names are alike: no operation orders them.
Files == Permutations({fileA, fileB, fileC})
=============================================================================
