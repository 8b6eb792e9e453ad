----------------------------- MODULE BlockDevice -----------------------------
(* What a block device promises: what was stored at a place is read back     *)
(* from there until it is overwritten, a transfer stops at the end of the    *)
(* device, and its answer says how many bytes it moved.                      *)
EXTENDS Integers, Sequences

CONSTANTS
    Size,
    Offsets, Contents,   \* where transfers begin, and what is written
    Nothing              \* the answer when the last operation was not on this device

VARIABLES stored,   \* the bytes, from 0 to Size - 1
          answer    \* [off, n, bytes]: from where, how many moved, and those read

vars == <<stored, answer>>

Init ==
    /\ stored = [k \in 0 .. Size - 1 |-> 0]
    /\ answer = Nothing

\* How much of len bytes lies before the end.
Room(off, len) == IF off >= Size THEN 0 ELSE IF off + len <= Size THEN len ELSE Size - off

Read(off, len) ==
    /\ answer' = [off |-> off, n |-> Room(off, len),
                  bytes |-> [i \in 1 .. Room(off, len) |-> stored[off + i - 1]]]
    /\ UNCHANGED stored

Write(off, bytes) ==
    LET n == Room(off, Len(bytes))
    IN  /\ stored' = [k \in 0 .. Size - 1 |->
                        IF k \in off .. off + n - 1 THEN bytes[k - off + 1] ELSE stored[k]]
        /\ answer' = [off |-> off, n |-> n, bytes |-> <<>>]

Elsewhere == answer' = Nothing /\ UNCHANGED stored

\* Reads are as long as writes are.
Next ==
    \/ \E off \in Offsets, bytes \in Contents : Read(off, Len(bytes)) \/ Write(off, bytes)
    \/ Elsewhere

Spec == Init /\ [][Next]_vars
=============================================================================
