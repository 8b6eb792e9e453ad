------------------------------- MODULE LogTail -------------------------------
(* What the kernel log promises whoever prints it: the characters logged     *)
(* since it was last cleared, in order, or the last Size of them.            *)
EXTENDS Integers, Sequences

CONSTANTS Size, Char

VARIABLE tail

Init == tail = <<>>

Put(c) ==
    tail' = IF Len(tail) < Size
            THEN Append(tail, c)
            ELSE Append(SubSeq(tail, 2, Len(tail)), c)

Clear == tail' = <<>>

Next == Clear \/ \E c \in Char : Put(c)

Spec == Init /\ [][Next]_tail
=============================================================================
