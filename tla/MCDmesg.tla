------------------------------- MODULE MCDmesg -------------------------------
(* A ring of four characters and numbers in base 2: messages shorter than    *)
(* the ring, as long, and longer, so that they wrap at every position.       *)
EXTENDS Dmesg

MCMessages == { <<>>, <<3>>, <<3, 0, 3>>, <<3, 1, 0, 1, 3>> }
=============================================================================
