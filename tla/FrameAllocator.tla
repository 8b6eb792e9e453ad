--------------------------- MODULE FrameAllocator ---------------------------
(* What the kernel expects of its frame allocator, with no bitmap and no     *)
(* count: frames leave a pool one at a time, come back, and a request is     *)
(* refused only when the pool is empty.                                      *)
CONSTANTS Frame,   \* what can be handed out
          None     \* the answer "out of memory", no frame

VARIABLES pool,    \* frames that may be handed out
          out,     \* frames handed out and not returned
          answer   \* what the last request was told

vars == <<pool, out, answer>>

Init == pool = {} /\ out = {} /\ answer = None

\* The machine's memory becomes known.
Open ==
    /\ pool = {} /\ out = {}
    /\ pool' \subseteq Frame
    /\ UNCHANGED <<out, answer>>

Give(f) ==
    /\ f \in pool
    /\ pool' = pool \ {f}
    /\ out' = out \cup {f}
    /\ answer' = f

Refuse ==
    /\ pool = {}
    /\ answer' = None
    /\ UNCHANGED <<pool, out>>

TakeBack(f) ==
    /\ f \in out
    /\ pool' = pool \cup {f}
    /\ out' = out \ {f}
    /\ UNCHANGED answer

Next ==
    \/ Open
    \/ Refuse
    \/ \E f \in Frame : Give(f) \/ TakeBack(f)

Spec == Init /\ [][Next]_vars
=============================================================================
