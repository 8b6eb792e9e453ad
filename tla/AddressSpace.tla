---------------------------- MODULE AddressSpace ----------------------------
(* What a virtual memory manager promises: every address space is a partial  *)
(* function from pages to what was mapped there last, and no operation on    *)
(* one of them, or on one page, shows in another.                            *)
EXTENDS Integers, Functions

CONSTANTS Id, Page, Frame, Flag,
    None    \* the answer when an operation has nothing to say

VARIABLES spaces,   \* address space -> (page -> [frame, flags])
          answer    \* what the last operation said

vars == <<spaces, answer>>

Init == spaces = <<>> /\ answer = None

Create(id) ==
    /\ id \notin DOMAIN spaces
    /\ answer' = None
    /\ spaces' = [i \in DOMAIN spaces \cup {id} |-> IF i = id THEN <<>> ELSE spaces[i]]

Destroy(id) ==
    /\ answer' = None
    /\ spaces' = Restrict(spaces, DOMAIN spaces \ {id})

\* s with n pages from page on mapped to n frames from frame on.
Mapped(s, page, frame, n, flags) ==
    [p \in DOMAIN s \cup (page .. page + n - 1) |->
        IF p \in page .. page + n - 1
        THEN [frame |-> frame + (p - page), flags |-> flags]
        ELSE s[p]]

\* A request for len pages that runs out of memory has mapped the first of
\* them, and says so.
Map(id, page, frame, len, flags) ==
    \E n \in 0 .. len :
        /\ answer' = [page |-> page, len |-> len, done |-> n = len]
        /\ spaces' = [spaces EXCEPT ![id] = Mapped(@, page, frame, n, flags)]

Unmap(id, page) ==
    /\ answer' = None
    /\ spaces' = [spaces EXCEPT ![id] = Restrict(@, DOMAIN @ \ {page})]

\* 0 stands for "not mapped".
Translate(id, page) ==
    /\ answer' = [page |-> page,
                  frame |-> IF page \in DOMAIN spaces[id]
                            THEN spaces[id][page].frame ELSE 0]
    /\ UNCHANGED spaces

\* A request refused for lack of memory.
Refuse == answer' = None /\ UNCHANGED spaces

Next ==
    \/ \E id \in Id : Create(id)
    \/ Refuse
    \/ \E id \in DOMAIN spaces :
          \/ Destroy(id)
          \/ \E page \in Page :
                \/ Unmap(id, page)
                \/ Translate(id, page)
                \/ \E frame \in Frame, len \in 1 .. 2, flags \in Flag :
                      Map(id, page, frame, len, flags)

Spec == Init /\ [][Next]_vars
=============================================================================
