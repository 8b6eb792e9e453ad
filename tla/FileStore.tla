----------------------------- MODULE FileStore -----------------------------
(* What the ramdisk promises its users: a file reads back as it was last     *)
(* written, and an operation on one name never touches another file.  A      *)
(* write that fails for lack of memory may cost the file it was replacing,   *)
(* and what is written to the empty name is no file's.                       *)
EXTENDS Integers

CONSTANTS Name, Text,
    NoName,   \* the empty name, which is no file's
    Absent    \* what a name that is no file reads back as, no text

VARIABLES content,   \* what each name reads back as
          asked,     \* the name the last operation was for
          result     \* what it returned

vars == <<content, asked, result>>

Init ==
    /\ content = [n \in Name |-> Absent]
    /\ asked = NoName /\ result = 0

Write(n, t) ==
    /\ content' = [content EXCEPT ![n] = t]
    /\ asked' = n /\ result' = 0

\* No slot for a new name, or no memory for the text.
WriteFails(n) ==
    /\ content' = [content EXCEPT ![n] = Absent]
    /\ asked' = n /\ result' = -1

\* The text of a file without a name is lost, even when the answer is 0.
WriteNameless ==
    /\ asked' = NoName /\ result' \in {0, -1}
    /\ UNCHANGED content

Delete(n) ==
    /\ content[n] # Absent
    /\ content' = [content EXCEPT ![n] = Absent]
    /\ asked' = n /\ result' = 0

DeleteFails(n) ==
    /\ content[n] = Absent
    /\ asked' = n /\ result' = -1
    /\ UNCHANGED content

Next ==
    \/ WriteNameless
    \/ \E n \in Name :
          \/ \E t \in Text : Write(n, t)
          \/ WriteFails(n)
          \/ Delete(n)
          \/ DeleteFails(n)

Spec == Init /\ [][Next]_vars
=============================================================================
