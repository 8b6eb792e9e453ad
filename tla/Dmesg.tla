-------------------------------- MODULE Dmesg --------------------------------
(* The kernel log of kernel/dmesg.c: a ring of characters filled by dmesg,   *)
(* dmesg_int and dmesg_hex and printed from the oldest on by dmesg_foreach.  *)
(* One step is one dmesg_putc, so that an exception or a reader in the       *)
(* middle of a message finds a state of this model.                          *)
(*                                                                           *)
(* A character is a number: a digit is its value, other characters follow.   *)
EXTENDS Integers, Sequences

CONSTANTS
    DMESG_BUF_SIZE,   \* 4096
    Char,             \* the characters
    Ex,               \* the character x of 0x
    Messages,         \* strings passed to dmesg
    Numbers,          \* values passed to dmesg_int
    Words,            \* values passed to dmesg_hex
    Base,             \* 10
    HexBase,          \* 16
    HexWidth,         \* 16 digits for 64 bits
    SeqMod            \* 2^32, the range of the counter seq

-----------------------------------------------------------------------------
(* How dmesg_int and dmesg_hex write a number.                               *)

\* Faulty variant: the digits come out as they are produced, lowest first.
DecimalReversed(n) ==
    LET left[k \in 0 .. n] == IF k = 0 THEN <<>> ELSE <<k % Base>> \o left[k \div Base]
    IN  IF n = 0 THEN <<0>> ELSE left[n]

\* dmesg_int puts the digits in front of one another until nothing is left;
\* 0 has no digit and is a case of its own.
Decimal(n) ==
    LET left[k \in 0 .. n] == IF k = 0 THEN <<>> ELSE Append(left[k \div Base], k % Base)
    IN  IF n = 0 THEN <<0>> ELSE left[n]

\* n >> (i * 4): without its last places.
Shifted(n, places) ==
    LET rest[k \in 0 .. HexWidth] == IF k = 0 THEN n ELSE rest[k - 1] \div HexBase
    IN  rest[places]

Hex(n) == <<0, Ex>> \o [i \in 1 .. HexWidth |-> Shifted(n, HexWidth - i) % HexBase]

ASSUME DmesgAssumption ==
    /\ DMESG_BUF_SIZE \in Nat \ {0}
    /\ SeqMod \in Nat \ {0}
    /\ 0 \in Char /\ Ex \in Char
    /\ Messages \subseteq Seq(Char)
    /\ \A n \in Numbers : Decimal(n) \in Seq(Char)
    /\ \A n \in Words : Hex(n) \in Seq(Char)

\* A word has no more digits than are printed, and a number fits the ring.
ASSUME NumbersAssumption ==
    /\ {Base, HexBase} \subseteq Nat \ {0, 1}
    /\ HexWidth \in Nat /\ HexWidth + 2 <= DMESG_BUF_SIZE
    /\ Numbers \subseteq Nat /\ Words \subseteq Nat
    /\ \A n \in Numbers : Len(Decimal(n)) <= DMESG_BUF_SIZE
    /\ \A n \in Words : Shifted(n, HexWidth) = 0

-----------------------------------------------------------------------------

VARIABLES
    buf, head, count, seq,   \* the statics of dmesg.c
    todo,    \* what the call in progress has still to put
    call     \* the call in progress or the last one: [kind, arg, done]

vars == <<buf, head, count, seq, todo, call>>

NoCall == [kind |-> "none", arg |-> 0, done |-> TRUE]

\* dmesg_init.
Init ==
    /\ buf = [k \in 0 .. DMESG_BUF_SIZE - 1 |-> 0]
    /\ head = 0
    /\ count = 0
    /\ seq = 0
    /\ todo = <<>>
    /\ call = NoCall

Begin(kind, arg, text) ==
    /\ call.done
    /\ call' = [kind |-> kind, arg |-> arg, done |-> FALSE]
    /\ todo' = text
    /\ UNCHANGED <<buf, head, count, seq>>

Log(msg) == Begin("string", msg, msg)
LogInt(n) == Begin("int", n, Decimal(n))
LogHex(n) == Begin("hex", n, Hex(n))

\* dmesg_putc, once for each character.
Putc ==
    /\ todo # <<>>
    /\ buf' = [buf EXCEPT ![head] = Head(todo)]
    /\ head' = (head + 1) % DMESG_BUF_SIZE
    /\ count' = IF count < DMESG_BUF_SIZE THEN count + 1 ELSE count
    /\ todo' = Tail(todo)
    /\ UNCHANGED <<seq, call>>

\* The end of the call.  Only dmesg counts it: dmesg_hex and dmesg_int(0) put
\* their characters without it.
Return ==
    /\ ~call.done /\ todo = <<>>
    /\ call' = [call EXCEPT !.done = TRUE]
    /\ seq' = IF call.kind = "string" \/ (call.kind = "int" /\ call.arg # 0)
              THEN (seq + 1) % SeqMod ELSE seq
    /\ UNCHANGED <<buf, head, count, todo>>

\* Faulty variant: the write position stays where it was.
ClearKeepsHead ==
    /\ call.done
    /\ count' = 0
    /\ call' = NoCall
    /\ UNCHANGED <<buf, head, seq, todo>>

\* dmesg_clear: seq is kept, and so are the characters, out of sight.
Clear ==
    /\ call.done
    /\ head' = 0
    /\ count' = 0
    /\ call' = NoCall
    /\ UNCHANGED <<buf, seq, todo>>

Next ==
    \/ \E msg \in Messages : Log(msg)
    \/ \E n \in Numbers : LogInt(n)
    \/ \E n \in Words : LogHex(n)
    \/ Putc
    \/ Return
    \/ Clear

Spec == Init /\ [][Next]_vars

-----------------------------------------------------------------------------
(* dmesg_foreach: what it passes to its callback, in order.                  *)

\* Faulty variant: the oldest character is always looked for at 0.
ShownFromZero == [i \in 1 .. count |-> buf[(i - 1) % DMESG_BUF_SIZE]]

Shown ==
    LET start == IF count < DMESG_BUF_SIZE THEN 0 ELSE head
        len   == IF count < DMESG_BUF_SIZE THEN count ELSE DMESG_BUF_SIZE
    IN  [i \in 1 .. len |-> buf[(start + i - 1) % DMESG_BUF_SIZE]]

-----------------------------------------------------------------------------
(* Properties.                                                               *)

TypeOK ==
    /\ buf \in [0 .. DMESG_BUF_SIZE - 1 -> Char]
    /\ head \in 0 .. DMESG_BUF_SIZE - 1
    /\ count \in 0 .. DMESG_BUF_SIZE
    /\ seq \in 0 .. SeqMod - 1
    /\ todo \in Seq(Char)
    /\ call.done \in BOOLEAN
    /\ call.done => todo = <<>>

\* The ring is filled from 0 on, and the write position leaves 0 behind only
\* by filling it: dmesg_foreach relies on it when it starts at 0 or at head.
RingFilled == count < DMESG_BUF_SIZE => head = count

IInv == TypeOK /\ RingFilled

\* The number that a sequence of digits stands for.
ValueOf(digits, base) ==
    LET value[i \in 0 .. Len(digits)] ==
            IF i = 0 THEN 0 ELSE base * value[i - 1] + digits[i]
    IN  value[Len(digits)]

\* s, or the last n characters of it.
LastOf(s, n) == IF Len(s) <= n THEN s ELSE SubSeq(s, Len(s) - n + 1, Len(s))

\* A number that was logged reads back from the end of the log as that number:
\* no digit is lost, doubled or out of order, whatever the ring held before and
\* wherever in the ring the number begins.
NumbersReadBack ==
    call.done =>
        /\ call.kind = "int" =>
              \E k \in 1 .. Len(Shown) :
                  /\ ValueOf(LastOf(Shown, k), Base) = call.arg
                  /\ LastOf(Shown, k)[1] = 0 => call.arg = 0
        /\ call.kind = "hex" =>
              ValueOf(LastOf(Shown, HexWidth), HexBase) = call.arg

\* What dmesg prints is the log: in order, from the last clear on, and nothing
\* but the oldest characters lost when the ring is full.
Abstract ==
    INSTANCE LogTail WITH Size <- DMESG_BUF_SIZE, tail <- Shown

ImplementsLogTail == Abstract!Spec
=============================================================================
