------------------------------- MODULE MCIdt --------------------------------
EXTENDS Idt

\* Division by zero and an invalid instruction; no device, which has no stub; a
\* general protection fault, with a stub and an error code; a misaligned
\* access, with an error code and no stub.
Raised == {0, 6, 7, 13, 17}
Registered == {-1, 0, 6, 13, 256}
WithErrorCode == {8, 10, 11, 12, 13, 14, 17}

\* The table Limine leaves, whose 64-bit code segment is at 40 (at 8 it has one of
\* 16 bits), and a table as idt.c takes it for.
Loaders == {{40}, {8}}
=============================================================================
