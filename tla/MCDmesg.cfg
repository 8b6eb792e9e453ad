SPECIFICATION Spec
CONSTANTS
    DMESG_BUF_SIZE = 4
    Char = {0, 1, 2, 3}
    Ex = 2
    Messages <- MCMessages
    Numbers = {0, 1, 6, 13}
    Words = {1, 2}
    Base = 2
    HexBase = 2
    HexWidth = 2
    SeqMod = 3
INVARIANTS
    RingFilled
    NumbersReadBack
PROPERTY
    ImplementsLogTail
