-------------------------------- MODULE Idt --------------------------------
(* Exceptions as kernel/idt.c handles them: the processor pushes a frame and *)
(* enters a gate, stubs and isr_common run one instruction a step, and iretq *)
(* pops whatever lies on the stack.  Words are numbers; the stack is a       *)
(* sequence with its top, where rsp points, first.                           *)
EXTENDS Integers, Sequences

CONSTANTS
    Vectors,      \* the exceptions the program raises
    Numbers,      \* the numbers it passes to irq_register
    ErrorCodes,   \* the vectors for which the processor pushes an error code
    Gdts,         \* the descriptor tables a boot loader may leave, each as the
                  \* set of selectors that name a 64-bit code segment
    Length        \* bound: the program is a loop of so many instructions

IDT_ENTRIES == 256

\* The vectors with a stub of their own; the other gates are isr_common.
Stubs == {0, 6, 8, 13, 14}

\* Registers in the order isr_common saves them.
Registers == <<"rax", "rbx", "rcx", "rdx", "rsi", "rdi", "rbp",
               "r8", "r9", "r10", "r11", "r12", "r13", "r14", "r15">>

\* Those a C function may change.
CallerSaved == {"rax", "rcx", "rdx", "rsi", "rdi", "r8", "r9", "r10", "r11"}

NoCause == -1

ASSUME IdtAssumption ==
    /\ Vectors \subseteq 0 .. 31
    /\ Numbers \subseteq Int
    /\ ErrorCodes \subseteq 0 .. 31
    /\ \A gdt \in Gdts : gdt \subseteq Nat
    /\ Length \in Nat \ {0}

\* Words that cannot be mistaken for one another: the frame's, the error code,
\* what a call leaves in a register, the registers' and the program's.
CS == -2
RFLAGS == -3
RSP == -4
SS == -5
ErrorCode == -6
Changed == -7
RegisterWord(i) == 300 + i
Address(i) == 400 + i

VARIABLES
    todo,       \* the instructions left of the entry code, none in the program
    regs,       \* the registers
    stack,      \* the words from rsp upwards, of those pushed since the fault
    rip,        \* the instruction of the program
    cause,      \* the vector that instruction raises as long as nobody helps
    handlers,   \* irq_handlers: number -> what its handler does
    lost,       \* the processor runs something that is no program
    code64,     \* the 64-bit code segments: the kernel loads no table of its own
    down        \* a triple fault has reset the machine

machine == <<code64, down>>

idt_vars == <<todo, regs, stack, rip, cause, handlers, lost, machine>>

ProgramRegs == [r \in {Registers[i] : i \in DOMAIN Registers} |->
                    RegisterWord(CHOOSE i \in DOMAIN Registers : Registers[i] = r)]

IdtInit ==
    /\ todo = <<>>
    /\ regs = ProgramRegs
    /\ stack = <<>>
    /\ rip = Address(0)
    /\ cause \in Vectors \cup {NoCause}
    /\ handlers = <<>>
    /\ lost = FALSE
    /\ code64 \in Gdts
    /\ down = FALSE

-----------------------------------------------------------------------------
(* The entry code, as instructions.                                          *)

Instruction(op, reg, n) == [op |-> op, reg |-> reg, n |-> n]
Push(reg) == Instruction("push", reg, 0)
Pop(reg) == Instruction("pop", reg, 0)
PushNumber(n) == Instruction("number", "none", n)
Load(offset, reg) == Instruction("load", reg, offset)

Saves == [i \in DOMAIN Registers |-> Push(Registers[i])]

\* Faulty variant: the registers come back in the order they were saved.
RestoresForward == [i \in DOMAIN Registers |-> Pop(Registers[i])]

Restores == [i \in DOMAIN Registers |-> Pop(Registers[Len(Registers) + 1 - i])]

\* Faulty variant: the two words are taken for one another.
IsrCommonSwapped ==
    Saves \o <<Load(128, "rdi"), Load(120, "rsi"), Instruction("call", "none", 0)>>
          \o Restores \o <<Instruction("drop", "none", 16), Instruction("iretq", "none", 0)>>

IsrCommon ==
    Saves \o <<Load(120, "rdi"), Load(128, "rsi"), Instruction("call", "none", 0)>>
          \o Restores \o <<Instruction("drop", "none", 16), Instruction("iretq", "none", 0)>>

\* Faulty variant: the number goes below the error code.
StubSwapped(v) == <<PushNumber(v), PushNumber(0)>>

\* isr0, isr6, isr8, isr13, isr14, which jump to isr_common.
Stub(v) == <<PushNumber(0), PushNumber(v)>>

\* idt_init: what the gate of a vector leads to.
Gate(v) == IF v \in Stubs THEN Stub(v) \o IsrCommon ELSE IsrCommon

\* The code segment of a gate: idt_init gives all the same.
Selector(v) == 8

\* A processor in long mode enters a gate only by a 64-bit code segment.
Enterable(v) == Selector(v) \in code64

-----------------------------------------------------------------------------
(* The program.                                                              *)

Running == todo = <<>> /\ ~lost /\ ~down

\* An instruction that raises nothing, and what the next one will raise.
Execute ==
    /\ Running
    /\ cause = NoCause
    /\ rip' = Address((rip + 1 - Address(0)) % Length)
    /\ cause' \in Vectors \cup {NoCause}
    /\ UNCHANGED <<todo, regs, stack, handlers, lost, machine>>

\* irq_register; a handler removes the cause of its exception or does not.
IrqRegister(number, repairs) ==
    /\ Running
    /\ cause = NoCause
    /\ handlers' = IF number \in 0 .. IDT_ENTRIES - 1
                   THEN [k \in DOMAIN handlers \cup {number} |->
                            IF k = number THEN repairs ELSE handlers[k]]
                   ELSE handlers
    /\ UNCHANGED <<todo, regs, stack, rip, cause, lost, machine>>

\* The processor pushes its frame and enters the gate.
Fault ==
    /\ Running
    /\ cause # NoCause
    /\ Enterable(cause)
    /\ stack' = (IF cause \in ErrorCodes THEN <<ErrorCode>> ELSE <<>>)
                    \o <<rip, CS, RFLAGS, RSP, SS>>
    /\ todo' = Gate(cause)
    /\ UNCHANGED <<regs, rip, cause, handlers, lost, machine>>

\* The general protection fault (13) that a gate with another selector raises.
GeneralProtection == 13
DoubleFault == 8

\* A gate that cannot be entered is itself an exception, and so are the gates
\* that this one and the next lead to: the processor gives up.
TripleFault ==
    /\ Running
    /\ cause # NoCause
    /\ \A v \in {cause, GeneralProtection, DoubleFault} : ~Enterable(v)
    /\ down' = TRUE
    /\ UNCHANGED <<todo, regs, stack, rip, cause, handlers, lost, code64>>

-----------------------------------------------------------------------------
(* One instruction of the entry code.                                        *)

Does(op) ==
    /\ ~lost
    /\ todo # <<>>
    /\ Head(todo).op = op
    /\ todo' = Tail(todo)

Top == Head(todo)

DoPush ==
    /\ Does("push")
    /\ stack' = <<regs[Top.reg]>> \o stack
    /\ UNCHANGED <<regs, rip, cause, handlers, lost, machine>>

DoPushNumber ==
    /\ Does("number")
    /\ stack' = <<Top.n>> \o stack
    /\ UNCHANGED <<regs, rip, cause, handlers, lost, machine>>

DoPop ==
    /\ Does("pop")
    /\ regs' = [regs EXCEPT ![Top.reg] = Head(stack)]
    /\ stack' = Tail(stack)
    /\ UNCHANGED <<rip, cause, handlers, lost, machine>>

DoLoad ==
    /\ Does("load")
    /\ regs' = [regs EXCEPT ![Top.reg] = stack[Top.n \div 8 + 1]]
    /\ UNCHANGED <<stack, rip, cause, handlers, lost, machine>>

DoDrop ==
    /\ Does("drop")
    /\ stack' = SubSeq(stack, Top.n \div 8 + 1, Len(stack))
    /\ UNCHANGED <<regs, rip, cause, handlers, lost, machine>>

Number == regs["rdi"]

Repairs(n) == n \in DOMAIN handlers /\ handlers[n]

\* irq_dispatcher, with a number of the table or any other word: then the code
\* takes what it finds there for a handler, and returns if it is 0.
Dispatch ==
    /\ Does("call")
    /\ regs' = [r \in DOMAIN regs |-> IF r \in CallerSaved THEN Changed ELSE regs[r]]
    /\ IF Number \in 0 .. IDT_ENTRIES - 1
       THEN /\ cause' = IF Repairs(Number) THEN NoCause ELSE cause
            /\ UNCHANGED lost
       ELSE /\ cause' \in {cause, NoCause}
            /\ lost' \in BOOLEAN
    /\ UNCHANGED <<stack, rip, handlers, machine>>

\* iretq takes the top of the stack for a frame.
Iretq ==
    /\ Does("iretq")
    /\ IF Len(stack) >= 5 /\ SubSeq(stack, 2, 5) = <<CS, RFLAGS, RSP, SS>>
       THEN /\ rip' = Head(stack)
            /\ stack' = SubSeq(stack, 6, Len(stack))
            /\ UNCHANGED lost
       ELSE /\ lost' = TRUE
            /\ UNCHANGED <<rip, stack>>
    /\ UNCHANGED <<regs, cause, handlers, machine>>

Instructions == DoPush \/ DoPushNumber \/ DoPop \/ DoLoad \/ DoDrop \/ Dispatch \/ Iretq

IdtNext ==
    \/ Execute
    \/ \E number \in Numbers, repairs \in BOOLEAN : IrqRegister(number, repairs)
    \/ Fault
    \/ TripleFault
    \/ Instructions

\* The processor goes on: it takes the exception and runs the entry code, or
\* gives up.
IdtSpec == IdtInit /\ [][IdtNext]_idt_vars /\ WF_idt_vars(Fault \/ TripleFault \/ Instructions)

-----------------------------------------------------------------------------
(* Properties.                                                               *)

\* When the program runs, it runs with its own registers and nothing of the
\* entry code on its stack, however often and at whatever instruction it was
\* interrupted: the pops undo the pushes, and what a handler did to the
\* registers is undone with them.
ProgramUndisturbed == Running => regs = ProgramRegs /\ stack = <<>>

\* The entry code agrees with what lies on the stack.  Every stub tells the
\* dispatcher the number of its exception and an error code of 0, also where the
\* processor pushed another; and the processor loses its way only by an exception
\* that pushes more, or less, than the gate expects: one without a stub, for which
\* isr_common drops two words of the frame, or one with an error code, which stays
\* on the stack in front of the frame.
StackAgreed ==
    /\ todo # <<>> /\ Head(todo).op = "call" /\ cause \in Stubs
          => regs["rdi"] = cause /\ regs["rsi"] = 0
    /\ lost => cause \notin Stubs \ ErrorCodes

\* What becomes of an exception.  Where the boot loader left a 64-bit code segment
\* at the selector of the gates (idt.c:110), one whose handler repairs its cause is
\* over after a while, and one that nobody handles is raised again and again: the
\* instruction never gets done (crash, commands.c:131), and nothing stops the
\* machine.  Where it did not, no handler that irq_register took ever runs, and any
\* exception resets the machine at the instruction that raised it.
RepairedRepeatedOrReset ==
    /\ \A v \in Stubs \ ErrorCodes :
        /\ (cause = v /\ Running /\ Repairs(v) /\ Enterable(v)) ~> (Running /\ cause = NoCause)
        /\ [](cause = v /\ ~Repairs(v) /\ Enterable(v) => []<>(Running /\ cause = v))
    /\ \A v \in Vectors : (cause = v /\ Running /\ ~Enterable(v)) ~> [](down /\ cause = v)
=============================================================================
