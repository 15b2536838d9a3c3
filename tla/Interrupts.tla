------------------------------ MODULE Interrupts ------------------------------
(***************************************************************************)
(* How the processor gets into a handler and out of it: the two interrupt  *)
(* controllers, the gates of the IDT, the words the stubs push under the C *)
(* handlers, and the interrupt flag.                                       *)
(***************************************************************************)
EXTENDS Integers, Sequences, FiniteSets

CONSTANT Lines           \* the interrupt lines devices of the machine raise

ASSUME LinesAssumption == Lines \subseteq (0 .. 15) \ {2}

VARIABLES
  enabled,               \* the interrupt flag of eflags
  frames,                \* the handlers entered and not left, newest first
  raised,                \* lines with an interrupt the controllers hold
  served                 \* lines acknowledged, with no end of interrupt yet

intrVars == <<enabled, frames, raised, served>>

-----------------------------------------------------------------------------
(* The IDT *)

InterruptGate == 14      \* the type of a gate that clears the interrupt flag
SyscallVector == 128

\* Broken variants: trap gates, which leave the interrupt flag alone.
gate_Trap(n) == [flags |-> IF n = SyscallVector THEN 239 ELSE 143]

gate_SyscallTrap(n) == [flags |-> IF n = SyscallVector THEN 239 ELSE 142]

\* 0x8E, and 0xEE for the gate programs may call.
idt_gate(n) == [flags |-> IF n = SyscallVector THEN 238 ELSE 142]

ClearsFlag(n) == idt_gate(n).flags % 16 = InterruptGate

-----------------------------------------------------------------------------
(* The stack of a handler, the word pushed last first.  A word nothing     *)
(* here reads is 0.                                                        *)

\* Vectors for which the processor pushes an error code.  The kernel turns on
\* nothing that raises 21 or 29, and its stubs take these for vectors without.
PushesErrorCode(n) == n \in {8} \cup 10 .. 14 \cup {17, 21, 29, 30}

ProcessorWords(n, ring, flag) ==
  (IF PushesErrorCode(n) THEN <<0>> ELSE <<>>)
    \o <<0, ring, flag>> \o (IF ring = 3 THEN <<0, 0>> ELSE <<>>)

\* Broken variant: the number is pushed before the error code.
StubWords_Swapped(n) ==
  IF n = SyscallVector \/ n \notin {8} \cup 10 .. 14 \cup {17, 30}
  THEN <<0, n>> ELSE <<n>>

\* ISR_ERRCODE, ISR_NOERRCODE and IRQ push the number last; syscall_entry
\* pushes it first, and its handler does not read it.
StubWords(n) ==
  CASE n = SyscallVector                          -> <<0, SyscallVector>>
    [] n \in {8} \cup 10 .. 14 \cup {17, 30}      -> <<n>>
    [] OTHER                                      -> <<n, 0>>

\* pusha, and then ds.
CommonWords == [k \in 1 .. 9 |-> 0]

\* registers_t, as a handler reads it from the stack.
registers_t == <<"ds", "edi", "esi", "ebp", "esp", "ebx", "edx", "ecx", "eax",
                 "interrupt_number", "error_code", "eip", "cs", "eflags">>

Regs(n, ring, flag) ==
  LET words == CommonWords \o StubWords(n) \o ProcessorWords(n, ring, flag)
      at(f) == words[CHOOSE k \in DOMAIN registers_t : registers_t[k] = f]
  IN  [interrupt_number |-> at("interrupt_number"), cs |-> at("cs"),
       eflags |-> at("eflags")]

-----------------------------------------------------------------------------
(* The controllers *)

\* pic_remap(0x20, 0x28): the vector of a line.
pic_remap(line) == IF line < 8 THEN 32 + line ELSE 40 + (line - 8)

\* The line of the first controller an interrupt comes through.
Through(line) == IF line < 8 THEN line ELSE 2

First(S) == CHOOSE x \in S : \A y \in S : x <= y

\* A controller passes an interrupt on while it serves none as urgent, and
\* the more urgent of two first.
Passes(line) ==
  /\ line \in raised
  /\ \A s \in served : IF s < 8 THEN Through(line) < s ELSE line < s
  /\ \A o \in raised \ {line} :
       IF Through(line) = Through(o) THEN line < o ELSE Through(line) < Through(o)

\* Broken variant: the second controller is never told.
pic_send_eoi_FirstOnly(irq) == served \ {First(served \cap 0 .. 7)}

\* An end of interrupt stands for the most urgent line in service.
pic_send_eoi(irq) ==
  LET low  == served \cap 0 .. 7
      high == served \cap 8 .. 15
  IN  served \ ((IF low # {} THEN {First(low)} ELSE {})
                  \cup (IF irq >= 8 /\ high # {} THEN {First(high)} ELSE {}))

-----------------------------------------------------------------------------
(* Entering and leaving a handler *)

Frame(n, ring) == [vector |-> n, regs |-> Regs(n, ring, enabled), step |-> "handler"]

Enter(n, ring) ==
  /\ frames' = <<Frame(n, ring)>> \o frames
  /\ enabled' = (enabled /\ ~ ClearsFlag(n))

\* The handler is about to return through popa and iret.
Returns == frames' = [frames EXCEPT ![1].step = "iret"]

raise(line) ==
  /\ line \notin raised
  /\ raised' = raised \cup {line}
  /\ UNCHANGED <<enabled, frames, served>>

interrupt(line, ring) ==
  /\ enabled /\ Passes(line)
  /\ Enter(pic_remap(line), ring)
  /\ raised' = raised \ {line}
  /\ served' = served \cup {line, Through(line)}

iret ==
  /\ frames # <<>> /\ frames[1].step = "iret"
  /\ enabled' = frames[1].regs.eflags
  /\ frames' = Tail(frames)
  /\ UNCHANGED <<raised, served>>

\* Interrupts are on once idt_init has run sti.
InterruptsOn == enabled = TRUE /\ frames = <<>> /\ raised = {} /\ served = {}

-----------------------------------------------------------------------------
(* Properties *)

InterruptsTypeOK ==
  /\ enabled \in BOOLEAN
  /\ raised \subseteq Lines /\ served \subseteq Lines \cup {2}

\* The line, and the line of the first controller, a handler answers.
Answers(f) ==
  LET line == f.regs.interrupt_number - 32
  IN  IF f.vector \in 32 .. 47 /\ f.step = "handler" THEN {line, Through(line)} ELSE {}

\* Handlers of interrupts never nest, nor do they come into a system call: one
\* handler runs at a time, with interrupts off until it is left, and a line is in
\* service exactly while the handler that the stub's words select for it runs.
\* Exceptions are those of programs.  One inside a handler, as over a pointer a
\* program passed, does nest in the code, and is not modelled.
HandlersSerial ==
  /\ Len(frames) <= 1
  /\ enabled <=> frames = <<>>
  /\ served = UNION {Answers(frames[k]) : k \in DOMAIN frames}
=============================================================================
