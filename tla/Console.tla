-------------------------------- MODULE Console --------------------------------
(***************************************************************************)
(* The screen and the keyboard as the kernel, the shell and the user share *)
(* them: kernel_main printing with interrupts on, the shell's loop over    *)
(* system calls, keys arriving at any moment, and programs the shell runs. *)
(*                                                                         *)
(* Text is written one character at a time, so an interrupt can come       *)
(* between two characters wherever interrupts are on.                      *)
(***************************************************************************)
EXTENDS Keyboard, Interrupts

CONSTANTS
  Chars,           \* the characters of a text
  BootCalls,       \* what kernel_main prints, as calls of the VGA driver
  TestAfter,       \* how many of these are left when it creates test_process
  TestCalls,       \* what test_process prints, the same way
  Message,         \* what an exception in a program prints, the same way
  Listings,        \* what fs_ls may print of a directory, the same way
  FileTexts,       \* contents of a file, in the pieces cat writes them
  Prompt, Failed,  \* "> " and "command failed\n"
  Command,         \* the names of the commands
  InputSize,       \* 50, the shell's line
  WordLimit,       \* 8, what tokenize_line calls the limit of words in a line
  DataSize,        \* 128, a line of the write command
  StackBytes,      \* what memory the shell's input array may come with
  Sessions         \* bound: the keys of a session, each its scan codes; how many
                   \* may come, how many of these while no read waits, and whether
                   \* test_process prints in it

\* What one call of the driver prints is no longer than the screen.
Texts    == {text \in Seq(Chars) : Len(text) <= Size}
VgaCalls == [name : {"write", "writeline", "digits"}, text : Texts]

ASSUME ConsoleAssumption ==
  /\ "\n" \in Chars
  /\ InputSize \in 1 .. Size /\ DataSize \in 1 .. Size /\ WordLimit \in Nat
  /\ \A s \in StackBytes : s \in Seq(Chars) /\ Len(s) = InputSize
  /\ Lines = {0, 1, 14}
  /\ BootCalls \in Seq(VgaCalls) /\ TestCalls \in Seq(VgaCalls) /\ Message \in Seq(VgaCalls)
  /\ TestAfter \in 0 .. Len(BootCalls)
  /\ \A calls \in Listings : calls \in Seq(VgaCalls)
  /\ \A pieces \in FileTexts : pieces \in Seq(Texts)
  /\ Prompt \in Seq(Chars) /\ Failed \in Seq(Chars)

VARIABLES
  terminal,        \* the screen and its cursor
  shift,           \* shift_pressed
  ps2,             \* scan codes the keyboard has sent and nobody has read
  keys,            \* the session, less the keys that came
  current,         \* the process that runs
  boot,            \* what kernel_main and test_process still print
  call,            \* the system call or exception being handled
  reading,         \* the shell's process_t, as far as a read of stdin goes
  shell,           \* the shell: see Init
  typed,           \* history: what the user has put into the line so far
  echo             \* history: where the line starts, and whether keys since
                   \* then took one cell each, and nobody else's print any

vars == <<intrVars, terminal, shift, ps2, keys, current, boot, call, reading,
          shell, typed, echo>>

KernelProcesses == {"kernel_main", "test_process"}
Processes       == KernelProcesses \cup {"shell", "child"}
Ring(p)         == IF p \in KernelProcesses THEN 0 ELSE 3

\* A program that runs its own code, no handler in between.
Runs(p) == frames = <<>> /\ current = p

-----------------------------------------------------------------------------
(* Printing *)

Call(name, text)  == [name |-> name, text |-> text]
Printing(calls)   == [calls |-> calls, done |-> 0, pos |-> 0, from |-> 0]
NothingToPrint(p) == p.calls = <<>>

\* vga_text_write_dec and vga_text_write_hex: a zero leaves the cursor alone.
Digit(t, text, c) == IF text = <<"0">> THEN vga_text_putchar(t, c) ELSE PutDigit(t, c)

\* The next character of the first call, or its end.
Printed(p, t) ==
  LET now  == Head(p.calls)
      pos  == IF p.done = 0 THEN Index(t) ELSE p.pos
      from == IF p.done = 0 THEN pos ELSE p.from
      c    == now.text[p.done + 1]
      next == IF now.name = "digits"
              THEN [terminal |-> Digit(t, now.text, c), pos |-> pos]
              ELSE WriteChar([terminal |-> t, pos |-> pos], c)
  IN  IF p.done = Len(now.text)
      THEN [terminal |-> IF now.name = "writeline" THEN NewLine(t) ELSE t,
            print |-> Printing(Tail(p.calls))]
      ELSE [terminal |-> next.terminal,
            print |-> [p EXCEPT !.done = @ + 1, !.pos = next.pos, !.from = from]]

\* printf of a constant string: a write of one character each.
printf(text) == [k \in DOMAIN text |-> <<text[k]>>]

-----------------------------------------------------------------------------
(* kernel_main and test_process *)

\* Both print with interrupts on, and then only wait.
kernel_prints ==
  \E p \in KernelProcesses :
    /\ Runs(p) /\ ~ NothingToPrint(boot[p])
    /\ terminal' = Printed(boot[p], terminal).terminal
    /\ boot' = [boot EXCEPT ![p] = Printed(boot[p], terminal).print]
    /\ echo' = [echo EXCEPT !.inStep = @ /\ reading.size = 0]
    /\ UNCHANGED <<intrVars, shift, ps2, keys, current, call, reading, shell, typed>>

\* kernel_main creates test_process between two lines, and loads the shell last.
Created == Len(boot["kernel_main"].calls) <= TestAfter
Loaded  == NothingToPrint(boot["kernel_main"])

\* Whom the scheduler may choose; its rule is in Procman.
Ready(r, s) ==
  {"kernel_main"} \cup (IF Created THEN {"test_process"} ELSE {})
                  \cup (IF Loaded /\ ~ r.blocked THEN {"shell"} ELSE {})
                  \cup (IF s.child THEN {"child"} ELSE {})

-----------------------------------------------------------------------------
(* Interrupts *)

\* A key is pressed or released: it may send one code or two.
press ==
  /\ ps2 = <<>>
  /\ keys.left > 0 /\ (reading.size > 0 \/ keys.ahead > 0)
  /\ keys' = [keys EXCEPT !.left = @ - 1, !.ahead = IF reading.size > 0 THEN @ ELSE @ - 1]
  /\ \E codes \in keys.set : ps2' = codes
  /\ raise(1)
  /\ UNCHANGED <<terminal, shift, current, boot, call, reading, shell, typed, echo>>

tick ==
  /\ raise(0)
  /\ UNCHANGED <<terminal, shift, ps2, keys, current, boot, call, reading, shell, typed, echo>>

accept(line) ==
  /\ interrupt(line, Ring(current))
  /\ UNCHANGED <<terminal, shift, ps2, keys, current, boot, call, reading, shell, typed, echo>>

\* What irq_handler finds in regs->interrupt_number.
Irq(n) == /\ frames # <<>> /\ frames[1].step = "handler"
          /\ frames[1].vector \in 32 .. 47
          /\ frames[1].regs.interrupt_number - 32 = n

\* The end of irq_handler; a keyboard with more to say raises its line again.
EndOfIrq(n, again) ==
  /\ served' = pic_send_eoi(n)
  /\ raised' = raised \cup again
  /\ Returns
  /\ UNCHANGED enabled

irq_timer ==
  /\ Irq(0)
  /\ current' \in Ready(reading, shell)
  /\ EndOfIrq(0, {})
  /\ UNCHANGED <<terminal, shift, ps2, keys, boot, call, reading, shell, typed, echo>>

\* Lines the handler has no case for.
irq_other ==
  /\ Irq(14)
  /\ EndOfIrq(14, {})
  /\ UNCHANGED <<terminal, shift, ps2, keys, current, boot, call, reading, shell, typed, echo>>

\* A key leaves cells and buffer in step unless it prints more or less than
\* one cell, or steps back to where the line was not.
InStep(c) ==
  /\ c \notin {"esc", "\t"}
  /\ c = "bs" => /\ reading.count > 0
                 /\ terminal.column = 0 =>
                      terminal.row > 0 /\ reading.bytes[reading.count] # Blank

\* What the user means a key to do to the line.
Edited(c) ==
  IF ~ Reads(reading, c) THEN typed
  ELSE IF c # "bs" THEN Append(typed, c)
  ELSE IF reading.count > 0 THEN Front(typed) ELSE typed

keyboard_key(c) ==
  /\ terminal' = Echoed(terminal, c)
  /\ reading' = Delivered(reading, c)
  /\ typed' = Edited(c)
  /\ echo' = [echo EXCEPT !.inStep = @ /\ InStep(c)]

\* keyboard_handler.  After an extended code the port is read at once: the next
\* code may be there, and is then dropped, or still to come.
irq_keyboard ==
  /\ Irq(1) /\ ps2 # <<>>
  /\ LET scancode == Head(ps2)
     IN  /\ shift' = keyboard_modifier_keys(scancode, shift)
         /\ ps2' \in IF scancode = EXTENDED_SCANCODE /\ Len(ps2) > 1
                     THEN {Tail(ps2), Tail(Tail(ps2))} ELSE {Tail(ps2)}
         /\ IF Ignored(scancode)
            THEN UNCHANGED <<terminal, reading, typed, echo>>
            ELSE keyboard_key(Character(scancode, shift))
  /\ EndOfIrq(1, IF ps2' = <<>> THEN {} ELSE {1})
  /\ UNCHANGED <<keys, current, boot, call, shell>>

leave ==
  /\ iret
  /\ UNCHANGED <<terminal, shift, ps2, keys, current, boot, call, reading, shell, typed, echo>>

-----------------------------------------------------------------------------
(* System calls and exceptions *)

\* int 0x80, or an exception: what the handler will do is in call.
Trap(n, does) ==
  /\ Enter(n, Ring(current))
  /\ call' = does
  /\ UNCHANGED <<raised, served>>

Does(name, calls, bytes) == [name |-> name, print |-> Printing(calls), bytes |-> bytes]
Nothing       == Does("none", <<>>, <<>>)
Write(text)   == Does("write", <<Call("write", text)>>, <<>>)
Read(bytes)   == Does("read", <<>>, bytes)
Files(calls)  == Does("files", calls, <<>>)

Handling(names) ==
  /\ frames # <<>> /\ frames[1].step = "handler"
  /\ frames[1].vector \notin 32 .. 47 /\ call.name \in names

\* vga_text_writelength, fs_ls, and the messages of isr_handler.
handler_prints ==
  /\ Handling({"write", "files", "exception"}) /\ ~ NothingToPrint(call.print)
  /\ terminal' = Printed(call.print, terminal).terminal
  /\ call' = [call EXCEPT !.print = Printed(call.print, terminal).print]
  /\ UNCHANGED <<intrVars, shift, ps2, keys, current, boot, reading, shell, typed, echo>>

\* SYSCALL_WRITE and the operations on files, whose drive interrupts too.
syscall_ends ==
  /\ Handling({"write", "files"}) /\ NothingToPrint(call.print)
  /\ Returns /\ call' = Nothing
  /\ raised' = IF call.name = "files" THEN raised \cup {14} ELSE raised
  /\ UNCHANGED <<enabled, served, terminal, shift, ps2, keys, current, boot, reading,
                 shell, typed, echo>>

\* SYSCALL_READ of stdin.
syscall_read ==
  /\ Handling({"read"})
  /\ reading' = [reading EXCEPT !.blocked = TRUE, !.size = Len(call.bytes), !.count = 0,
                                !.bytes = call.bytes]
  /\ current' \in Ready(reading', shell)
  /\ echo' = [from |-> Index(terminal), inStep |-> Index(terminal) \in Cells]
  /\ Returns /\ call' = Nothing
  /\ UNCHANGED <<enabled, raised, served, terminal, shift, ps2, keys, boot, shell, typed>>

\* FS_RUN: the program may not load; else the shell waits for it.
syscall_run ==
  /\ Handling({"run"})
  /\ \E loads \in BOOLEAN :
       /\ reading' = [reading EXCEPT !.blocked = loads, !.eax = IF loads THEN 0 ELSE -1]
       /\ shell' = [shell EXCEPT !.child = loads]
  /\ current' \in IF reading'.blocked THEN Ready(reading', shell') ELSE {current}
  /\ Returns /\ call' = Nothing
  /\ raised' = raised \cup {14}
  /\ UNCHANGED <<enabled, served, terminal, shift, ps2, keys, boot, typed, echo>>

child_exits ==
  /\ Runs("child")
  /\ Trap(SyscallVector, Does("exit", <<>>, <<>>))
  /\ UNCHANGED <<terminal, shift, ps2, keys, current, boot, reading, shell, typed, echo>>

\* An exception of the program, with an error code or without.
child_faults ==
  /\ Runs("child")
  /\ \E n \in {0, 14} : Trap(n, Does("exception", Message, <<>>))
  /\ UNCHANGED <<terminal, shift, ps2, keys, current, boot, reading, shell, typed, echo>>

\* SYSCALL_EXIT wakes the shell; isr_handler, in ring 3, ends the program and
\* wakes nobody.
child_ends ==
  /\ Handling({"exit", "exception"}) /\ NothingToPrint(call.print)
  /\ call.name = "exception" => frames[1].regs.cs = 3
  /\ reading' = [reading EXCEPT !.blocked = @ /\ call.name # "exit"]
  /\ shell' = [shell EXCEPT !.child = FALSE]
  /\ current' \in Ready(reading', shell')
  /\ Returns /\ call' = Nothing
  /\ UNCHANGED <<enabled, raised, served, terminal, shift, ps2, keys, boot, typed, echo>>

-----------------------------------------------------------------------------
(* The shell *)

At(pc) == Runs("shell") /\ shell.pc = pc /\ shell.out = <<>>

\* The loop starts over, after what is still to print.
Again(text) == [shell EXCEPT !.pc = "read", !.out = text \o printf(Prompt)]
Fails       == Again(printf(Failed))

shell_writes ==
  /\ Runs("shell") /\ shell.out # <<>>
  /\ Trap(SyscallVector, Write(Head(shell.out)))
  /\ shell' = [shell EXCEPT !.out = Tail(@)]
  /\ UNCHANGED <<terminal, shift, ps2, keys, current, boot, reading, typed, echo>>

shell_reads ==
  /\ At("read")
  /\ Trap(SyscallVector, Read(shell.input))
  /\ typed' = <<>>
  /\ shell' = [shell EXCEPT !.pc = "eval"]
  /\ UNCHANGED <<terminal, shift, ps2, keys, current, boot, reading, echo>>

\* From the read on: cut the last character, tokenize, clear the line.  A line
\* that fills the array has no NUL: the next byte may happen to be one, and if
\* it is not, the shell goes on outside its array ("lost").  More words than the
\* tokenizer has slots for are stored over the heap ("spilled").  What the shell
\* does after either is not modelled.
shell_evaluates ==
  /\ At("eval")
  /\ \E length \in IF Overruns(reading.bytes) THEN {InputSize, InputSize + 1}
                   ELSE {strlen(reading.bytes)} :
       IF length > InputSize
       THEN shell' = [shell EXCEPT !.pc = "lost"]
       ELSE LET line   == Terminated(reading.bytes, length)
                tokens == tokenize_line(SubSeq(line, 1, length - 1), WordLimit)
            IN  shell' = IF tokens.spilled THEN [shell EXCEPT !.pc = "spilled"]
                         ELSE [shell EXCEPT !.pc = "command", !.words = tokens.words,
                                 !.count = tokens.count, !.input = memset(line, length - 1),
                                 !.data = <<>>]
  /\ UNCHANGED <<intrVars, terminal, shift, ps2, keys, current, boot, call, reading,
                 typed, echo>>

\* execute_command up to its first system call.  A counted word that is not
\* there is NULL, and no file has that name.
Commanded(name) ==
  /\ At("command") /\ shell.count = 2 /\ shell.words[1] = Command[name]

command_fails ==
  /\ At("command")
  /\ shell.count = 2 => shell.words[1] \notin {Command[n] : n \in DOMAIN Command}
  /\ shell' = Fails
  /\ UNCHANGED <<intrVars, terminal, shift, ps2, keys, current, boot, call, reading,
                 typed, echo>>

\* ls, mkdir, touch and rm: whether they succeed is not looked at.
command_fs_ops ==
  /\ \E name \in {"ls", "mkdir", "touch", "rm"} : 
       /\ Commanded(name)
       /\ \E calls \in IF name = "ls" /\ Len(shell.words) = 2
                       THEN Listings \cup {<<>>} ELSE {<<>>} :
            Trap(SyscallVector, Files(calls))
  /\ shell' = Again(<<>>)
  /\ UNCHANGED <<terminal, shift, ps2, keys, current, boot, reading, typed, echo>>

command_run ==
  /\ Commanded("run")
  /\ Trap(SyscallVector, Does("run", <<>>, <<>>))
  /\ shell' = [shell EXCEPT !.pc = "ran"]
  /\ UNCHANGED <<terminal, shift, ps2, keys, current, boot, reading, typed, echo>>

shell_ran ==
  /\ At("ran")
  /\ shell' = IF reading.eax = -1 THEN Fails ELSE Again(<<>>)
  /\ UNCHANGED <<intrVars, terminal, shift, ps2, keys, current, boot, call, reading,
                 typed, echo>>

\* open, which may fail, and then what cat prints or the write command reads.
command_opens ==
  /\ \E name \in {"cat", "write"}, opened \in BOOLEAN :
       /\ Commanded(name)
       /\ opened => Len(shell.words) = 2
       /\ \E pieces \in FileTexts :
            shell' = IF ~ opened THEN Fails
                     ELSE IF name = "cat" THEN Again(pieces \o printf(<<"\n">>))
                     ELSE [shell EXCEPT !.pc = "data"]
  /\ typed' = <<>>
  /\ Trap(SyscallVector, Files(<<>>))
  /\ UNCHANGED <<terminal, shift, ps2, keys, current, boot, reading, echo>>

data_reads ==
  /\ At("data")
  /\ Trap(SyscallVector, Read([k \in 1 .. DataSize |-> NUL]))
  /\ shell' = [shell EXCEPT !.pc = "datum"]
  /\ UNCHANGED <<terminal, shift, ps2, keys, current, boot, reading, typed, echo>>

\* The bytes read go behind those read before; Enter ends the text.
data_appends ==
  LET n    == reading.eax
      data == shell.data \o SubSeq(reading.bytes, 1, n)
  IN  /\ At("datum")
      /\ shell' = IF reading.bytes[n] = "\n"
                  THEN [shell EXCEPT !.pc = "store", !.data = Front(data)]
                  ELSE [shell EXCEPT !.pc = "data", !.data = data]
      /\ UNCHANGED <<intrVars, terminal, shift, ps2, keys, current, boot, call, reading,
                     typed, echo>>

\* The write to the file, which may fail, and close.
data_stores ==
  /\ At("store")
  /\ Trap(SyscallVector, Files(<<>>))
  /\ shell' \in {Again(<<>>)} \cup (IF shell.data = <<>> THEN {} ELSE {Fails})
  /\ UNCHANGED <<terminal, shift, ps2, keys, current, boot, reading, typed, echo>>

-----------------------------------------------------------------------------
Init ==
  /\ InterruptsOn
  /\ terminal = vga_text_clear([row |-> 0, column |-> 0, cells |-> <<>>])
  /\ shift = FALSE /\ ps2 = <<>>
  /\ keys \in Sessions
  /\ current = "kernel_main"
  /\ boot = [p \in KernelProcesses |->
                Printing(IF p = "kernel_main" THEN BootCalls
                         ELSE IF keys.test THEN TestCalls ELSE <<>>)]
  /\ call = Nothing
  /\ reading = Idle
  /\ \E bytes \in StackBytes :
       shell = [pc |-> "read", out |-> printf(Prompt), input |-> bytes, words |-> <<>>,
                count |-> 0, data |-> <<>>, child |-> FALSE,
                clean |-> \A k \in DOMAIN bytes : bytes[k] = NUL]
  /\ typed = <<>>
  /\ echo = [from |-> 0, inStep |-> FALSE]

Next ==
  \/ kernel_prints
  \/ press \/ tick \/ leave
  \/ \E line \in Lines : accept(line)
  \/ irq_timer \/ irq_other \/ irq_keyboard
  \/ handler_prints \/ syscall_ends \/ syscall_read \/ syscall_run
  \/ child_exits \/ child_faults \/ child_ends
  \/ shell_writes \/ shell_reads \/ shell_evaluates
  \/ command_fails \/ command_fs_ops \/ command_run \/ command_opens
  \/ shell_ran \/ data_reads \/ data_appends \/ data_stores

Spec == Init /\ [][Next]_vars

-----------------------------------------------------------------------------
(* Properties *)

TypeOK ==
  /\ InterruptsTypeOK
  /\ terminal.row \in Nat /\ terminal.column \in 0 .. Word - 1
  /\ DOMAIN terminal.cells = Cells
  /\ shift \in BOOLEAN
  /\ current \in Processes /\ current \in Ready(reading, shell)
  /\ reading.count \in 0 .. reading.size
  /\ Len(shell.input) = InputSize

Shows(from, text) ==
  \A k \in DOMAIN text : terminal.cells[(from + k - 1) % Size] = text[k]

\* While the shell reads, the screen shows its buffer: each character the
\* next command will be made of, corrections included, in the place where it
\* was typed.  Keys that print more or less than a cell are left out, and so is a
\* line during which test_process prints.
EchoIsBuffer ==
  reading.size > 0 /\ echo.inStep =>
    Shows(echo.from, SubSeq(reading.bytes, 1, reading.count))

\* The command the shell executes, and the text the write command stores, are
\* what the user typed and corrected for them: nothing of an earlier line is
\* left in the array, though no read ends it with a NUL.  Nothing is said of a
\* line with more words than the tokenizer has slots for: it does not come to
\* the command.
LineIsTyped ==
  /\ shell.pc = "command" /\ shell.clean /\ Last(typed) = "\n" =>
       AreWords(shell.words, Front(typed))
  /\ shell.pc = "store" => shell.data = Front(typed)

\* Refuted: the tokenizer stores no word beyond its array ("limit of words in a
\* line is 8", user/programs/shell.c:161).
WordsHaveSlots == shell.pc # "spilled"

\* What a system call or an exception prints stands on the screen whole when
\* the driver returns: no key, tick or other process writes into it.  This is
\* about texts without a newline; digits are left out too.
OutputIntact ==
  LET p == call.print
      now == Head(p.calls)
  IN  /\ p.calls # <<>> /\ now.name # "digits" /\ p.done = Len(now.text)
      /\ p.done > 0 /\ p.from \in Cells /\ "\n" \notin ToSet(now.text)
      => Shows(p.from, now.text)
=============================================================================
