------------------------------- MODULE Procman -------------------------------
(***************************************************************************)
(* Processes of lytlnyblOS: the process list, the round-robin scheduler,   *)
(* the context switch, the timer and keyboard interrupts, the system calls *)
(* that block, start or end a process, and the part of kernel_main that    *)
(* runs beside them once interrupts are on.                                *)
(*                                                                         *)
(* Every handler runs behind an interrupt gate (interrupts disabled), so a *)
(* handler is one action.  kernel_main is ordinary preemptible code: it is *)
(* process 1, and it advances one visible step at a time, only while it is *)
(* the current process.                                                    *)
(***************************************************************************)
EXTENDS Naturals, Sequences, FiniteSets

CONSTANTS
  MaxPid,          \* bound: no process is created once next_pid exceeds it
  TickMod,         \* the tick counter is a uint32_t: it wraps modulo TickMod
  TimeSlice,       \* DEFAULT_TIME_SLICE, in timer ticks
  BootWait,        \* argument of timer_wait_ms in kernel_main
  CodePages,       \* pages of a loaded program
  SleepTicks,      \* arguments user programs give SYSCALL_SLEEP
  ReadSizes,       \* sizes user programs give SYSCALL_READ on stdin
  UninitSizes,     \* what a fresh process_t may hold in reading_state.size
  UninitPids       \* what a fresh process_t may hold in the two pid fields

ASSUME ConstAssumption ==
  /\ MaxPid \in Nat /\ MaxPid >= 3
  /\ TickMod \in Nat \ {0} /\ TimeSlice \in Nat \ {0}
  /\ BootWait \in Nat /\ CodePages \in Nat \ {0}
  /\ SleepTicks \subseteq Nat /\ ReadSizes \subseteq Nat
  /\ UninitSizes \subseteq Nat /\ UninitSizes # {}
  /\ UninitPids \subseteq Nat /\ UninitPids # {}

Pids      == 1 .. MaxPid
Kernel    == 1                     \* INITIAL_PID, the process of kernel_main
ShellPid  == 3                     \* the one user process kernel_main starts
KDIR      == 0                     \* kernel_directory, as a value of CR3
BootStack == 0                     \* kernel_stack_bottom, as a stack
NoStack   == MaxPid + 1            \* tss.esp0 before the first user process
Stacks    == 0 .. NoStack
States    == {"RUNNING", "READY", "BLOCKED", "SLEEPING", "TERMINATED"}
Keys      == {"char", "backspace", "newline"}

\* A process_t; "none" stands for memory that holds no process_t.
Process ==
  [state : States \cup {"none"}, type : {"KERNEL", "USER"},
   wake_tick : 0 .. TickMod - 1, size : Nat, count : Nat,
   pid_waiting_for : Nat, parent_pid : Nat,
   kstack : Stacks, code : 0 .. CodePages]

NoProcess ==
  [state |-> "none", type |-> "KERNEL", wake_tick |-> 0, size |-> 0,
   count |-> 0, pid_waiting_for |-> 0, parent_pid |-> 0,
   kstack |-> NoStack, code |-> 0]

\* A process_t after create_process or init_procman: reading_state.size and
\* the two pid fields are not assigned, they keep what the memory held.
NewProcess(state, type, parent, size, waiting, kstack, code) ==
  [state |-> state, type |-> type, wake_tick |-> 0, size |-> size,
   count |-> 0, pid_waiting_for |-> waiting, parent_pid |-> parent,
   kstack |-> kstack, code |-> code]

VARIABLES
  proc,                  \* the process_t of every pid
  procs,                 \* the list from process_head, as a sequence of pids
  current,               \* current_process
  next_pid,
  ticks,
  scheduler_tick_count,
  cr3,                   \* owner of the loaded page directory, or KDIR
  esp0,                  \* tss.esp0: the stack of the next trap from ring 3
  esp,                   \* the stack ring-0 code of a kernel process runs on
  boot,                  \* where kernel_main is, and its timer_wait_ms start
  halted                 \* "no", or why the CPU is in a loop for good

vars == <<proc, procs, current, next_pid, ticks, scheduler_tick_count,
          cr3, esp0, esp, boot, halted>>

Listed == {procs[i] : i \in DOMAIN procs}

-----------------------------------------------------------------------------
(* The scheduler.  l is the process list and pr the process table, as the  *)
(* handler that calls the scheduler has left them.                         *)

IndexOf(l, p) == CHOOSE i \in DOMAIN l : l[i] = p

\* Broken variant: the traversal starts at process_head every time.
Distance_FromHead(l, i) == i

\* Steps the traversal takes from the current process to list index i.
Distance(l, i) == LET c == IndexOf(l, current)
                  IN  IF i >= c THEN i - c ELSE i + Len(l) - c

\* Indices the do-while loop may return: READY ones it meets before it meets
\* a RUNNING one (the current process is met again after a full turn only).
Candidates(l, pr) ==
  {i \in DOMAIN l :
     /\ pr[l[i]].state = "READY"
     /\ \A j \in DOMAIN l :
          pr[l[j]].state = "RUNNING" /\ l[j] # current
            => Distance(l, j) > Distance(l, i)}

get_next_process(l, pr) ==
  IF Candidates(l, pr) = {}
  THEN current
  ELSE l[CHOOSE i \in Candidates(l, pr) :
           \A j \in Candidates(l, pr) : Distance(l, i) <= Distance(l, j)]

\* The loop meets neither a READY nor a RUNNING process: it never ends.
TraversalSpins(l, pr) ==
  \A i \in DOMAIN l : pr[l[i]].state \notin {"READY", "RUNNING"}

-----------------------------------------------------------------------------
(* The context switch *)

\* destroy_process unlinks a process, the head of the list only when alone.
Unlinked(l, p) ==
  LET k == IndexOf(l, p)
  IN  IF k = 1 /\ Len(l) > 1
      THEN l
      ELSE [i \in 1 .. Len(l) - 1 |-> IF i < k THEN l[i] ELSE l[i + 1]]

\* The stack that holds the interrupt frame of the running handler.
FrameStack == IF proc[current].type = "USER" THEN esp0 ELSE esp

\* context_switch(current_process, new, regs).  A kernel process resumes by
\* an iret that does not reload esp, so it goes on where the frame was.
\* What stacks hold is left out, and so are two of the words load_context
\* writes: a kernel process's frame has no user_esp and ss, so a switch from it
\* to a program stores them above the frame, over what its stack holds there.
context_switch(l, pr, new) ==
  LET old    == current
      ready  == IF pr[old].state = "RUNNING"
                THEN [pr EXCEPT ![old].state = "READY"] ELSE pr
      loaded == [ready EXCEPT ![new].state = "RUNNING"]
      user   == pr[new].type = "USER"
      left   == IF loaded[old].state = "TERMINATED" THEN Unlinked(l, old) ELSE l
  IN  /\ current' = new
      /\ procs' = left
      /\ proc' = IF left # l THEN [loaded EXCEPT ![old] = NoProcess] ELSE loaded
      /\ cr3' = IF user THEN new ELSE KDIR
      /\ esp0' = IF user THEN pr[new].kstack ELSE esp0
      /\ esp' = IF user THEN pr[new].kstack ELSE FrameStack

\* context_switch(current_process, get_next_process(), regs)
SwitchAway(l, pr) ==
  IF TraversalSpins(l, pr)
  THEN /\ halted' = "spin" /\ proc' = pr /\ procs' = l
       /\ UNCHANGED <<current, cr3, esp0, esp>>
  ELSE /\ context_switch(l, pr, get_next_process(l, pr))
       /\ UNCHANGED halted

-----------------------------------------------------------------------------
(* Creating processes *)

\* Broken variant: the allocator ignores the used flag.
FreeStack_First == 1

\* kmalloc(KERNEL_STACK_SIZE): the first free stack-sized block of the heap.
StackTaken(s) == \E p \in Listed : proc[p].kstack = s
FreeStack == CHOOSE s \in Pids : /\ ~StackTaken(s)
                                 /\ \A t \in 1 .. s - 1 : StackTaken(t)

create_process(type, parent, size, waiting, code) ==
  NewProcess("READY", type, parent, size, waiting, FreeStack, code)

-----------------------------------------------------------------------------
(* Who may act *)

Running == halted = "no"

\* Broken variant: a kernel process makes system calls too.
UserCode_Anyone == Running

UserCode == Running /\ proc[current].type = "USER" /\ proc[current].code > 0
KernelMain(pc) == Running /\ current = Kernel /\ boot.pc = pc

(* Interrupts *)

\* Broken variants: the state test dropped; > for >=.
Woken_AnyState(now) ==
  [p \in Pids |-> IF p \in Listed /\ now >= proc[p].wake_tick
                 THEN [proc[p] EXCEPT !.state = "READY"] ELSE proc[p]]

Woken_Strict(now) ==
  [p \in Pids |->
     IF p \in Listed /\ proc[p].state = "SLEEPING" /\ now > proc[p].wake_tick
     THEN [proc[p] EXCEPT !.state = "READY"] ELSE proc[p]]

\* timer_handler wakes the sleepers that are due, then calls schedule.
Woken(now) ==
  [p \in Pids |->
     IF p \in Listed /\ proc[p].state = "SLEEPING" /\ now >= proc[p].wake_tick
     THEN [proc[p] EXCEPT !.state = "READY"] ELSE proc[p]]

timer_handler ==
  LET now  == (ticks + 1) % TickMod
      pr   == Woken(now)
      next == get_next_process(procs, pr)
      due  == scheduler_tick_count + 1 >= TimeSlice
  IN  /\ Running
      /\ ticks' = now
      /\ scheduler_tick_count' = IF due THEN 0 ELSE scheduler_tick_count + 1
      /\ IF due /\ next # current
         THEN context_switch(procs, pr, next)
         ELSE proc' = pr /\ UNCHANGED <<procs, current, cr3, esp0, esp>>
      /\ UNCHANGED <<next_pid, boot, halted>>

\* Broken variant: the test of reading_state.size dropped.
Reading_AnyBlocked(p) == p \in Listed /\ proc[p].state = "BLOCKED"

\* A process whose stdin read the keyboard serves.
Reading(p) == p \in Listed /\ proc[p].state = "BLOCKED" /\ proc[p].size > 0

\* Broken variants: count decremented unguarded; > for >=; size not reset.
Typed_Unguarded(r, key) ==
  LET n == IF key = "backspace" THEN r.count - 1 ELSE r.count + 1
  IN  IF n >= r.size \/ key = "newline"
      THEN [r EXCEPT !.count = 0, !.size = 0, !.state = "READY"]
      ELSE [r EXCEPT !.count = n]

Typed_Late(r, key) ==
  LET n == IF key # "backspace" THEN r.count + 1
          ELSE IF r.count > 0 THEN r.count - 1 ELSE 0
  IN  IF n > r.size \/ key = "newline"
      THEN [r EXCEPT !.count = 0, !.size = 0, !.state = "READY"]
      ELSE [r EXCEPT !.count = n]

Typed_SizeKept(r, key) ==
  LET n == IF key # "backspace" THEN r.count + 1
          ELSE IF r.count > 0 THEN r.count - 1 ELSE 0
  IN  IF n >= r.size \/ key = "newline"
      THEN [r EXCEPT !.count = 0, !.state = "READY"]
      ELSE [r EXCEPT !.count = n]

\* What one key does to the reading_state of a process that reads.
Typed(r, key) ==
  LET n == IF key # "backspace" THEN r.count + 1
          ELSE IF r.count > 0 THEN r.count - 1 ELSE 0
  IN  IF n >= r.size \/ key = "newline"
      THEN [r EXCEPT !.count = 0, !.size = 0, !.state = "READY"]
      ELSE [r EXCEPT !.count = n]

\* keyboard_handler gives the key to every process that reads; each delivery
\* loads the reader's directory and then kernel_directory.
keyboard_handler(key) ==
  /\ Running
  /\ proc' = [p \in Pids |->
                IF Reading(p) THEN Typed(proc[p], key) ELSE proc[p]]
  /\ cr3' = IF \E p \in Pids : Reading(p) THEN KDIR ELSE cr3
  /\ UNCHANGED <<procs, current, next_pid, ticks, scheduler_tick_count,
                 esp0, esp, boot, halted>>

\* isr_handler for an exception in ring 3.  A program may fault at any
\* instruction; one whose first page is not mapped yet does nothing else.
fault_handler ==
  /\ Running /\ proc[current].type = "USER"
  /\ SwitchAway(procs, [proc EXCEPT ![current].state = "TERMINATED"])
  /\ UNCHANGED <<next_pid, ticks, scheduler_tick_count, boot>>

-----------------------------------------------------------------------------
(* System calls *)

\* find_process_by_pid(current_process->parent_pid) and the test on it.
WaitingParent ==
  {p \in Listed : /\ p = proc[current].parent_pid
                  /\ proc[p].pid_waiting_for = current}

sys_exit ==
  /\ UserCode
  /\ SwitchAway(procs, [p \in Pids |->
        IF p = current THEN [proc[p] EXCEPT !.state = "TERMINATED"]
        ELSE IF p \in WaitingParent
             THEN [proc[p] EXCEPT !.pid_waiting_for = 0, !.state = "READY"]
             ELSE proc[p]])
  /\ UNCHANGED <<next_pid, ticks, scheduler_tick_count, boot>>

sys_yield ==
  /\ UserCode
  /\ SwitchAway(procs, proc)
  /\ UNCHANGED <<next_pid, ticks, scheduler_tick_count, boot>>

sys_sleep(n) ==
  /\ UserCode
  /\ SwitchAway(procs, [proc EXCEPT ![current].wake_tick = (ticks + n) % TickMod,
                             ![current].state = "SLEEPING"])
  /\ UNCHANGED <<next_pid, ticks, scheduler_tick_count, boot>>

\* SYSCALL_READ on stdin.
sys_read(n) ==
  /\ UserCode
  /\ SwitchAway(procs, [proc EXCEPT ![current].state = "BLOCKED",
                             ![current].size = n, ![current].count = 0])
  /\ UNCHANGED <<next_pid, ticks, scheduler_tick_count, boot>>

\* SYSCALL_FSOPS with FS_RUN: load_program, then wait for the child.  A
\* program that cannot be loaded changes nothing here.
sys_run(size, waiting) ==
  LET child == next_pid
  IN  /\ UserCode /\ child <= MaxPid
      /\ next_pid' = child + 1
      /\ SwitchAway(Append(procs, child),
           [proc EXCEPT
              ![child] = create_process("USER", current, size, waiting, CodePages),
              ![current].pid_waiting_for = child,
              ![current].state = "BLOCKED"])
      /\ UNCHANGED <<ticks, scheduler_tick_count, boot>>

-----------------------------------------------------------------------------
(* kernel_main, from init_procman on *)

\* create_process(test_process, PROCESS_KERNEL) and the start of
\* timer_wait_ms, which reads ticks once.
boot_create(size, waiting, parent) ==
  /\ KernelMain("create") /\ next_pid <= MaxPid
  /\ proc' = [proc EXCEPT ![next_pid] =
                 create_process("KERNEL", parent, size, waiting, 0)]
  /\ procs' = Append(procs, next_pid)
  /\ next_pid' = next_pid + 1
  /\ boot' = [pc |-> "wait", start |-> ticks, child |-> 0]
  /\ UNCHANGED <<current, ticks, scheduler_tick_count, cr3, esp0, esp, halted>>

boot_wait ==
  /\ KernelMain("wait")
  /\ (ticks + TickMod - boot.start) % TickMod >= BootWait
  /\ boot' = [pc |-> "load", start |-> 0, child |-> 0]
  /\ UNCHANGED <<proc, procs, current, next_pid, ticks, scheduler_tick_count,
                 cr3, esp0, esp, halted>>

\* load_program("/bin/shell") puts the process on the list before its code
\* is mapped; kernel_main can be preempted in between.
boot_load(size, waiting, parent) ==
  /\ KernelMain("load") /\ next_pid <= MaxPid
  /\ proc' = [proc EXCEPT ![next_pid] =
                 create_process("USER", parent, size, waiting, 0)]
  /\ procs' = Append(procs, next_pid)
  /\ next_pid' = next_pid + 1
  /\ boot' = [pc |-> "map", start |-> 0, child |-> next_pid]
  /\ UNCHANGED <<current, ticks, scheduler_tick_count, cr3, esp0, esp, halted>>

\* One turn of the loop that maps code pages; the page directory of a
\* destroyed process is no longer mapped, and the kernel faults on it.
boot_map ==
  LET shell == boot.child
      last  == proc[shell].code + 1 = CodePages
  IN  /\ KernelMain("map")
      /\ IF shell \in Listed
         THEN /\ proc' = [proc EXCEPT ![shell].code = @ + 1]
              /\ boot' = IF last THEN [pc |-> "idle", start |-> 0, child |-> 0]
                         ELSE boot
              /\ UNCHANGED halted
         ELSE halted' = "fault" /\ UNCHANGED <<proc, boot>>
      /\ UNCHANGED <<procs, current, next_pid, ticks, scheduler_tick_count,
                     cr3, esp0, esp>>

\* for (;;) with interrupts off.
halt_loop == halted # "no" /\ UNCHANGED vars

-----------------------------------------------------------------------------
\* The state init_procman and init_tss leave.
Init ==
  /\ \E size \in UninitSizes, w \in UninitPids, q \in UninitPids :
       proc = [p \in Pids |->
                 IF p = Kernel
                 THEN NewProcess("RUNNING", "KERNEL", q, size, w, BootStack, 0)
                 ELSE NoProcess]
  /\ procs = <<Kernel>>
  /\ current = Kernel
  /\ next_pid = Kernel + 1
  /\ ticks = 0
  /\ scheduler_tick_count = 0
  /\ cr3 = KDIR
  /\ esp0 = NoStack
  /\ esp = BootStack
  /\ boot = [pc |-> "create", start |-> 0, child |-> 0]
  /\ halted = "no"

Next ==
  \/ timer_handler
  \/ \E key \in Keys : keyboard_handler(key)
  \/ fault_handler
  \/ sys_exit
  \/ sys_yield
  \/ \E n \in SleepTicks : sys_sleep(n)
  \/ \E n \in ReadSizes : sys_read(n)
  \/ \E size \in UninitSizes, w \in UninitPids : sys_run(size, w)
  \/ \E size \in UninitSizes, w \in UninitPids, q \in UninitPids :
       boot_create(size, w, q) \/ boot_load(size, w, q)
  \/ boot_wait
  \/ boot_map
  \/ halt_loop

\* The PIT raises an interrupt every tick and no handler keeps interrupts
\* disabled for ever, so the timer is fair; nothing else need ever happen.
Spec == Init /\ [][Next]_vars /\ WF_vars(timer_handler)

-----------------------------------------------------------------------------
(* Properties *)

\* Every field stays within its C type and the model's bounds.
TypeOK ==
  /\ proc \in [Pids -> Process]
  /\ procs \in Seq(Pids)
  /\ current \in Pids
  /\ next_pid \in 2 .. MaxPid + 1
  /\ ticks \in 0 .. TickMod - 1
  /\ scheduler_tick_count \in 0 .. TimeSlice - 1
  /\ cr3 \in Pids \cup {KDIR}
  /\ esp0 \in Stacks
  /\ esp \in Stacks
  /\ boot \in [pc : {"create", "wait", "load", "map", "idle"},
               start : 0 .. TickMod - 1, child : Pids \cup {0}]
  /\ halted \in {"no", "spin", "fault"}

\* Exactly one listed process is RUNNING, and it is current_process: the
\* do-while of get_next_process stops only at a READY or RUNNING process.
OneRunning ==
  /\ current \in Listed
  /\ halted # "spin" =>
       \A p \in Listed : proc[p].state = "RUNNING" <=> p = current

\* Whatever blocks, sleeps, exits or faults, get_next_process finds another
\* process and the machine never loops in it with interrupts disabled.
NoSpin == halted # "spin"

\* The directory in CR3 is the current process's: its own for a user process,
\* kernel_directory for a kernel process, although keyboard_handler loads
\* kernel_directory without asking who runs.
Cr3MatchesCurrent ==
  cr3 = IF proc[current].type = "USER" THEN current ELSE KDIR

\* A trap from ring 3 lands on the current process's own kernel stack, which
\* no other process on the list was given.
Esp0MatchesCurrent ==
  /\ proc[current].type = "USER" => esp0 = proc[current].kstack
  /\ \A p, q \in Listed : proc[p].kstack = proc[q].kstack => p = q

\* A process that ran a program stays BLOCKED until that program has ended:
\* nothing but the child's exit makes the parent READY, neither a key nor a
\* stale pid_waiting_for or parent_pid.
ParentWaits ==
  \A c \in Listed : c > ShellPid =>
    LET p == proc[c].parent_pid
    IN  /\ p \in Listed
        /\ proc[p].state = "BLOCKED" /\ proc[p].pid_waiting_for = c

\* A pending read always has room for the next character, so the keyboard
\* never writes outside the reader's buffer.
ReadBufferBounds ==
  \A p \in Listed : Reading(p) => proc[p].count < proc[p].size

\* A kernel stack handed to a new process is not the one the kernel is
\* standing on while it creates it, even when it stands on a freed stack.
StackNotReused ==
  [][\A p \in Pids : p \in Listed' \ Listed => proc'[p].kstack # FrameStack]_vars

\* Round robin starves nobody: a READY process gets the CPU, unless the
\* kernel itself has stopped.
EveryReadyRuns ==
  \A p \in Pids : proc[p].state = "READY" ~> current = p \/ halted # "no"

\* A sleeper is woken and runs again, whatever its wake_tick, even when ticks
\* wraps past it.
SleeperWakes ==
  \A p \in Pids : proc[p].state = "SLEEPING" ~> current = p \/ halted # "no"

-----------------------------------------------------------------------------
(* What the guide says of the program, and the code does not do            *)

\* "If a user process causes an exception, we mark that process as terminated
\* and switch to another process instead of halting the entire kernel."
KernelNeverFaults == halted # "fault"

\* "When the shell runs another program it must be blocked until the child
\* program finishes execution": a process that waits, waits for a process
\* that is still there.  (With no empty reads, BLOCKED and size 0 is a wait.)
WaitsForLiveChild ==
  \A p \in Listed : proc[p].state = "BLOCKED" /\ proc[p].size = 0
                      => proc[p].pid_waiting_for \in Listed

=============================================================================
