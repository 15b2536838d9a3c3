---------------------------- MODULE ProcmanProofs ----------------------------
(***************************************************************************)
(* Theorems about Procman, for every value of its constants.  First: the   *)
(* type invariant, that exactly the current process is RUNNING, and that   *)
(* the scheduler's traversal always ends.                                  *)
(*                                                                         *)
(* Then what processes wait for and stand on: a read never runs over its   *)
(* buffer, every process has a kernel stack of its own, and, when a fresh  *)
(* process_t holds no pending read, a parent waits for its child to end    *)
(* and the directory in CR3 is the current process's.  Those two rest on   *)
(* one fact nobody wrote down: the user processes form a chain, each but   *)
(* the youngest blocked for its child.                                     *)
(*                                                                         *)
(* Last, round robin: while a process waits for the CPU no other process   *)
(* gets it twice.  Whoever got the CPU since then is further away, round   *)
(* the list from the current process, than the one who waits; the          *)
(* scheduler takes the nearest, and neither an append nor an unlink        *)
(* changes an order.                                                       *)
(***************************************************************************)
EXTENDS ProcmanFairness, FiniteSetTheorems, WellFoundedInduction, TLAPS

-----------------------------------------------------------------------------
(* The inductive invariant *)

In(l) == {l[i] : i \in DOMAIN l}

\* The list starts with kernel_main's process and names nobody twice.
ListOK(l) ==
  /\ l \in Seq(Pids) /\ l # <<>> /\ l[1] = Kernel
  /\ \A i, j \in DOMAIN l : l[i] = l[j] => i = j

\* What the process table may be when a handler calls the scheduler: only the
\* current process can be RUNNING, only a user process can have ended.
HandlerOK(l, pr) ==
  /\ ListOK(l) /\ pr \in [Pids -> Process] /\ current \in In(l)
  /\ pr[Kernel].type = "KERNEL"
  /\ pr[Kernel].state \in {"RUNNING", "READY"}
  /\ \A p \in In(l) :
       /\ pr[p].state # "none"
       /\ pr[p].state = "RUNNING" => p = current
       /\ pr[p].state = "TERMINATED" => p = current

\* Nobody listed has ended, and the current process is the RUNNING one.
Scheduled ==
  /\ HandlerOK(procs, proc)
  /\ \A p \in Listed : proc[p].state # "TERMINATED"
  /\ proc[current].state = "RUNNING"

\* Pids are handed out in order.
Numbered == \A p \in Listed : p < next_pid

\* While kernel_main maps code, pages are still missing.
Mapping ==
  boot.pc = "map" =>
    /\ boot.child \in Pids /\ boot.child < next_pid
    /\ boot.child \in Listed => proc[boot.child].code < CodePages

IInv == TypeOK /\ Scheduled /\ Numbered /\ Mapping /\ NoSpin

-----------------------------------------------------------------------------
(* Lemmas about the operators *)

\* A nonempty set of numbers has a least element.
LEMMA LeastNumber ==
  ASSUME NEW T, T \subseteq Nat, T # {}
  PROVE  \E m \in T : \A k \in T : m <= k
<1> DEFINE Less == OpToRel(<, Nat)
<1>1. IsWellFoundedOn(Less, Nat)
  BY NatLessThanWellFounded
<1>2. \A i, j \in Nat : i < j => <<i, j>> \in Less
  BY DEF OpToRel
<1> HIDE DEF Less
<1>3. PICK m \in T : \A k \in T : ~ (<<k, m>> \in Less)
  BY <1>1, WFMin
<1>4. \A k \in T : ~ (k < m)
  BY <1>2, <1>3
<1>5. QED
  BY <1>4

\* The traversal's distances are natural numbers.
LEMMA DistanceNat ==
  ASSUME NEW l \in Seq(Pids), current \in In(l), NEW i \in DOMAIN l
  PROVE  Distance(l, i) \in Nat
<1>1. \E c \in DOMAIN l : l[c] = current
  BY DEF In
<1>2. IndexOf(l, current) \in DOMAIN l
  BY <1>1 DEF IndexOf
<1>3. QED
  BY <1>2 DEF Distance

\* get_next_process returns the current process or a READY one of the list.
LEMMA NextProcess ==
  ASSUME NEW l \in Seq(Pids), NEW pr, current \in In(l)
  PROVE  LET next == get_next_process(l, pr)
         IN  \/ next = current /\ Candidates(l, pr) = {}
             \/ next \in In(l) /\ pr[next].state = "READY"
<1>1. CASE Candidates(l, pr) = {}
  BY <1>1 DEF get_next_process
<1>2. CASE Candidates(l, pr) # {}
  <2> DEFINE C == Candidates(l, pr)
             D == {Distance(l, i) : i \in C}
             Nearest(i) == \A j \in C : Distance(l, i) <= Distance(l, j)
  <2>1. C \subseteq DOMAIN l
    BY DEF Candidates
  <2>2. D \subseteq Nat /\ D # {}
    BY <1>2, <2>1, DistanceNat
  <2>3. PICK m \in D : \A k \in D : m <= k
    <3> HIDE DEF D
    <3> QED BY <2>2, LeastNumber
  <2>4. \E i \in C : Nearest(i)
    BY <2>3
  <2>5. (CHOOSE i \in C : Nearest(i)) \in C
    BY <2>4
  <2>6. get_next_process(l, pr) = l[CHOOSE i \in C : Nearest(i)]
    BY <1>2 DEF get_next_process
  <2>7. \A i \in C : l[i] \in In(l) /\ pr[l[i]].state = "READY"
    BY DEF Candidates, In
  <2> HIDE DEF C, Nearest
  <2>8. QED
    BY <2>5, <2>6, <2>7
<1>3. QED
  BY <1>1, <1>2

\* When nobody but the current process may be RUNNING and kernel_main's
\* process is READY, the traversal finds a READY process.
LEMMA NextIsReady ==
  ASSUME NEW l, NEW pr, HandlerOK(l, pr), pr[Kernel].state = "READY"
  PROVE  /\ get_next_process(l, pr) \in In(l)
         /\ pr[get_next_process(l, pr)].state = "READY"
         /\ ~TraversalSpins(l, pr)
<1>1. 1 \in DOMAIN l /\ l[1] = Kernel /\ l \in Seq(Pids)
  BY DEF HandlerOK, ListOK
<1>2. \A j \in DOMAIN l : pr[l[j]].state = "RUNNING" => l[j] = current
  BY DEF HandlerOK, In
<1>3. 1 \in Candidates(l, pr)
  BY <1>1, <1>2 DEF Candidates
<1>4. current \in In(l)
  BY DEF HandlerOK
<1>5. QED
  BY <1>1, <1>3, <1>4, NextProcess DEF TraversalSpins

\* destroy_process unlinks exactly the process it is given.
LEMMA UnlinkedOK ==
  ASSUME NEW l, ListOK(l), NEW p \in In(l), p # Kernel
  PROVE  /\ ListOK(Unlinked(l, p)) /\ Unlinked(l, p) # l
         /\ In(Unlinked(l, p)) = In(l) \ {p}
<1> DEFINE k == IndexOf(l, p)
           u == [i \in 1 .. Len(l) - 1 |-> IF i < k THEN l[i] ELSE l[i + 1]]
<1>1. \E i \in DOMAIN l : l[i] = p
  BY DEF In
<1>2. k \in DOMAIN l /\ l[k] = p
  BY <1>1 DEF IndexOf
<1>3. /\ l \in Seq(Pids) /\ Len(l) \in Nat /\ DOMAIN l = 1 .. Len(l)
      /\ l[1] = Kernel /\ \A i, j \in DOMAIN l : l[i] = l[j] => i = j
  BY DEF ListOK
<1>4. k \in 2 .. Len(l)
  BY <1>2, <1>3
<1> HIDE DEF k
<1>5. Unlinked(l, p) = u
  BY <1>4 DEF Unlinked, k
<1>6. u \in Seq(Pids) /\ Len(u) = Len(l) - 1 /\ DOMAIN u = 1 .. Len(l) - 1
  <2>1. \A i \in 1 .. Len(l) - 1 : u[i] \in Pids
    BY <1>3, <1>4
  <2>2. u \in [1 .. Len(l) - 1 -> Pids]
    BY <2>1
  <2>3. QED
    BY <1>3, <1>4, <2>2
<1>7. u # l
  <2> HIDE DEF u
  <2>1. QED
    BY <1>3, <1>6
<1>8. u # <<>> /\ u[1] = Kernel
  BY <1>3, <1>4, <1>6
<1>9. \A i, j \in DOMAIN u : u[i] = u[j] => i = j
  BY <1>3, <1>4, <1>6
<1>10. In(u) \subseteq In(l) \ {p}
  BY <1>2, <1>3, <1>4, <1>6 DEF In
<1>11. ASSUME NEW q \in In(l) \ {p} PROVE q \in In(u)
  <2>1. PICK i \in DOMAIN l : l[i] = q
    BY <1>11 DEF In
  <2>2. i # k
    BY <1>2, <1>11, <2>1
  <2>3. CASE i < k
    <3>1. i \in DOMAIN u /\ u[i] = q
      BY <1>3, <1>4, <1>6, <2>1, <2>3
    <3>2. QED
      BY <3>1 DEF In
  <2>4. CASE i > k
    <3>1. i - 1 \in DOMAIN u /\ u[i - 1] = q
      BY <1>3, <1>4, <1>6, <2>1, <2>4
    <3>2. QED
      BY <3>1 DEF In
  <2>5. QED
    BY <1>3, <1>4, <2>1, <2>2, <2>3, <2>4
<1> HIDE DEF u
<1>12. QED
  BY <1>5, <1>6, <1>7, <1>8, <1>9, <1>10, <1>11 DEF ListOK

\* There is always a stack for a new process: fewer processes are listed than
\* there are stacks.
LEMMA FreeStackOK ==
  ASSUME TypeOK, Numbered, next_pid <= MaxPid
  PROVE  FreeStack \in Pids /\ ~StackTaken(FreeStack)
<1> DEFINE Free == {s \in Pids : ~StackTaken(s)}
           A == 1 .. next_pid - 1
<1>1. MaxPid \in Nat /\ next_pid \in Nat /\ next_pid > 1
  BY ConstAssumption DEF TypeOK
<1>2. Listed \subseteq A
  <2>1. Listed \subseteq Pids
    BY DEF TypeOK, Listed
  <2>2. QED
    BY <1>1, <2>1 DEF Numbered, Pids
<1>3. Free # {}
  <2> SUFFICES ASSUME \A s \in Pids : StackTaken(s) PROVE FALSE
    OBVIOUS
  <2> DEFINE g == [s \in Pids |-> CHOOSE p \in Listed : proc[p].kstack = s]
  <2>1. \A s \in Pids : g[s] \in Listed /\ proc[g[s]].kstack = s
    BY DEF StackTaken
  <2>2. g \in [Pids -> A]
    BY <1>2, <2>1
  <2>3. /\ IsFiniteSet(Pids) /\ Cardinality(Pids) = MaxPid
        /\ IsFiniteSet(A) /\ Cardinality(A) = next_pid - 1
    BY <1>1, FS_Interval DEF Pids
  <2>4. Cardinality(A) < Cardinality(Pids)
    BY <1>1, <2>3
  <2> HIDE DEF g, A
  <2>5. PICK x, y \in Pids : x # y /\ g[x] = g[y]
    BY <2>2, <2>3, <2>4, FS_PigeonHole
  <2>6. QED
    BY <2>1, <2>5
<1>4. PICK s \in Free : \A t \in Free : s <= t
  <2>1. Free \subseteq Nat
    BY DEF Pids
  <2>2. QED
    BY <1>3, <2>1, LeastNumber
<1>5. \A t \in 1 .. s - 1 : StackTaken(t)
  BY <1>1, <1>4 DEF Pids
<1>6. s \in Pids /\ ~StackTaken(s)
  BY <1>4
<1>7. QED
  BY <1>5, <1>6 DEF FreeStack

-----------------------------------------------------------------------------
(* The context switch *)

\* Changing the state field of one process_t.
LEMMA StateUpdate ==
  ASSUME NEW pr \in [Pids -> Process], NEW p \in Pids, NEW s \in States
  PROVE  /\ [pr EXCEPT ![p].state = s] \in [Pids -> Process]
         /\ [pr EXCEPT ![p].state = s][p].state = s
         /\ \A r \in Pids : [pr EXCEPT ![p].state = s][r] =
                            IF r = p THEN [pr[p] EXCEPT !.state = s] ELSE pr[r]
         /\ \A r \in Pids : /\ [pr EXCEPT ![p].state = s][r].type = pr[r].type
                            /\ [pr EXCEPT ![p].state = s][r].code = pr[r].code
<1>1. pr[p] \in Process
  OBVIOUS
<1>2. /\ [pr[p] EXCEPT !.state = s] \in Process
      /\ [pr[p] EXCEPT !.state = s].state = s
      /\ [pr[p] EXCEPT !.state = s].type = pr[p].type
      /\ [pr[p] EXCEPT !.state = s].code = pr[p].code
  BY <1>1 DEF Process
<1>3. QED
  BY <1>2

\* From a table a handler may leave, a switch to a listed READY or RUNNING
\* process restores the invariant's part about the list.
LEMMA SwitchOK ==
  ASSUME NEW l, NEW pr, NEW new, HandlerOK(l, pr), new \in In(l),
         pr[new].state \in {"READY", "RUNNING"}, context_switch(l, pr, new),
         esp0 \in Stacks, esp \in Stacks
  PROVE  /\ Scheduled'
         /\ current' \in Pids /\ cr3' \in Pids \cup {KDIR}
         /\ esp0' \in Stacks /\ esp' \in Stacks
         /\ procs' \in Seq(Pids) /\ Listed' \subseteq In(l)
         /\ \A p \in Listed' : proc'[p].code = pr[p].code
<1> DEFINE old    == current
           ready  == IF pr[old].state = "RUNNING"
                     THEN [pr EXCEPT ![old].state = "READY"] ELSE pr
           loaded == [ready EXCEPT ![new].state = "RUNNING"]
           ended  == pr[old].state = "TERMINATED"
<1>1. /\ ListOK(l) /\ l \in Seq(Pids) /\ In(l) \subseteq Pids
      /\ old \in In(l) /\ Kernel \in In(l)
  BY DEF HandlerOK, ListOK, In
<1>2. pr \in [Pids -> Process]
  BY DEF HandlerOK
<1>3. /\ ready \in [Pids -> Process]
      /\ \A p \in Pids : ready[p].type = pr[p].type /\ ready[p].code = pr[p].code
      /\ \A p \in Pids \ {old} : ready[p].state = pr[p].state
      /\ ready[old].state =
           IF pr[old].state = "RUNNING" THEN "READY" ELSE pr[old].state
  <2>1. old \in Pids /\ "READY" \in States
    BY <1>1 DEF States
  <2>2. QED
    BY <1>2, <2>1, StateUpdate
<1> HIDE DEF ready
<1>4. /\ loaded \in [Pids -> Process]
      /\ \A p \in Pids : loaded[p].type = pr[p].type /\ loaded[p].code = pr[p].code
      /\ loaded[new].state = "RUNNING"
      /\ \A p \in Pids \ {new} : loaded[p].state = ready[p].state
  <2>1. new \in Pids /\ "RUNNING" \in States
    BY <1>1 DEF States
  <2>2. QED
    BY <1>3, <2>1, StateUpdate
<1> HIDE DEF loaded
<1>5. loaded[old].state = "TERMINATED" <=> ended
  <2>1. CASE old = new
    BY <1>4, <2>1
  <2>2. CASE old # new
    BY <1>1, <1>3, <1>4, <2>2
  <2>3. QED
    BY <2>1, <2>2
<1>6. ended => old # Kernel
  BY DEF HandlerOK
<1>7. \A p \in In(l) : /\ loaded[p].state # "none"
                       /\ loaded[p].state = "RUNNING" => p = new
                       /\ loaded[p].state = "TERMINATED" => p = old /\ ended
  BY <1>1, <1>3, <1>4, <1>5 DEF HandlerOK
<1>8. /\ loaded[Kernel].type = "KERNEL"
      /\ loaded[Kernel].state \in {"RUNNING", "READY"}
  BY <1>1, <1>3, <1>4 DEF HandlerOK
<1>12. /\ current' \in Pids /\ cr3' \in Pids \cup {KDIR}
       /\ esp0' \in Stacks /\ esp' \in Stacks
  <2>1. new \in Pids /\ pr[new].kstack \in Stacks
    BY <1>1, <1>2 DEF Process
  <2>2. QED
    BY <2>1 DEF context_switch, FrameStack
<1>9. CASE ended
  <2>1. /\ ListOK(Unlinked(l, old)) /\ Unlinked(l, old) # l
        /\ In(Unlinked(l, old)) = In(l) \ {old}
    BY <1>1, <1>6, <1>9, UnlinkedOK
  <2>2. /\ current' = new /\ procs' = Unlinked(l, old)
        /\ proc' = [loaded EXCEPT ![old] = NoProcess]
    BY <1>5, <1>9, <2>1 DEF context_switch, loaded, ready
  <2>3. Listed' = In(l) \ {old} /\ In(procs') = In(l) \ {old}
    BY <2>1, <2>2 DEF Listed, In
  <2>4. NoProcess \in Process
    BY ConstAssumption DEF NoProcess, Process, Stacks, NoStack
  <2>5. proc' \in [Pids -> Process]
    BY <1>4, <2>2, <2>4
  <2>6. \A p \in Pids \ {old} : proc'[p] = loaded[p]
    BY <1>4, <2>2
  <2>7. new # old /\ new \in Pids \ {old} /\ Kernel \in Pids \ {old}
    BY <1>1, <1>6, <1>9
  <2>8. HandlerOK(procs, proc)'
    BY <1>1, <1>7, <1>8, <2>1, <2>2, <2>3, <2>5, <2>6, <2>7 DEF HandlerOK, In
  <2>9. QED
    BY <1>1, <1>4, <1>7, <1>12, <2>1, <2>2, <2>3, <2>6, <2>7, <2>8
    DEF Scheduled, ListOK
<1>10. CASE ~ended
  <2>1. current' = new /\ procs' = l /\ proc' = loaded
    BY <1>5, <1>10 DEF context_switch, loaded, ready
  <2>2. Listed' = In(l) /\ In(procs') = In(l)
    BY <2>1 DEF Listed, In
  <2>3. HandlerOK(procs, proc)'
    BY <1>1, <1>4, <1>7, <1>8, <1>10, <2>1, <2>2 DEF HandlerOK, In
  <2>4. QED
    BY <1>1, <1>4, <1>7, <1>10, <1>12, <2>1, <2>2, <2>3 DEF Scheduled, ListOK
<1>11. QED
  BY <1>9, <1>10, <1>12

\* A user process that blocks, yields, sleeps or ends while kernel_main's
\* process is READY leaves the list scheduled and the traversal ends.
LEMMA SwitchAwayOK ==
  ASSUME NEW l, NEW pr, HandlerOK(l, pr), pr[Kernel].state = "READY",
         SwitchAway(l, pr), esp0 \in Stacks, esp \in Stacks
  PROVE  /\ Scheduled' /\ halted' = halted
         /\ current' \in Pids /\ cr3' \in Pids \cup {KDIR}
         /\ esp0' \in Stacks /\ esp' \in Stacks
         /\ procs' \in Seq(Pids) /\ Listed' \subseteq In(l)
         /\ \A p \in Listed' : proc'[p].code = pr[p].code
<1>1. /\ get_next_process(l, pr) \in In(l)
      /\ pr[get_next_process(l, pr)].state = "READY"
      /\ ~TraversalSpins(l, pr)
  BY NextIsReady
<1>2. context_switch(l, pr, get_next_process(l, pr)) /\ halted' = halted
  BY <1>1 DEF SwitchAway
<1>3. QED
  BY <1>1, <1>2, SwitchOK

\* create_process and init_procman make well-typed process_t's.
LEMMA NewProcessOK ==
  ASSUME NEW state \in States, NEW type \in {"KERNEL", "USER"},
         NEW parent \in Nat, NEW size \in Nat, NEW waiting \in Nat,
         NEW kstack \in Stacks, NEW code \in 0 .. CodePages
  PROVE  LET n == NewProcess(state, type, parent, size, waiting, kstack, code)
         IN  n \in Process /\ n.state = state /\ n.type = type /\ n.code = code
<1>1. 0 \in 0 .. TickMod - 1
  BY ConstAssumption
<1>2. QED
  BY <1>1 DEF NewProcess, Process

-----------------------------------------------------------------------------
(* The invariant is inductive *)

\* The first state satisfies the invariant.
LEMMA InitIInv == Init => IInv
<1> SUFFICES ASSUME Init PROVE IInv
  OBVIOUS
<1>1. PICK size \in UninitSizes, w \in UninitPids, q \in UninitPids :
        proc = [p \in Pids |->
                  IF p = Kernel
                  THEN NewProcess("RUNNING", "KERNEL", q, size, w, BootStack, 0)
                  ELSE NoProcess]
  BY DEF Init
<1>2. NoProcess \in Process
  BY ConstAssumption DEF NoProcess, Process, Stacks, NoStack
<1>3. /\ proc \in [Pids -> Process]
      /\ proc[Kernel].type = "KERNEL" /\ proc[Kernel].state = "RUNNING"
  <2> DEFINE kp == NewProcess("RUNNING", "KERNEL", q, size, w, BootStack, 0)
  <2>1. size \in Nat /\ w \in Nat /\ q \in Nat
    BY ConstAssumption
  <2>2. kp \in Process /\ kp.type = "KERNEL" /\ kp.state = "RUNNING"
    <3>1. BootStack \in Stacks /\ 0 \in 0 .. CodePages
      BY ConstAssumption DEF BootStack, Stacks, NoStack
    <3>2. QED
      BY <2>1, <3>1, NewProcessOK DEF States
  <2>3. Kernel \in Pids
    BY ConstAssumption DEF Pids, Kernel
  <2> HIDE DEF kp
  <2>4. QED
    BY <1>1, <1>2, <2>2, <2>3 DEF kp
<1>4. /\ procs \in Seq(Pids) /\ procs # <<>> /\ procs[1] = Kernel
      /\ DOMAIN procs = {1} /\ current = Kernel
  BY ConstAssumption DEF Init, Pids, Kernel
<1>5. Listed = {Kernel} /\ In(procs) = {Kernel}
  BY <1>4 DEF Listed, In
<1>6. Scheduled
  BY <1>3, <1>4, <1>5 DEF Scheduled, HandlerOK, ListOK
<1>7. TypeOK
  <2>1. Kernel \in Pids /\ 0 \in 0 .. TickMod - 1 /\ 0 \in 0 .. TimeSlice - 1
    BY ConstAssumption DEF Pids, Kernel
  <2>2. NoStack \in Stacks /\ BootStack \in Stacks /\ next_pid \in 2 .. MaxPid + 1
    BY ConstAssumption DEF Init, Stacks, NoStack, BootStack, Kernel
  <2>3. boot \in [pc : {"create", "wait", "load", "map", "idle"},
                 start : 0 .. TickMod - 1, child : Pids \cup {0}]
    BY <2>1 DEF Init
  <2>4. QED
    BY <1>3, <1>4, <2>1, <2>2, <2>3 DEF TypeOK, Init
<1>8. Numbered /\ Mapping /\ NoSpin
  BY <1>5 DEF Numbered, Mapping, NoSpin, Init, Kernel
<1>9. QED
  BY <1>6, <1>7, <1>8 DEF IInv

\* The facts about a state of the invariant that the steps below start from.
LEMMA UserStep ==
  ASSUME IInv, proc[current].type = "USER"
  PROVE  /\ current # Kernel /\ proc[Kernel].state = "READY"
         /\ Kernel \in Listed /\ current \in Listed /\ Listed = In(procs)
         /\ Listed \subseteq Pids
<1>1. HandlerOK(procs, proc) /\ ListOK(procs)
  BY DEF IInv, Scheduled, HandlerOK
<1>2. Listed = In(procs) /\ Kernel \in Listed /\ Listed \subseteq Pids
  BY <1>1 DEF Listed, In, ListOK
<1>3. current # Kernel
  BY <1>1 DEF HandlerOK
<1>4. QED
  BY <1>1, <1>2, <1>3 DEF HandlerOK

\* A user process may leave itself in any state, and others as they were or READY.
LEMMA UserTable ==
  ASSUME IInv, proc[current].type = "USER", NEW pr \in [Pids -> Process],
         \A p \in Pids : pr[p].code = proc[p].code /\ pr[p].type = proc[p].type,
         \A p \in Pids \ {current} : pr[p].state \in {proc[p].state, "READY"},
         pr[current].state \in States
  PROVE  HandlerOK(procs, pr) /\ pr[Kernel].state = "READY"
<1>1. /\ current # Kernel /\ proc[Kernel].state = "READY"
      /\ Listed = In(procs) /\ Listed \subseteq Pids /\ Kernel \in Listed
      /\ current \in Listed
  BY UserStep
<1>2. Scheduled
  BY DEF IInv
<1>3. pr[Kernel].state = "READY" /\ pr[Kernel].type = "KERNEL"
  BY <1>1, <1>2 DEF Scheduled, HandlerOK
<1>4. \A p \in Listed : /\ pr[p].state # "none"
                        /\ pr[p].state = "RUNNING" => p = current
                        /\ pr[p].state = "TERMINATED" => p = current
  BY <1>1, <1>2 DEF Scheduled, HandlerOK, States
<1>5. ListOK(procs) /\ current \in In(procs)
  BY <1>2 DEF Scheduled, HandlerOK
<1>6. \A p \in In(procs) : /\ pr[p].state # "none"
                           /\ pr[p].state = "RUNNING" => p = current
                           /\ pr[p].state = "TERMINATED" => p = current
  BY <1>1, <1>4
<1>7. QED
  BY <1>3, <1>5, <1>6 DEF HandlerOK

\* A handler that leaves the list, the boot state and the counters alone and
\* switches away from a user process.
LEMMA UserSwitch ==
  ASSUME IInv, proc[current].type = "USER", NEW pr \in [Pids -> Process],
         \A p \in Pids : pr[p].code = proc[p].code /\ pr[p].type = proc[p].type,
         \A p \in Pids \ {current} : pr[p].state \in {proc[p].state, "READY"},
         pr[current].state \in States,
         SwitchAway(procs, pr),
         UNCHANGED <<next_pid, ticks, scheduler_tick_count, boot>>
  PROVE  IInv'
<1>1. Listed = In(procs) /\ Listed \subseteq Pids
  BY UserStep
<1>2. TypeOK /\ Scheduled /\ Numbered /\ Mapping /\ NoSpin
  BY DEF IInv
<1>3. HandlerOK(procs, pr) /\ pr[Kernel].state = "READY"
  BY UserTable
<1>4. esp0 \in Stacks /\ esp \in Stacks
  BY <1>2 DEF TypeOK
<1>5. /\ Scheduled' /\ halted' = halted
      /\ current' \in Pids /\ cr3' \in Pids \cup {KDIR}
      /\ esp0' \in Stacks /\ esp' \in Stacks
      /\ procs' \in Seq(Pids) /\ Listed' \subseteq Listed
      /\ \A p \in Listed' : proc'[p].code = proc[p].code
  BY <1>1, <1>3, <1>4, SwitchAwayOK
<1>6. TypeOK'
  BY <1>2, <1>5 DEF TypeOK, Scheduled, HandlerOK
<1>7. Numbered' /\ Mapping' /\ NoSpin'
  BY <1>2, <1>5 DEF Numbered, Mapping, NoSpin
<1>8. QED
  BY <1>5, <1>6, <1>7 DEF IInv

\* An interrupt that only wakes blocked or sleeping processes.
LEMMA Wakes ==
  ASSUME IInv, NEW pr \in [Pids -> Process],
         \A p \in Pids : pr[p].code = proc[p].code /\ pr[p].type = proc[p].type,
         \A p \in Pids : \/ pr[p].state = proc[p].state
                         \/ /\ proc[p].state \in {"BLOCKED", "SLEEPING"}
                            /\ pr[p].state = "READY"
  PROVE  /\ HandlerOK(procs, pr) /\ pr[current].state = "RUNNING"
         /\ \A p \in Listed : pr[p].state # "TERMINATED"
         /\ Listed = In(procs) /\ Listed \subseteq Pids /\ current \in Listed
<1>1. Scheduled
  BY DEF IInv
<1>2. /\ ListOK(procs) /\ current \in In(procs)
      /\ proc[Kernel].type = "KERNEL"
      /\ proc[Kernel].state \in {"RUNNING", "READY"}
      /\ proc[current].state = "RUNNING"
      /\ \A p \in Listed : proc[p].state # "TERMINATED"
      /\ \A p \in In(procs) : proc[p].state # "none"
      /\ \A p \in In(procs) : proc[p].state = "RUNNING" => p = current
  BY <1>1 DEF Scheduled, HandlerOK
<1>3. Listed = In(procs) /\ Listed \subseteq Pids /\ Kernel \in Listed
  BY <1>2 DEF Listed, In, ListOK
<1>4. /\ pr[Kernel].type = "KERNEL"
      /\ pr[Kernel].state \in {"RUNNING", "READY"}
      /\ pr[current].state = "RUNNING"
  BY <1>2, <1>3
<1>5. \A p \in Listed :
        /\ pr[p].state # "none" /\ pr[p].state # "TERMINATED"
        /\ pr[p].state = "RUNNING" => p = current
  BY <1>2, <1>3
<1>6. QED
  BY <1>2, <1>3, <1>4, <1>5 DEF HandlerOK

\* A timer tick keeps the invariant, whether or not it switches.
LEMMA TimerStep == IInv /\ timer_handler => IInv'
<1> SUFFICES ASSUME IInv, timer_handler PROVE IInv'
  OBVIOUS
<1> DEFINE now  == (ticks + 1) % TickMod
           pr   == Woken(now)
           next == get_next_process(procs, pr)
<1>1. TypeOK /\ Scheduled /\ Numbered /\ Mapping /\ NoSpin
  BY DEF IInv
<1>2. /\ pr \in [Pids -> Process]
      /\ \A p \in Pids : pr[p].code = proc[p].code /\ pr[p].type = proc[p].type
      /\ \A p \in Pids : \/ pr[p].state = proc[p].state
                         \/ /\ proc[p].state \in {"BLOCKED", "SLEEPING"}
                            /\ pr[p].state = "READY"
  <2>1. "READY" \in States /\ proc \in [Pids -> Process]
    BY <1>1 DEF States, TypeOK
  <2>2. \A p \in Pids : LET r == [proc[p] EXCEPT !.state = "READY"]
                        IN  /\ r \in Process /\ r.state = "READY"
                            /\ r.code = proc[p].code /\ r.type = proc[p].type
    BY <2>1 DEF Process
  <2>3. QED
    BY <2>1, <2>2 DEF Woken
<1>3. now \in 0 .. TickMod - 1
  BY <1>1, ConstAssumption DEF TypeOK
<1> HIDE DEF pr, now
<1>4. /\ HandlerOK(procs, pr) /\ pr[current].state = "RUNNING"
      /\ \A p \in Listed : pr[p].state # "TERMINATED"
      /\ Listed = In(procs) /\ Listed \subseteq Pids /\ current \in Listed
  BY <1>2, Wakes
<1>5. /\ ticks' = now /\ UNCHANGED <<next_pid, boot, halted>>
      /\ scheduler_tick_count' \in 0 .. TimeSlice - 1
  BY <1>1, ConstAssumption DEF timer_handler, TypeOK, now
<1>6. \/ next # current /\ context_switch(procs, pr, next)
      \/ proc' = pr /\ UNCHANGED <<procs, current, cr3, esp0, esp>>
  BY DEF timer_handler, pr, now
<1>7. /\ Scheduled'
      /\ current' \in Pids /\ cr3' \in Pids \cup {KDIR}
      /\ esp0' \in Stacks /\ esp' \in Stacks
      /\ procs' \in Seq(Pids) /\ Listed' \subseteq Listed
      /\ \A p \in Listed' : proc'[p].code = proc[p].code
  <2>1. CASE next # current /\ context_switch(procs, pr, next)
    <3>1. next \in In(procs) /\ pr[next].state = "READY"
      BY <1>4, <2>1, NextProcess DEF HandlerOK, ListOK
    <3>2. esp0 \in Stacks /\ esp \in Stacks
      BY <1>1 DEF TypeOK
    <3> HIDE DEF next
    <3>3. /\ Scheduled'
          /\ current' \in Pids /\ cr3' \in Pids \cup {KDIR}
          /\ esp0' \in Stacks /\ esp' \in Stacks
          /\ procs' \in Seq(Pids) /\ Listed' \subseteq In(procs)
          /\ \A p \in Listed' : proc'[p].code = pr[p].code
      BY <1>4, <2>1, <3>1, <3>2, SwitchOK
    <3>4. QED
      BY <1>2, <1>4, <3>3
  <2>2. CASE proc' = pr /\ UNCHANGED <<procs, current, cr3, esp0, esp>>
    <3>1. Listed' = Listed
      BY <2>2 DEF Listed
    <3>2. HandlerOK(procs, proc)'
      BY <1>4, <2>2 DEF HandlerOK, In
    <3>3. QED
      BY <1>1, <1>2, <1>4, <2>2, <3>1, <3>2 DEF Scheduled, TypeOK
  <2>3. QED
    BY <1>6, <2>1, <2>2
<1>8. TypeOK'
  BY <1>1, <1>3, <1>5, <1>7 DEF TypeOK, Scheduled, HandlerOK
<1>9. Numbered' /\ Mapping' /\ NoSpin'
  BY <1>1, <1>5, <1>7 DEF Numbered, Mapping, NoSpin
<1>10. QED
  BY <1>7, <1>8, <1>9 DEF IInv

\* A key keeps the invariant, whoever it wakes.
LEMMA KeyboardStep ==
  ASSUME IInv, NEW key \in Keys, keyboard_handler(key) PROVE IInv'
<1>1. TypeOK /\ Scheduled /\ Numbered /\ Mapping /\ NoSpin
  BY DEF IInv
<1>2. \A p \in Pids :
        Reading(p) => /\ Typed(proc[p], key) \in Process
                      /\ Typed(proc[p], key).code = proc[p].code
                      /\ Typed(proc[p], key).type = proc[p].type
                      /\ Typed(proc[p], key).state \in {proc[p].state, "READY"}
  <2> SUFFICES ASSUME NEW r \in Process
               PROVE  /\ Typed(r, key) \in Process
                      /\ Typed(r, key).code = r.code /\ Typed(r, key).type = r.type
                      /\ Typed(r, key).state \in {r.state, "READY"}
    BY <1>1 DEF TypeOK
  <2> DEFINE n == IF key # "backspace" THEN r.count + 1
                 ELSE IF r.count > 0 THEN r.count - 1 ELSE 0
  <2>1. n \in Nat
    BY DEF Process
  <2> HIDE DEF n
  <2>2. "READY" \in States
    BY DEF States
  <2>3. \/ Typed(r, key) = [r EXCEPT !.count = 0, !.size = 0, !.state = "READY"]
        \/ Typed(r, key) = [r EXCEPT !.count = n]
    BY DEF Typed, n
  <2>4. /\ [r EXCEPT !.count = n] \in Process
        /\ [r EXCEPT !.count = n].code = r.code
        /\ [r EXCEPT !.count = n].type = r.type
        /\ [r EXCEPT !.count = n].state = r.state
    BY <2>1 DEF Process
  <2> DEFINE e == [r EXCEPT !.count = 0, !.size = 0, !.state = "READY"]
  <2>5. e \in Process /\ e.code = r.code /\ e.type = r.type /\ e.state = "READY"
    <3>1. [r EXCEPT !.count = 0] \in Process
      BY DEF Process
    <3>2. [[r EXCEPT !.count = 0] EXCEPT !.size = 0] \in Process
      BY <3>1 DEF Process
    <3>3. e = [[[r EXCEPT !.count = 0] EXCEPT !.size = 0] EXCEPT !.state = "READY"]
      BY DEF Process
    <3>4. QED
      BY <2>2, <3>2, <3>3 DEF Process
  <2> HIDE DEF e
  <2>6. QED
    BY <2>3, <2>4, <2>5 DEF e
<1>3. /\ proc' = [p \in Pids |->
                    IF Reading(p) THEN Typed(proc[p], key) ELSE proc[p]]
      /\ cr3' \in {KDIR, cr3}
      /\ UNCHANGED <<procs, current, next_pid, ticks, scheduler_tick_count,
                     esp0, esp, boot, halted>>
  BY DEF keyboard_handler
<1>4. /\ proc' \in [Pids -> Process]
      /\ \A p \in Pids : proc'[p].code = proc[p].code /\ proc'[p].type = proc[p].type
      /\ \A p \in Pids : \/ proc'[p].state = proc[p].state
                         \/ /\ proc[p].state \in {"BLOCKED", "SLEEPING"}
                            /\ proc'[p].state = "READY"
  BY <1>1, <1>2, <1>3 DEF TypeOK, Reading
<1>5. /\ HandlerOK(procs, proc') /\ proc'[current].state = "RUNNING"
      /\ \A p \in Listed : proc'[p].state # "TERMINATED"
      /\ Listed \subseteq Pids
  BY <1>4, Wakes
<1>6. Listed' = Listed
  BY <1>3 DEF Listed
<1>7. HandlerOK(procs, proc)'
  BY <1>3, <1>5 DEF HandlerOK, In
<1>8. Scheduled'
  BY <1>3, <1>5, <1>6, <1>7 DEF Scheduled
<1>9. TypeOK'
  BY <1>1, <1>3, <1>4 DEF TypeOK
<1>10. Numbered' /\ Mapping' /\ NoSpin'
  BY <1>1, <1>3, <1>4, <1>5, <1>6 DEF Numbered, Mapping, NoSpin
<1>11. QED
  BY <1>8, <1>9, <1>10 DEF IInv

\* A fault and the calls that end, yield, sleep or read hand the scheduler a
\* table in which they change their caller and, at most, wake others.
Handed(pr) ==
  /\ pr \in [Pids -> Process] /\ pr[current].state \in States \ {"READY"}
  /\ \A p \in Pids : pr[p].code = proc[p].code /\ pr[p].type = proc[p].type
  /\ \A p \in Pids \ {current} : pr[p].state \in {proc[p].state, "READY"}
  /\ \A p \in Pids \ Listed : pr[p] = proc[p]

\* A fault and those calls do that, and nothing but the scheduler's switch.
LEMMA UserCalls ==
  ASSUME IInv,
         \/ fault_handler \/ sys_exit \/ sys_yield
         \/ \E n \in SleepTicks : sys_sleep(n)
         \/ \E n \in ReadSizes : sys_read(n)
  PROVE  /\ proc[current].type = "USER"
         /\ \E pr : /\ Handed(pr) /\ SwitchAway(procs, pr)
                    /\ UNCHANGED <<next_pid, ticks, scheduler_tick_count, boot>>
<1> DEFINE Goal == \E pr : /\ Handed(pr) /\ SwitchAway(procs, pr)
                           /\ UNCHANGED <<next_pid, ticks, scheduler_tick_count, boot>>
<1>1. TypeOK /\ proc \in [Pids -> Process] /\ current \in Pids
  BY DEF IInv, TypeOK
<1>2. proc[current].type = "USER" /\ current \in Listed
  <2>1. proc[current].type = "USER"
    BY DEF fault_handler, sys_exit, sys_yield, sys_sleep, sys_read, UserCode
  <2>2. QED
    BY <2>1, UserStep
<1>3. {"RUNNING", "READY", "TERMINATED", "SLEEPING", "BLOCKED"} \subseteq States
  BY DEF States
<1>4. proc[current].state = "RUNNING"
  BY DEF IInv, Scheduled
<1>5. CASE fault_handler
  <2> DEFINE pr == [proc EXCEPT ![current].state = "TERMINATED"]
  <2>1. /\ pr \in [Pids -> Process] /\ pr[current].state \in States \ {"READY"}
        /\ \A p \in Pids : pr[p].code = proc[p].code /\ pr[p].type = proc[p].type
        /\ \A p \in Pids \ {current} : pr[p].state \in {proc[p].state, "READY"}
        /\ \A p \in Pids \ Listed : pr[p] = proc[p]
    BY <1>1, <1>2, <1>3, StateUpdate
  <2>2. /\ SwitchAway(procs, pr)
        /\ UNCHANGED <<next_pid, ticks, scheduler_tick_count, boot>>
    BY <1>5 DEF fault_handler
  <2> HIDE DEF pr
  <2>3. QED
    BY <1>2, <2>1, <2>2 DEF Handed
<1>6. CASE sys_exit
  <2> DEFINE pr == [p \in Pids |->
               IF p = current THEN [proc[p] EXCEPT !.state = "TERMINATED"]
               ELSE IF p \in WaitingParent
                    THEN [proc[p] EXCEPT !.pid_waiting_for = 0, !.state = "READY"]
                    ELSE proc[p]]
  <2>1. \A p \in Pids :
          LET r == [proc[p] EXCEPT !.pid_waiting_for = 0, !.state = "READY"]
          IN  r \in Process /\ r.state = "READY"
              /\ r.code = proc[p].code /\ r.type = proc[p].type
    <3> SUFFICES ASSUME NEW q \in Process
                 PROVE  LET r == [q EXCEPT !.pid_waiting_for = 0, !.state = "READY"]
                        IN  r \in Process /\ r.state = "READY"
                            /\ r.code = q.code /\ r.type = q.type
      BY <1>1
    <3>1. [q EXCEPT !.pid_waiting_for = 0] \in Process
      BY DEF Process
    <3>2. QED
      BY <1>3, <3>1 DEF Process
  <2>2. LET r == [proc[current] EXCEPT !.state = "TERMINATED"]
        IN  r \in Process /\ r.state = "TERMINATED"
            /\ r.code = proc[current].code /\ r.type = proc[current].type
    BY <1>1, <1>3 DEF Process
  <2>3. /\ pr \in [Pids -> Process] /\ pr[current].state \in States \ {"READY"}
        /\ \A p \in Pids : pr[p].code = proc[p].code /\ pr[p].type = proc[p].type
        /\ \A p \in Pids \ {current} : pr[p].state \in {proc[p].state, "READY"}
        /\ \A p \in Pids \ Listed : pr[p] = proc[p]
    BY <1>1, <1>2, <1>3, <2>1, <2>2 DEF WaitingParent
  <2>4. /\ SwitchAway(procs, pr)
        /\ UNCHANGED <<next_pid, ticks, scheduler_tick_count, boot>>
    BY <1>6 DEF sys_exit
  <2> HIDE DEF pr
  <2>5. QED
    BY <1>2, <2>3, <2>4 DEF Handed
<1>7. CASE sys_yield
  <2>1. proc[current].state \in States \ {"READY"}
    BY <1>3, <1>4
  <2>2. /\ SwitchAway(procs, proc)
        /\ UNCHANGED <<next_pid, ticks, scheduler_tick_count, boot>>
    BY <1>7 DEF sys_yield
  <2>3. QED
    BY <1>1, <1>2, <2>1, <2>2 DEF Handed
<1>8. ASSUME NEW n \in SleepTicks, sys_sleep(n) PROVE Goal
  <2> DEFINE t  == (ticks + n) % TickMod
             r  == [[proc[current] EXCEPT !.wake_tick = t] EXCEPT !.state = "SLEEPING"]
             pr == [proc EXCEPT ![current].wake_tick = t,
                                ![current].state = "SLEEPING"]
  <2>1. t \in 0 .. TickMod - 1
    BY <1>1, ConstAssumption DEF TypeOK
  <2> HIDE DEF t
  <2>2. pr = [proc EXCEPT ![current] = r]
    BY <1>1 DEF Process
  <2>3. /\ r \in Process /\ r.state = "SLEEPING"
        /\ r.code = proc[current].code /\ r.type = proc[current].type
    <3>1. [proc[current] EXCEPT !.wake_tick = t] \in Process
      BY <1>1, <2>1 DEF Process
    <3>2. QED
      BY <1>1, <1>3, <3>1 DEF Process
  <2>4. SwitchAway(procs, pr) /\ UNCHANGED <<next_pid, ticks, scheduler_tick_count, boot>>
    BY <1>8 DEF sys_sleep, t
  <2> HIDE DEF pr, r
  <2>5. /\ pr \in [Pids -> Process] /\ pr[current].state \in States \ {"READY"}
        /\ \A p \in Pids : pr[p].code = proc[p].code /\ pr[p].type = proc[p].type
        /\ \A p \in Pids \ {current} : pr[p].state \in {proc[p].state, "READY"}
        /\ \A p \in Pids \ Listed : pr[p] = proc[p]
    BY <1>1, <1>2, <1>3, <2>2, <2>3
  <2>6. QED
    BY <1>2, <2>4, <2>5 DEF Handed
<1>9. ASSUME NEW n \in ReadSizes, sys_read(n) PROVE Goal
  <2> DEFINE s  == [proc[current] EXCEPT !.state = "BLOCKED"]
             r  == [[s EXCEPT !.size = n] EXCEPT !.count = 0]
             pr == [proc EXCEPT ![current].state = "BLOCKED",
                                ![current].size = n, ![current].count = 0]
  <2>1. n \in Nat
    BY ConstAssumption
  <2>2. pr = [proc EXCEPT ![current] = r]
    BY <1>1 DEF Process
  <2>3. /\ r \in Process /\ r.state = "BLOCKED"
        /\ r.code = proc[current].code /\ r.type = proc[current].type
    <3>1. s \in Process /\ s.state = "BLOCKED"
          /\ s.code = proc[current].code /\ s.type = proc[current].type
      BY <1>1, <1>3 DEF Process
    <3> HIDE DEF s
    <3>2. [s EXCEPT !.size = n] \in Process
      BY <2>1, <3>1 DEF Process
    <3>3. QED
      BY <3>1, <3>2 DEF Process
  <2>4. SwitchAway(procs, pr) /\ UNCHANGED <<next_pid, ticks, scheduler_tick_count, boot>>
    BY <1>9 DEF sys_read
  <2> HIDE DEF pr, r
  <2>5. /\ pr \in [Pids -> Process] /\ pr[current].state \in States \ {"READY"}
        /\ \A p \in Pids : pr[p].code = proc[p].code /\ pr[p].type = proc[p].type
        /\ \A p \in Pids \ {current} : pr[p].state \in {proc[p].state, "READY"}
        /\ \A p \in Pids \ Listed : pr[p] = proc[p]
    BY <1>1, <1>2, <1>3, <2>2, <2>3
  <2>6. QED
    BY <1>2, <2>4, <2>5 DEF Handed
<1>10. QED
  BY <1>2, <1>5, <1>6, <1>7, <1>8, <1>9

\* So do these.
LEMMA UserSteps ==
  ASSUME IInv,
         \/ fault_handler \/ sys_exit \/ sys_yield
         \/ \E n \in SleepTicks : sys_sleep(n)
         \/ \E n \in ReadSizes : sys_read(n)
  PROVE  IInv'
<1>1. PICK pr : /\ Handed(pr) /\ SwitchAway(procs, pr)
                /\ UNCHANGED <<next_pid, ticks, scheduler_tick_count, boot>>
  BY UserCalls
<1>2. proc[current].type = "USER"
  BY UserCalls
<1>3. QED
  BY <1>1, <1>2, UserSwitch DEF Handed

\* Appending a process that is not listed yet.
LEMMA AppendOK ==
  ASSUME NEW l, ListOK(l), NEW p \in Pids, p \notin In(l)
  PROVE  ListOK(Append(l, p)) /\ In(Append(l, p)) = In(l) \cup {p}
<1> DEFINE a == Append(l, p)
<1>1. /\ l \in Seq(Pids) /\ Len(l) \in Nat \ {0} /\ DOMAIN l = 1 .. Len(l)
      /\ l[1] = Kernel /\ \A i, j \in DOMAIN l : l[i] = l[j] => i = j
  BY DEF ListOK
<1>2. /\ a \in Seq(Pids) /\ Len(a) = Len(l) + 1 /\ DOMAIN a = 1 .. Len(l) + 1
      /\ \A i \in 1 .. Len(l) : a[i] = l[i]
      /\ a[Len(l) + 1] = p
  BY <1>1
<1> HIDE DEF a
<1>3. \A i \in 1 .. Len(l) : l[i] # p
  BY <1>1 DEF In
<1>4. \A i, j \in DOMAIN a : a[i] = a[j] => i = j
  BY <1>1, <1>2, <1>3
<1>5. ListOK(a)
  BY <1>1, <1>2, <1>4 DEF ListOK
<1>6. In(a) = In(l) \cup {p}
  <2>1. In(a) \subseteq In(l) \cup {p}
    BY <1>1, <1>2 DEF In
  <2>2. p \in In(a)
    BY <1>1, <1>2 DEF In
  <2>3. In(l) \subseteq In(a)
    BY <1>1, <1>2 DEF In
  <2>4. QED
    BY <2>1, <2>2, <2>3
<1>7. QED
  BY <1>5, <1>6 DEF a

\* The next pid is not listed yet.
LEMMA CreatedListed ==
  ASSUME IInv, next_pid <= MaxPid
  PROVE  /\ next_pid \in Pids /\ next_pid \notin Listed /\ Kernel # next_pid
         /\ Listed = In(procs) /\ Kernel \in Listed /\ current \in Listed
         /\ Listed \subseteq Pids
         /\ ListOK(Append(procs, next_pid))
         /\ In(Append(procs, next_pid)) = Listed \cup {next_pid}
<1>1. TypeOK /\ Numbered /\ Scheduled
  BY DEF IInv
<1>2. next_pid \in Pids /\ next_pid \notin Listed /\ Kernel # next_pid
  BY <1>1, ConstAssumption DEF TypeOK, Numbered, Pids, Kernel
<1>3. ListOK(procs) /\ current \in In(procs)
  BY <1>1 DEF Scheduled, HandlerOK
<1>4. Listed = In(procs) /\ Kernel \in Listed /\ Listed \subseteq Pids
  BY <1>3 DEF Listed, In, ListOK
<1>5. QED
  BY <1>2, <1>3, <1>4, AppendOK

\* A process_t that create_process can make in a state of the invariant.
LEMMA CreatedOK ==
  ASSUME IInv, next_pid <= MaxPid, NEW type \in {"KERNEL", "USER"},
         NEW parent \in Nat, NEW size \in Nat, NEW waiting \in Nat,
         NEW code \in 0 .. CodePages
  PROVE  create_process(type, parent, size, waiting, code) \in Process
<1>1. FreeStack \in Stacks /\ "READY" \in States
  BY FreeStackOK, ConstAssumption DEF IInv, Stacks, Pids, NoStack, States
<1>2. QED
  BY <1>1, NewProcessOK DEF create_process

\* The table FS_RUN hands to the scheduler: the child made, its parent blocked.
RunTable(size, w) ==
  [proc EXCEPT ![next_pid] = create_process("USER", current, size, w, CodePages),
               ![current].pid_waiting_for = next_pid,
               ![current].state = "BLOCKED"]

\* That table is one a handler may hand over, and it differs from the one
\* before in the child and its parent only.
LEMMA RunTableOK ==
  ASSUME IInv, proc[current].type = "USER", next_pid <= MaxPid,
         NEW size \in UninitSizes, NEW w \in UninitPids
  PROVE  LET l  == Append(procs, next_pid)
             cp == create_process("USER", current, size, w, CodePages)
             r  == [proc[current] EXCEPT !.pid_waiting_for = next_pid, !.state = "BLOCKED"]
             pr == RunTable(size, w)
         IN  /\ HandlerOK(l, pr) /\ pr[Kernel].state = "READY"
             /\ In(l) = Listed \cup {next_pid}
             /\ next_pid \in Pids /\ next_pid \notin Listed /\ current \in Listed
             /\ Listed \subseteq Pids
             /\ pr[next_pid] = cp /\ cp \in Process
             /\ pr[current] = r /\ r \in Process
             /\ \A p \in Pids \ {next_pid, current} : pr[p] = proc[p]
             /\ \A p \in Listed : pr[p].code = proc[p].code
<1> DEFINE child == next_pid
           l     == Append(procs, child)
           cp    == create_process("USER", current, size, w, CodePages)
           s     == [proc[current] EXCEPT !.pid_waiting_for = child]
           r     == [s EXCEPT !.state = "BLOCKED"]
           rr    == [proc[current] EXCEPT !.pid_waiting_for = child, !.state = "BLOCKED"]
           pr    == RunTable(size, w)
<1>1. TypeOK /\ Scheduled /\ HandlerOK(procs, proc)
  BY DEF IInv, Scheduled
<1>2. /\ current # Kernel /\ proc[Kernel].state = "READY"
      /\ proc[Kernel].type = "KERNEL" /\ current \in Pids
  BY <1>1, UserStep DEF HandlerOK, TypeOK
<1>3. size \in Nat /\ w \in Nat /\ current \in Nat /\ child \in Nat
      /\ CodePages \in 0 .. CodePages
  BY <1>1, <1>2, ConstAssumption DEF TypeOK, Pids
<1>4. /\ cp \in Process /\ cp.state = "READY" /\ cp.type = "USER"
      /\ child \in Pids /\ child \notin Listed /\ Kernel # child
      /\ Listed = In(procs) /\ Kernel \in Listed /\ current \in Listed
      /\ Listed \subseteq Pids
      /\ ListOK(l) /\ In(l) = Listed \cup {child}
  <2>1. cp \in Process
    BY <1>3, CreatedOK
  <2>2. cp.state = "READY" /\ cp.type = "USER"
    BY DEF create_process, NewProcess
  <2>3. QED
    BY <2>1, <2>2, CreatedListed
<1> HIDE DEF cp, l
<1>5. /\ r \in Process /\ r.state = "BLOCKED"
      /\ r.code = proc[current].code /\ r.type = proc[current].type /\ r = rr
  <2>1. s \in Process /\ s.code = proc[current].code /\ s.type = proc[current].type
    BY <1>1, <1>2, <1>3 DEF TypeOK, Process
  <2>2. r = rr
    BY <1>1, <1>2 DEF TypeOK, Process
  <2> HIDE DEF s
  <2>3. QED
    BY <2>1, <2>2 DEF Process, States
<1>6. pr = [[proc EXCEPT ![child] = cp] EXCEPT ![current] = r]
  BY <1>1, <1>2, <1>4 DEF TypeOK, Process, RunTable, cp
<1> HIDE DEF r, rr, pr
<1>7. /\ pr \in [Pids -> Process] /\ pr[child] = cp /\ pr[current] = r
      /\ \A p \in Pids \ {child, current} : pr[p] = proc[p]
  BY <1>1, <1>2, <1>4, <1>5, <1>6 DEF TypeOK
<1>8. /\ pr[Kernel].state = "READY" /\ pr[Kernel].type = "KERNEL"
      /\ \A p \in Listed : pr[p].code = proc[p].code
  BY <1>2, <1>4, <1>5, <1>7
<1>9. \A p \in In(l) :
        /\ pr[p].state # "none"
        /\ pr[p].state = "RUNNING" => p = current
        /\ pr[p].state = "TERMINATED" => p = current
  BY <1>1, <1>4, <1>5, <1>7 DEF HandlerOK, Scheduled
<1>10. HandlerOK(l, pr)
  BY <1>4, <1>7, <1>8, <1>9 DEF HandlerOK
<1>11. QED
  BY <1>4, <1>5, <1>7, <1>8, <1>10 DEF l, cp, rr, pr

\* So does FS_RUN, which lists a child and blocks its parent.
LEMMA RunStep ==
  ASSUME IInv, NEW size \in UninitSizes, NEW w \in UninitPids, sys_run(size, w)
  PROVE  IInv'
<1> DEFINE child == next_pid
           l     == Append(procs, child)
           pr    == RunTable(size, w)
<1>1. TypeOK /\ Scheduled /\ Numbered /\ Mapping /\ NoSpin
  BY DEF IInv
<1>2. /\ proc[current].type = "USER" /\ next_pid <= MaxPid
      /\ next_pid' = next_pid + 1 /\ SwitchAway(l, pr)
      /\ UNCHANGED <<ticks, scheduler_tick_count, boot>>
  BY DEF sys_run, UserCode, RunTable
<1>3. /\ HandlerOK(l, pr) /\ pr[Kernel].state = "READY"
      /\ In(l) = Listed \cup {child} /\ child \in Pids /\ child \notin Listed
      /\ Listed \subseteq Pids /\ \A p \in Listed : pr[p].code = proc[p].code
  BY <1>2, RunTableOK
<1> HIDE DEF l, pr
<1>4. esp0 \in Stacks /\ esp \in Stacks /\ child \in Nat
  BY <1>1, <1>3 DEF TypeOK, Pids
<1>5. /\ Scheduled' /\ halted' = halted
      /\ current' \in Pids /\ cr3' \in Pids \cup {KDIR}
      /\ esp0' \in Stacks /\ esp' \in Stacks
      /\ procs' \in Seq(Pids) /\ Listed' \subseteq Listed \cup {child}
      /\ \A p \in Listed' : proc'[p].code = pr[p].code
  BY <1>2, <1>3, <1>4, SwitchAwayOK
<1>6. next_pid' \in 2 .. MaxPid + 1
  BY <1>1, <1>2, ConstAssumption DEF TypeOK
<1>7. TypeOK'
  BY <1>1, <1>2, <1>5, <1>6 DEF TypeOK, Scheduled, HandlerOK
<1>8. Numbered'
  BY <1>1, <1>2, <1>3, <1>4, <1>5 DEF Numbered, Pids
<1>9. Mapping' /\ NoSpin'
  BY <1>1, <1>2, <1>3, <1>4, <1>5 DEF Mapping, NoSpin, Pids
<1>10. QED
  BY <1>5, <1>7, <1>8, <1>9 DEF IInv

\* kernel_main appends a READY process and goes on running.
LEMMA BootAppend ==
  ASSUME IInv, next_pid <= MaxPid, NEW type \in {"KERNEL", "USER"},
         NEW parent \in UninitPids, NEW size \in UninitSizes,
         NEW waiting \in UninitPids,
         proc' = [proc EXCEPT ![next_pid] =
                    create_process(type, parent, size, waiting, 0)],
         procs' = Append(procs, next_pid), next_pid' = next_pid + 1,
         UNCHANGED <<current, ticks, scheduler_tick_count, cr3, esp0, esp, halted>>,
         boot' \in [pc : {"create", "wait", "load", "map", "idle"},
                    start : 0 .. TickMod - 1, child : Pids \cup {0}],
         boot'.pc = "map" => boot'.child = next_pid
  PROVE  IInv'
<1> DEFINE cp == create_process(type, parent, size, waiting, 0)
<1>1. TypeOK /\ Scheduled /\ Numbered /\ NoSpin /\ HandlerOK(procs, proc)
  BY DEF IInv, Scheduled
<1>2. parent \in Nat /\ size \in Nat /\ waiting \in Nat /\ 0 \in 0 .. CodePages
  BY ConstAssumption
<1>3. /\ cp \in Process /\ cp.state = "READY" /\ cp.code = 0
      /\ next_pid \in Pids /\ next_pid \notin Listed /\ Kernel # next_pid
      /\ Listed = In(procs) /\ Kernel \in Listed /\ current \in Listed
      /\ Listed \subseteq Pids
      /\ ListOK(Append(procs, next_pid))
      /\ In(Append(procs, next_pid)) = Listed \cup {next_pid}
  <2>1. cp \in Process
    BY <1>2, CreatedOK
  <2>2. cp.state = "READY" /\ cp.code = 0
    BY DEF create_process, NewProcess
  <2>3. QED
    BY <2>1, <2>2, CreatedListed
<1> HIDE DEF cp
<1>4. /\ proc' \in [Pids -> Process] /\ proc'[next_pid] = cp
      /\ \A p \in Pids \ {next_pid} : proc'[p] = proc[p]
  BY <1>1, <1>3 DEF TypeOK, cp
<1>5. Listed' = Listed \cup {next_pid} /\ In(procs') = Listed \cup {next_pid}
  BY <1>3, SMTT(30) DEF Listed, In
<1>6. \A p \in In(procs') :
        /\ proc'[p].state # "none"
        /\ proc'[p].state = "RUNNING" => p = current
        /\ proc'[p].state # "TERMINATED"
  BY <1>1, <1>3, <1>4, <1>5 DEF HandlerOK, Scheduled
<1>7. /\ proc'[Kernel].type = "KERNEL" /\ proc'[current].state = "RUNNING"
      /\ proc'[Kernel].state \in {"RUNNING", "READY"}
  BY <1>1, <1>3, <1>4 DEF HandlerOK, Scheduled
<1>8. HandlerOK(procs, proc)'
  BY <1>3, <1>4, <1>5, <1>6, <1>7 DEF HandlerOK, In
<1>9. Scheduled'
  BY <1>5, <1>6, <1>7, <1>8 DEF Scheduled
<1>10. next_pid' \in 2 .. MaxPid + 1 /\ next_pid \in Nat
  BY <1>1, ConstAssumption DEF TypeOK
<1>11. TypeOK'
  BY <1>1, <1>3, <1>4, <1>10 DEF TypeOK, ListOK
<1>12. Numbered'
  BY <1>1, <1>3, <1>5, <1>10 DEF Numbered, Pids
<1>13. Mapping' /\ NoSpin'
  BY <1>1, <1>3, <1>4, <1>10, ConstAssumption DEF Mapping, NoSpin
<1>14. QED
  BY <1>9, <1>11, <1>12, <1>13 DEF IInv

\* So do the steps of kernel_main.
LEMMA BootSteps ==
  ASSUME IInv,
         \/ \E size \in UninitSizes, w \in UninitPids, q \in UninitPids :
              boot_create(size, w, q) \/ boot_load(size, w, q)
         \/ boot_wait \/ boot_map
  PROVE  IInv'
<1>1. TypeOK /\ Scheduled /\ Numbered /\ Mapping /\ NoSpin
  BY DEF IInv
<1>2. ticks \in 0 .. TickMod - 1 /\ 0 \in 0 .. TickMod - 1 /\ next_pid \in Nat
  BY <1>1, ConstAssumption DEF TypeOK
<1>3. ASSUME NEW size \in UninitSizes, NEW w \in UninitPids, NEW q \in UninitPids,
             boot_create(size, w, q)
      PROVE  IInv'
  <2>1. /\ boot' \in [pc : {"create", "wait", "load", "map", "idle"},
                      start : 0 .. TickMod - 1, child : Pids \cup {0}]
        /\ boot'.pc # "map"
    BY <1>2, <1>3 DEF boot_create
  <2>2. QED
    BY <1>3, <2>1, BootAppend DEF boot_create
<1>4. ASSUME NEW size \in UninitSizes, NEW w \in UninitPids, NEW q \in UninitPids,
             boot_load(size, w, q)
      PROVE  IInv'
  <2>1. next_pid \in Pids
    BY <1>1, <1>4, ConstAssumption DEF boot_load, TypeOK, Pids
  <2>2. /\ boot' \in [pc : {"create", "wait", "load", "map", "idle"},
                      start : 0 .. TickMod - 1, child : Pids \cup {0}]
        /\ boot'.child = next_pid
    BY <1>2, <1>4, <2>1 DEF boot_load
  <2>3. QED
    BY <1>4, <2>2, BootAppend DEF boot_load
<1>5. CASE boot_wait
  <2>1. /\ UNCHANGED <<proc, procs, current, next_pid, ticks,
                       scheduler_tick_count, cr3, esp0, esp, halted>>
        /\ boot' = [pc |-> "load", start |-> 0, child |-> 0]
    BY <1>5 DEF boot_wait
  <2>2. Listed' = Listed
    BY <2>1 DEF Listed
  <2>3. TypeOK'
    BY <1>1, <1>2, <2>1 DEF TypeOK
  <2>4. Scheduled'
    BY <1>1, <2>1, <2>2 DEF Scheduled, HandlerOK, In
  <2>5. Numbered' /\ Mapping' /\ NoSpin'
    BY <1>1, <2>1, <2>2 DEF Numbered, Mapping, NoSpin
  <2>6. QED
    BY <2>3, <2>4, <2>5 DEF IInv
<1>6. CASE boot_map
  <2> DEFINE shell == boot.child
             n     == proc[shell].code + 1
  <2>1. /\ boot.pc = "map" /\ shell \in Pids /\ shell < next_pid
        /\ UNCHANGED <<procs, current, next_pid, ticks, scheduler_tick_count,
                       cr3, esp0, esp>>
    BY <1>1, <1>6 DEF boot_map, KernelMain, Mapping
  <2>2. Listed' = Listed
    BY <2>1 DEF Listed
  <2>3. HandlerOK(procs, proc)
    BY <1>1 DEF Scheduled
  <2>4. CASE shell \notin Listed
    <3>1. proc' = proc /\ boot' = boot /\ halted' = "fault"
      BY <1>6, <2>4 DEF boot_map
    <3>2. TypeOK'
      BY <1>1, <2>1, <3>1 DEF TypeOK
    <3>3. Scheduled'
      BY <1>1, <2>1, <2>2, <3>1 DEF Scheduled, HandlerOK, In
    <3>4. Numbered' /\ Mapping' /\ NoSpin'
      BY <1>1, <2>1, <2>2, <3>1 DEF Numbered, Mapping, NoSpin
    <3>5. QED
      BY <3>2, <3>3, <3>4 DEF IInv
  <2>5. CASE shell \in Listed
    <3>1. /\ proc' = [proc EXCEPT ![shell].code = n] /\ halted' = halted
          /\ boot' = IF n = CodePages
                     THEN [pc |-> "idle", start |-> 0, child |-> 0] ELSE boot
      BY <1>6, <2>5 DEF boot_map
    <3>2. proc[shell] \in Process /\ n \in 0 .. CodePages
      <4>1. proc[shell] \in Process /\ proc[shell].code < CodePages
        BY <1>1, <2>1, <2>5 DEF Mapping, TypeOK
      <4>2. proc[shell].code \in 0 .. CodePages
        BY <4>1 DEF Process
      <4>3. QED
        BY <4>1, <4>2, ConstAssumption
    <3>3. LET r == [proc[shell] EXCEPT !.code = n]
          IN  /\ r \in Process /\ r.code = n
              /\ r.state = proc[shell].state /\ r.type = proc[shell].type
      <4> DEFINE q == proc[shell]
      <4> HIDE DEF q, n
      <4>1. q \in Process
        BY <3>2 DEF q
      <4>2. LET r == [q EXCEPT !.code = n]
            IN  r \in Process /\ r.code = n /\ r.state = q.state /\ r.type = q.type
        BY <3>2, <4>1 DEF Process
      <4>3. QED
        BY <4>2 DEF q
    <3>4. /\ proc' \in [Pids -> Process]
          /\ \A p \in Pids : /\ proc'[p].state = proc[p].state
                             /\ proc'[p].type = proc[p].type
          /\ proc'[shell].code = n
      BY <1>1, <2>1, <3>1, <3>3 DEF TypeOK
    <3>5. In(procs) \subseteq Pids /\ Listed = In(procs) /\ Kernel \in Pids
      BY <2>3 DEF HandlerOK, ListOK, In, Listed
    <3>6. HandlerOK(procs, proc)'
      BY <2>1, <2>3, <3>4, <3>5 DEF HandlerOK, In
    <3>7. Scheduled'
      BY <1>1, <2>1, <2>2, <3>4, <3>5, <3>6 DEF Scheduled, TypeOK
    <3>8. TypeOK'
      BY <1>1, <1>2, <2>1, <3>1, <3>4 DEF TypeOK
    <3>9. Mapping'
      BY <2>1, <2>2, <3>1, <3>2, <3>4, ConstAssumption DEF Mapping
    <3>10. Numbered' /\ NoSpin'
      BY <1>1, <2>1, <2>2, <3>1 DEF Numbered, NoSpin
    <3>11. QED
      BY <3>7, <3>8, <3>9, <3>10 DEF IInv
  <2>6. QED
    BY <2>4, <2>5
<1>7. QED
  BY <1>3, <1>4, <1>5, <1>6

\* The invariant speaks of the variables alone.
LEMMA Stutter == IInv /\ UNCHANGED vars => IInv'
<1> SUFFICES ASSUME IInv, UNCHANGED vars PROVE IInv'
  OBVIOUS
<1>1. Listed' = Listed
  BY DEF Listed, vars
<1>2. TypeOK'
  BY DEF TypeOK, IInv, vars
<1>3. Scheduled'
  BY <1>1 DEF Scheduled, HandlerOK, In, IInv, vars
<1>4. Numbered' /\ Mapping' /\ NoSpin'
  BY <1>1 DEF Numbered, Mapping, NoSpin, IInv, vars
<1>5. QED
  BY <1>2, <1>3, <1>4 DEF IInv

\* Every step keeps the invariant.
LEMMA NextStep == IInv /\ [Next]_vars => IInv'
<1> SUFFICES ASSUME IInv, [Next]_vars PROVE IInv'
  OBVIOUS
<1>1. CASE timer_handler
  BY <1>1, TimerStep
<1>2. ASSUME NEW key \in Keys, keyboard_handler(key) PROVE IInv'
  BY <1>2, KeyboardStep
<1>3. CASE \/ fault_handler \/ sys_exit \/ sys_yield
           \/ \E n \in SleepTicks : sys_sleep(n)
           \/ \E n \in ReadSizes : sys_read(n)
  BY <1>3, UserSteps
<1>4. ASSUME NEW size \in UninitSizes, NEW w \in UninitPids, sys_run(size, w)
      PROVE  IInv'
  BY <1>4, RunStep
<1>5. CASE \/ \E size \in UninitSizes, w \in UninitPids, q \in UninitPids :
                boot_create(size, w, q) \/ boot_load(size, w, q)
           \/ boot_wait \/ boot_map
  BY <1>5, BootSteps
<1>6. CASE halt_loop \/ UNCHANGED vars
  BY <1>6, Stutter DEF halt_loop
<1>7. QED
  BY <1>1, <1>2, <1>3, <1>4, <1>5, <1>6 DEF Next

-----------------------------------------------------------------------------
(* The theorems *)

\* The invariant holds in every reachable state.
THEOREM Invariance == Spec => []IInv
<1>1. Init => IInv
  BY InitIInv
<1>2. IInv /\ [Next]_vars => IInv'
  BY NextStep
<1>3. QED
  BY <1>1, <1>2, PTL DEF Spec

\* Every field of every process_t and every counter stays within its range.
THEOREM TypeCorrect == Spec => []TypeOK
<1>1. IInv => TypeOK
  BY DEF IInv
<1>2. QED
  BY <1>1, Invariance, PTL

\* Exactly one listed process is RUNNING, and it is current_process.
THEOREM OneRunningAlways == Spec => []OneRunning
<1>1. IInv => OneRunning
  <2> SUFFICES ASSUME IInv PROVE OneRunning
    OBVIOUS
  <2>1. Listed = In(procs)
    BY DEF Listed, In
  <2>2. QED
    BY <2>1 DEF IInv, Scheduled, HandlerOK, OneRunning
<1>2. QED
  BY <1>1, Invariance, PTL

\* get_next_process always ends: the kernel never spins in it.
THEOREM SchedulerNeverSpins == Spec => []NoSpin
<1>1. IInv => NoSpin
  BY DEF IInv
<1>2. QED
  BY <1>1, Invariance, PTL

-----------------------------------------------------------------------------
(* What processes wait for *)

\* kmalloc returns memory that reads 0 where a process_t keeps its read.
Cleared == UninitSizes = {0}

IsUser(pr, p) == pr[p].type = "USER"

-----------------------------------------------------------------------------
(* The invariant, of a list and a table as a handler may hold them *)

\* No two processes of the list have one kernel stack.
OwnStacks(L, pr) == \A p, q \in L : pr[p].kstack = pr[q].kstack => p = q

\* What a read holds fits into its buffer.
Counted(L, pr) == \A p \in L : pr[p].count = 0 \/ pr[p].count < pr[p].size

\* Only a blocked user process reads; all users but the youngest wait for the
\* next one, which is their child.
Chain(L, pr) ==
  /\ \A p \in L : \/ pr[p].size = 0
                  \/ pr[p].state = "BLOCKED" /\ IsUser(pr, p)
  /\ \A p \in L : /\ IsUser(pr, p) => p >= ShellPid
                  /\ p > ShellPid => IsUser(pr, p)
  /\ \A p, q \in L : IsUser(pr, p) /\ IsUser(pr, q) /\ p < q =>
                       pr[p].state = "BLOCKED" /\ pr[p].size = 0
  /\ \A c \in L : c > ShellPid =>
       LET p == pr[c].parent_pid
       IN  /\ p \in L /\ IsUser(pr, p) /\ p < c
           /\ pr[p].pid_waiting_for = c
           /\ \A q \in L : IsUser(pr, q) /\ q < c => q <= p

Steady(L, pr) == OwnStacks(L, pr) /\ Counted(L, pr) /\ (Cleared => Chain(L, pr))

\* Before kernel_main loads the shell there is no user process, and kernel_main
\* stands on the boot stack; pids are handed out in the order of its steps.
Booting ==
  /\ boot.pc = "create" => next_pid = 2
  /\ boot.pc \in {"wait", "load"} => next_pid = ShellPid
  /\ boot.pc \in {"map", "idle"} => next_pid > ShellPid
  /\ boot.pc \in {"create", "wait", "load"} =>
       esp = BootStack /\ \A p \in Listed : proc[p].type = "KERNEL"

WInv ==
  /\ Steady(Listed, proc)
  /\ IsUser(proc, current) => esp0 = proc[current].kstack
  /\ Cleared => Cr3MatchesCurrent
  /\ Booting

-----------------------------------------------------------------------------
(* Lemmas about the parts *)

\* What the invariant sees of a process_t is the same in a and b.
Kept(a, b) ==
  /\ a.type = b.type /\ a.kstack = b.kstack
  /\ a.size = b.size /\ a.count = b.count
  /\ a.pid_waiting_for = b.pid_waiting_for /\ a.parent_pid = b.parent_pid
  /\ a.state = "BLOCKED" <=> b.state = "BLOCKED"

LEMMA SteadyKept ==
  ASSUME NEW L, NEW a, NEW b, Steady(L, a), \A p \in L : Kept(b[p], a[p])
  PROVE  Steady(L, b)
<1>1. OwnStacks(L, b) /\ Counted(L, b)
  BY DEF Steady, OwnStacks, Counted, Kept
<1>2. \A p \in L : /\ IsUser(b, p) <=> IsUser(a, p)
                   /\ b[p].size = a[p].size
                   /\ b[p].pid_waiting_for = a[p].pid_waiting_for
                   /\ b[p].parent_pid = a[p].parent_pid
                   /\ b[p].state = "BLOCKED" <=> a[p].state = "BLOCKED"
  BY DEF Kept, IsUser
<1>3. ASSUME Cleared PROVE Chain(L, b)
  <2>1. Chain(L, a)
    BY <1>3 DEF Steady
  <2>2. \A p \in L : b[p].size = 0 \/ (b[p].state = "BLOCKED" /\ IsUser(b, p))
    BY <1>2, <2>1 DEF Chain
  <2>3. \A p \in L : /\ IsUser(b, p) => p >= ShellPid
                     /\ p > ShellPid => IsUser(b, p)
    BY <1>2, <2>1 DEF Chain
  <2>4. \A p, q \in L : IsUser(b, p) /\ IsUser(b, q) /\ p < q =>
                           b[p].state = "BLOCKED" /\ b[p].size = 0
    BY <1>2, <2>1 DEF Chain
  <2>5. ASSUME NEW c \in L, c > ShellPid
        PROVE  LET p == b[c].parent_pid
               IN  /\ p \in L /\ IsUser(b, p) /\ p < c
                   /\ b[p].pid_waiting_for = c
                   /\ \A q \in L : IsUser(b, q) /\ q < c => q <= p
    BY <1>2, <2>1, <2>5 DEF Chain
  <2>6. QED
    BY <2>2, <2>3, <2>4, <2>5 DEF Chain
<1>4. QED
  BY <1>1, <1>3 DEF Steady

\* A process that is not blocked is nobody's parent, and can go.
LEMMA SteadyLess ==
  ASSUME NEW L, NEW pr, Steady(L, pr), NEW x \in L, pr[x].state # "BLOCKED"
  PROVE  Steady(L \ {x}, pr)
<1>1. OwnStacks(L \ {x}, pr) /\ Counted(L \ {x}, pr)
  BY DEF Steady, OwnStacks, Counted
<1>2. ASSUME Cleared PROVE Chain(L \ {x}, pr)
  <2>1. Chain(L, pr)
    BY <1>2 DEF Steady
  <2>2. ASSUME NEW c \in L \ {x}, c > ShellPid
        PROVE  LET p == pr[c].parent_pid
               IN  /\ p \in L \ {x} /\ IsUser(pr, p) /\ p < c
                   /\ pr[p].pid_waiting_for = c
                   /\ \A q \in L \ {x} : IsUser(pr, q) /\ q < c => q <= p
    <3> DEFINE p == pr[c].parent_pid
    <3>1. /\ p \in L /\ IsUser(pr, p) /\ p < c /\ pr[p].pid_waiting_for = c
          /\ \A q \in L : IsUser(pr, q) /\ q < c => q <= p
      BY <2>1, <2>2 DEF Chain
    <3>2. IsUser(pr, c)
      BY <2>1, <2>2 DEF Chain
    <3> HIDE DEF p
    <3>3. pr[p].state = "BLOCKED"
      BY <2>1, <3>1, <3>2 DEF Chain
    <3>4. QED
      BY <3>1, <3>3 DEF p
  <2>3. QED
    BY <2>1, <2>2 DEF Chain
<1>3. QED
  BY <1>1, <1>2 DEF Steady

\* The processes that stay listed after a switch.
Left(l, pr) == IF pr[current].state = "TERMINATED" THEN In(l) \ {current} ELSE In(l)

\* A switch to a READY process: who stays, and what it loads.
LEMMA SwitchShape ==
  ASSUME NEW l, NEW pr, NEW new, HandlerOK(l, pr), new \in In(l),
         pr[new].state = "READY", context_switch(l, pr, new)
  PROVE  /\ Listed' = Left(l, pr) /\ current' = new /\ new \in Left(l, pr)
         /\ \A p \in Left(l, pr) : Kept(proc'[p], pr[p])
         /\ cr3' = IF IsUser(pr, new) THEN new ELSE KDIR
         /\ esp0' = IF IsUser(pr, new) THEN pr[new].kstack ELSE esp0
         /\ esp' = IF IsUser(pr, new) THEN pr[new].kstack ELSE FrameStack
<1> DEFINE old    == current
           ready  == IF pr[old].state = "RUNNING"
                     THEN [pr EXCEPT ![old].state = "READY"] ELSE pr
           loaded == [ready EXCEPT ![new].state = "RUNNING"]
           left   == IF loaded[old].state = "TERMINATED" THEN Unlinked(l, old) ELSE l
<1>1. /\ ListOK(l) /\ In(l) \subseteq Pids /\ old \in In(l) /\ old \in Pids
      /\ new \in Pids /\ pr \in [Pids -> Process]
      /\ pr[old].state = "TERMINATED" => old # Kernel
  BY DEF HandlerOK, ListOK, In
<1>2. /\ \A p \in Pids : pr[p] \in Process /\ Kept(pr[p], pr[p])
      /\ "READY" # "BLOCKED" /\ "RUNNING" # "BLOCKED" /\ "RUNNING" # "TERMINATED"
  BY <1>1 DEF Kept
<1>3. /\ ready \in [Pids -> Process] /\ \A p \in Pids : Kept(ready[p], pr[p])
      /\ \A p \in Pids \ {old} : ready[p] = pr[p]
      /\ pr[old].state # "RUNNING" => ready = pr
      /\ pr[old].state = "RUNNING" => ready[old].state = "READY"
  <2>1. CASE pr[old].state = "RUNNING"
    <3> DEFINE r == [pr[old] EXCEPT !.state = "READY"]
    <3>1. r \in Process /\ Kept(r, pr[old]) /\ r.state = "READY"
      BY <1>2, <1>1, <2>1 DEF Process, Kept, States
    <3>2. ready = [pr EXCEPT ![old] = r]
      BY <2>1
    <3> HIDE DEF r
    <3>3. QED
      BY <1>1, <1>2, <2>1, <3>1, <3>2
  <2>2. CASE pr[old].state # "RUNNING"
    BY <1>1, <1>2, <2>2
  <2>3. QED
    BY <2>1, <2>2
<1>4. ready[new].state = "READY"
  BY <1>1, <1>3
<1> HIDE DEF ready
<1>5. /\ loaded \in [Pids -> Process] /\ \A p \in Pids : Kept(loaded[p], pr[p])
      /\ \A p \in Pids \ {new} : loaded[p] = ready[p]
      /\ loaded[new].state = "RUNNING"
  <2> DEFINE r == [ready[new] EXCEPT !.state = "RUNNING"]
  <2>1. ready[new] \in Process /\ Kept(ready[new], pr[new])
    BY <1>1, <1>3
  <2>2. r \in Process /\ r.state = "RUNNING" /\ Kept(r, pr[new])
    BY <1>4, <2>1 DEF Process, Kept, States
  <2>3. loaded = [ready EXCEPT ![new] = r]
    OBVIOUS
  <2> HIDE DEF r
  <2>4. QED
    BY <1>1, <1>3, <2>2, <2>3
<1>6. loaded[old].state = "TERMINATED" <=> pr[old].state = "TERMINATED"
  <2>1. CASE old = new
    BY <1>2, <1>5, <2>1
  <2>2. CASE old # new
    BY <1>1, <1>3, <1>5, <2>2
  <2>3. QED
    BY <2>1, <2>2
<1> HIDE DEF loaded
<1>7. /\ current' = new /\ procs' = left
      /\ proc' = IF left # l THEN [loaded EXCEPT ![old] = NoProcess] ELSE loaded
      /\ cr3' = IF IsUser(pr, new) THEN new ELSE KDIR
      /\ esp0' = IF IsUser(pr, new) THEN pr[new].kstack ELSE esp0
      /\ esp' = IF IsUser(pr, new) THEN pr[new].kstack ELSE FrameStack
  BY DEF context_switch, IsUser, loaded, ready
<1>8. Listed' = In(left)
  BY <1>7 DEF Listed, In
<1>9. CASE pr[old].state = "TERMINATED"
  <2>1. left # l /\ In(left) = In(l) \ {old} /\ Left(l, pr) = In(l) \ {old}
    BY <1>1, <1>6, <1>9, UnlinkedOK DEF Left
  <2>2. new # old
    BY <1>9
  <2>3. \A p \in In(l) \ {old} : proc'[p] = loaded[p]
    BY <1>1, <1>5, <1>7, <2>1
  <2> HIDE DEF left
  <2>4. QED
    BY <1>1, <1>5, <1>7, <1>8, <2>1, <2>2, <2>3
<1>10. CASE pr[old].state # "TERMINATED"
  <2>1. left = l /\ Left(l, pr) = In(l)
    BY <1>6, <1>10 DEF Left
  <2> HIDE DEF left
  <2>2. QED
    BY <1>1, <1>5, <1>7, <1>8, <2>1
<1>11. QED
  BY <1>9, <1>10

\* A switch from a steady table: every part of the invariant but Booting.
LEMMA SwitchSteady ==
  ASSUME NEW l, NEW pr, NEW new, HandlerOK(l, pr), new \in In(l),
         pr[new].state = "READY", context_switch(l, pr, new), Steady(Left(l, pr), pr)
  PROVE  /\ Steady(Listed, proc)' /\ Cr3MatchesCurrent'
         /\ (IsUser(proc, current) => esp0 = proc[current].kstack)'
<1>1. /\ Listed' = Left(l, pr) /\ current' = new /\ new \in Left(l, pr)
      /\ \A p \in Left(l, pr) : Kept(proc'[p], pr[p])
      /\ cr3' = IF IsUser(pr, new) THEN new ELSE KDIR
      /\ esp0' = IF IsUser(pr, new) THEN pr[new].kstack ELSE esp0
  BY SwitchShape
<1>2. Steady(Left(l, pr), proc')
  BY <1>1, SteadyKept
<1>3. Steady(Listed', proc')
  BY <1>1, <1>2
<1>4. Kept(proc'[new], pr[new])
  BY <1>1
<1>5. Cr3MatchesCurrent'
  BY <1>1, <1>4 DEF Cr3MatchesCurrent, IsUser, Kept
<1>6. (IsUser(proc, current) => esp0 = proc[current].kstack)'
  BY <1>1, <1>4 DEF IsUser, Kept
<1>7. Steady(Listed, proc)'
  BY <1>3 DEF Steady, OwnStacks, Counted, Chain, IsUser
<1>8. QED
  BY <1>5, <1>6, <1>7

\* The same for a handler of a user process, which keeps Booting as well.
LEMMA AwaySteady ==
  ASSUME IInv, WInv, IsUser(proc, current), NEW l, NEW pr, HandlerOK(l, pr),
         pr[Kernel].state = "READY", SwitchAway(l, pr), Steady(Left(l, pr), pr),
         UNCHANGED boot, next_pid' \in {next_pid, next_pid + 1}
  PROVE  WInv'
<1> DEFINE new == get_next_process(l, pr)
<1>1. new \in In(l) /\ pr[new].state = "READY" /\ ~ TraversalSpins(l, pr)
  BY NextIsReady
<1>2. context_switch(l, pr, new)
  BY <1>1 DEF SwitchAway
<1> HIDE DEF new
<1>3. /\ Steady(Listed, proc)' /\ Cr3MatchesCurrent'
      /\ (IsUser(proc, current) => esp0 = proc[current].kstack)'
  BY <1>1, <1>2, SwitchSteady
<1>4. boot.pc \notin {"create", "wait", "load"}
  <2>1. current \in Listed
    BY UserStep DEF IsUser
  <2>2. QED
    BY <2>1 DEF WInv, Booting, IsUser
<1>5. Booting'
  <2>1. next_pid \in Nat /\ next_pid' \in {next_pid, next_pid + 1}
    BY DEF IInv, TypeOK
  <2>2. boot.pc \in {"map", "idle"}
    BY <1>4 DEF IInv, TypeOK
  <2>3. next_pid > ShellPid
    BY <2>2 DEF WInv, Booting
  <2>4. QED
    BY <1>4, <2>1, <2>3 DEF Booting, ShellPid
<1>6. QED
  BY <1>3, <1>5 DEF WInv

\* Booting needs no more than this of a step that leaves boot and next_pid.
LEMMA StillBooting ==
  ASSUME Booting, UNCHANGED <<boot, next_pid>>, Listed' \subseteq Listed,
         \A p \in Listed' : proc'[p].type = proc[p].type,
         boot.pc \in {"create", "wait", "load"} => esp' = BootStack
  PROVE  Booting'
BY DEF Booting

-----------------------------------------------------------------------------
(* Interrupts *)

\* Waking sleepers changes nothing the invariant sees.
LEMMA WokenKept ==
  ASSUME TypeOK, NEW now
  PROVE  /\ Woken(now) \in [Pids -> Process]
         /\ \A p \in Pids : /\ Woken(now)[p].code = proc[p].code
                            /\ Kept(Woken(now)[p], proc[p])
                            /\ \/ Woken(now)[p].state = proc[p].state
                               \/ /\ proc[p].state = "SLEEPING"
                                  /\ Woken(now)[p].state = "READY"
<1>1. "READY" \in States /\ proc \in [Pids -> Process]
  BY DEF States, TypeOK
<1>2. \A p \in Pids : LET r == [proc[p] EXCEPT !.state = "READY"]
                      IN  /\ r \in Process /\ r.state = "READY" /\ r.code = proc[p].code
                          /\ proc[p].state = "SLEEPING" => Kept(r, proc[p])
  BY <1>1 DEF Process, Kept
<1>3. \A p \in Pids : Kept(proc[p], proc[p])
  BY DEF Kept
<1>4. QED
  BY <1>1, <1>2, <1>3 DEF Woken

\* A tick, with or without a switch.
LEMMA TimerWaits ==
  ASSUME IInv, WInv, timer_handler PROVE WInv'
<1> DEFINE now  == (ticks + 1) % TickMod
           pr   == Woken(now)
           next == get_next_process(procs, pr)
<1>1. /\ pr \in [Pids -> Process]
      /\ \A p \in Pids : /\ pr[p].code = proc[p].code /\ Kept(pr[p], proc[p])
                         /\ \/ pr[p].state = proc[p].state
                            \/ /\ proc[p].state \in {"BLOCKED", "SLEEPING"}
                               /\ pr[p].state = "READY"
  BY WokenKept DEF IInv
<1>2. \A p \in Pids : pr[p].type = proc[p].type /\ pr[p].kstack = proc[p].kstack
  BY <1>1 DEF Kept
<1> HIDE DEF pr, now
<1>3. /\ HandlerOK(procs, pr) /\ pr[current].state = "RUNNING"
      /\ Listed = In(procs) /\ Listed \subseteq Pids /\ current \in Listed
  BY <1>1, <1>2, Wakes
<1>4. Steady(Listed, pr)
  BY <1>1, <1>3, SteadyKept DEF WInv
<1>5. UNCHANGED <<boot, next_pid>>
  BY DEF timer_handler
<1>6. \/ next # current /\ context_switch(procs, pr, next)
      \/ proc' = pr /\ UNCHANGED <<procs, current, cr3, esp0, esp>>
  BY DEF timer_handler, pr, now
<1>7. CASE next # current /\ context_switch(procs, pr, next)
  <2>1. next \in In(procs) /\ pr[next].state = "READY"
    BY <1>3, <1>7, NextProcess DEF HandlerOK, ListOK
  <2>2. Left(procs, pr) = Listed
    BY <1>3 DEF Left
  <2> HIDE DEF next
  <2>3. /\ Steady(Listed, proc)' /\ Cr3MatchesCurrent'
        /\ (IsUser(proc, current) => esp0 = proc[current].kstack)'
    BY <1>3, <1>4, <1>7, <2>1, <2>2, SwitchSteady
  <2>4. /\ Listed' = Listed /\ \A p \in Listed : Kept(proc'[p], pr[p])
        /\ esp' = IF IsUser(pr, next) THEN pr[next].kstack ELSE FrameStack
    BY <1>3, <1>7, <2>1, <2>2, SwitchShape
  <2>5. \A p \in Listed : proc'[p].type = proc[p].type
    BY <1>2, <1>3, <2>4 DEF Kept
  <2>6. boot.pc \in {"create", "wait", "load"} => esp' = BootStack
    BY <1>2, <1>3, <2>1, <2>4 DEF WInv, Booting, IsUser, FrameStack
  <2>7. Booting'
    BY <1>5, <2>4, <2>5, <2>6, StillBooting DEF WInv
  <2>8. QED
    BY <2>3, <2>7 DEF WInv
<1>8. CASE proc' = pr /\ UNCHANGED <<procs, current, cr3, esp0, esp>>
  <2>1. Listed' = Listed
    BY <1>8 DEF Listed
  <2>2. Steady(Listed, proc)'
    BY <1>4, <1>8, <2>1 DEF Steady, OwnStacks, Counted, Chain, IsUser
  <2>3. (IsUser(proc, current) => esp0 = proc[current].kstack)'
    BY <1>2, <1>3, <1>8 DEF WInv, IsUser
  <2>4. (Cleared => Cr3MatchesCurrent)'
    BY <1>2, <1>3, <1>8 DEF WInv, Cr3MatchesCurrent, Cleared
  <2>5. Booting'
    BY <1>2, <1>3, <1>5, <1>8, <2>1, StillBooting DEF WInv, Booting
  <2>6. QED
    BY <2>2, <2>3, <2>4, <2>5 DEF WInv
<1>9. QED
  BY <1>6, <1>7, <1>8

\* A key ends a read or leaves room for the next one.
LEMMA TypedShape ==
  ASSUME NEW r \in Process, NEW key
  PROVE  LET t == Typed(r, key)
         IN  /\ t.type = r.type /\ t.kstack = r.kstack
             /\ t.pid_waiting_for = r.pid_waiting_for /\ t.parent_pid = r.parent_pid
             /\ \/ t.state = "READY" /\ t.size = 0 /\ t.count = 0
                \/ t.state = r.state /\ t.size = r.size /\ t.count < t.size
<1> DEFINE n == IF key # "backspace" THEN r.count + 1
               ELSE IF r.count > 0 THEN r.count - 1 ELSE 0
           e == [r EXCEPT !.count = 0, !.size = 0, !.state = "READY"]
           k == [r EXCEPT !.count = n]
<1>1. n \in Nat /\ r.size \in Nat
  BY DEF Process
<1>2. Typed(r, key) = IF n >= r.size \/ key = "newline" THEN e ELSE k
  BY DEF Typed
<1> HIDE DEF n
<1>3. /\ e.type = r.type /\ e.kstack = r.kstack
      /\ e.pid_waiting_for = r.pid_waiting_for /\ e.parent_pid = r.parent_pid
      /\ e.state = "READY" /\ e.size = 0 /\ e.count = 0
  BY DEF Process
<1>4. /\ k.type = r.type /\ k.kstack = r.kstack
      /\ k.pid_waiting_for = r.pid_waiting_for /\ k.parent_pid = r.parent_pid
      /\ k.state = r.state /\ k.size = r.size /\ k.count = n
  BY DEF Process
<1> HIDE DEF e, k
<1>5. CASE n >= r.size \/ key = "newline"
  BY <1>2, <1>3, <1>5
<1>6. CASE ~ (n >= r.size \/ key = "newline")
  <2>1. Typed(r, key) = k /\ n < r.size
    BY <1>1, <1>2, <1>6
  <2>2. QED
    BY <1>4, <2>1
<1>7. QED
  BY <1>5, <1>6

\* A key, whoever reads.
LEMMA KeyboardWaits ==
  ASSUME IInv, WInv, NEW key \in Keys, keyboard_handler(key) PROVE WInv'
<1>1. /\ proc \in [Pids -> Process] /\ Listed \subseteq Pids
      /\ current \in Listed /\ proc[current].state = "RUNNING"
  BY DEF IInv, TypeOK, Scheduled, HandlerOK, ListOK, Listed, In
<1>2. /\ proc' = [p \in Pids |-> IF Reading(p) THEN Typed(proc[p], key) ELSE proc[p]]
      /\ cr3' = IF \E p \in Pids : Reading(p) THEN KDIR ELSE cr3
      /\ UNCHANGED <<procs, current, next_pid, esp0, esp, boot>>
  BY DEF keyboard_handler
<1>3. Listed' = Listed
  BY <1>2 DEF Listed
<1>4. \A p \in Pids :
        /\ proc'[p].type = proc[p].type /\ proc'[p].kstack = proc[p].kstack
        /\ proc'[p].pid_waiting_for = proc[p].pid_waiting_for
        /\ proc'[p].parent_pid = proc[p].parent_pid
        /\ \/ ~ Reading(p) /\ proc'[p] = proc[p]
           \/ Reading(p) /\ proc'[p].size = 0 /\ proc'[p].count = 0
           \/ /\ Reading(p) /\ proc'[p].state = proc[p].state
              /\ proc'[p].size = proc[p].size /\ proc'[p].count < proc'[p].size
  BY <1>1, <1>2, TypedShape
<1>5. OwnStacks(Listed, proc') /\ Counted(Listed, proc')
  BY <1>1, <1>4 DEF WInv, Steady, OwnStacks, Counted
<1>6. ASSUME Cleared PROVE Chain(Listed, proc')
  <2>1. Chain(Listed, proc)
    BY <1>6 DEF WInv, Steady
  <2>2. \A p \in Pids : IsUser(proc', p) <=> IsUser(proc, p)
    BY <1>4 DEF IsUser
  <2>3. \A p \in Listed : \/ proc'[p].size = 0
                          \/ proc'[p].state = "BLOCKED" /\ IsUser(proc', p)
    BY <1>1, <1>4, <2>1, <2>2 DEF Chain
  <2>4. \A p \in Listed : /\ IsUser(proc', p) => p >= ShellPid
                          /\ p > ShellPid => IsUser(proc', p)
    BY <1>1, <2>1, <2>2 DEF Chain
  <2>5. \A p, q \in Listed : IsUser(proc', p) /\ IsUser(proc', q) /\ p < q =>
                               proc'[p].state = "BLOCKED" /\ proc'[p].size = 0
    <3>1. \A p, q \in Listed : IsUser(proc, p) /\ IsUser(proc, q) /\ p < q =>
                                 proc[p].state = "BLOCKED" /\ proc[p].size = 0
      BY <2>1 DEF Chain
    <3>2. \A p \in Listed : proc[p].size = 0 => proc'[p] = proc[p]
      BY <1>1, <1>4 DEF Reading
    <3>3. QED
      BY <1>1, <2>2, <3>1, <3>2
  <2>6. ASSUME NEW c \in Listed, c > ShellPid
        PROVE  LET p == proc'[c].parent_pid
               IN  /\ p \in Listed /\ IsUser(proc', p) /\ p < c
                   /\ proc'[p].pid_waiting_for = c
                   /\ \A q \in Listed : IsUser(proc', q) /\ q < c => q <= p
    <3>1. LET p == proc[c].parent_pid
          IN  /\ p \in Listed /\ IsUser(proc, p) /\ p < c
              /\ proc[p].pid_waiting_for = c
              /\ \A q \in Listed : IsUser(proc, q) /\ q < c => q <= p
      BY <2>1, <2>6 DEF Chain
    <3>2. QED
      BY <1>1, <1>4, <2>2, <3>1
  <2>7. QED
    BY <2>3, <2>4, <2>5, <2>6 DEF Chain
<1>7. Steady(Listed, proc)'
  BY <1>3, <1>5, <1>6 DEF Steady, OwnStacks, Counted, Chain, IsUser
<1>8. ASSUME Cleared PROVE Cr3MatchesCurrent'
  <2>1. Chain(Listed, proc) /\ Cr3MatchesCurrent
    BY <1>8 DEF WInv, Steady
  <2>2. ASSUME IsUser(proc, current), NEW p \in Pids, Reading(p) PROVE FALSE
    <3>1. p \in Listed /\ proc[p].state = "BLOCKED" /\ proc[p].size > 0
      BY <2>2 DEF Reading
    <3>2. proc[p].size # 0 /\ p # current /\ p \in Nat /\ current \in Nat
      BY <1>1, <3>1 DEF Process, Pids
    <3>3. IsUser(proc, p)
      BY <2>1, <3>1, <3>2 DEF Chain
    <3>4. CASE p < current
      BY <1>1, <2>1, <2>2, <3>1, <3>2, <3>3, <3>4 DEF Chain
    <3>5. CASE current < p
      <4>1. proc[current].state = "BLOCKED"
        BY <1>1, <2>1, <2>2, <3>1, <3>3, <3>5 DEF Chain
      <4>2. QED
        BY <1>1, <4>1
    <3>6. QED
      BY <3>2, <3>4, <3>5
  <2>3. proc'[current].type = proc[current].type
    BY <1>1, <1>4
  <2>4. QED
    BY <1>2, <2>1, <2>2, <2>3 DEF Cr3MatchesCurrent, IsUser
<1>9. (IsUser(proc, current) => esp0 = proc[current].kstack)'
  BY <1>1, <1>2, <1>4 DEF WInv, IsUser
<1>10. Booting'
  BY <1>1, <1>2, <1>3, <1>4, StillBooting DEF WInv, Booting
<1>11. QED
  BY <1>7, <1>8, <1>9, <1>10 DEF WInv, Cleared

-----------------------------------------------------------------------------
(* System calls and faults *)

\* What the steps below start from.
LEMMA UserFacts ==
  ASSUME IInv, WInv, proc[current].type = "USER"
  PROVE  /\ proc \in [Pids -> Process] /\ Listed = In(procs) /\ Listed \subseteq Pids
         /\ current \in Listed /\ current \in Nat /\ proc[current].state = "RUNNING"
         /\ Steady(Listed, proc) /\ IsUser(proc, current) /\ next_pid > ShellPid
         /\ \A p \in Listed : p \in Nat /\ p < next_pid
         /\ Cleared => Chain(Listed, proc) /\ \A p \in Listed \ {current} :
              IsUser(proc, p) => /\ p < current /\ proc[p].size = 0
                                 /\ proc[p].state = "BLOCKED"
<1>1. /\ proc \in [Pids -> Process] /\ Listed = In(procs) /\ Listed \subseteq Pids
      /\ current \in Listed /\ proc[current].state = "RUNNING"
  BY UserStep DEF IInv, TypeOK, Scheduled
<1>2. Steady(Listed, proc) /\ IsUser(proc, current) /\ current \in Nat
  BY <1>1 DEF WInv, IsUser, Pids
<1>3. next_pid > ShellPid
  <2>1. boot.pc \notin {"create", "wait", "load"}
    BY <1>1, <1>2 DEF WInv, Booting, IsUser
  <2>2. boot.pc \in {"map", "idle"}
    BY <2>1 DEF IInv, TypeOK
  <2>3. QED
    BY <2>2 DEF WInv, Booting
<1>4. \A p \in Listed : p \in Nat /\ p < next_pid
  BY <1>1 DEF IInv, Numbered, Pids
<1>5. ASSUME Cleared, NEW p \in Listed \ {current}, IsUser(proc, p)
      PROVE  p < current /\ proc[p].size = 0 /\ proc[p].state = "BLOCKED"
  <2>1. Chain(Listed, proc)
    BY <1>2, <1>5 DEF Steady
  <2>2. ~ (current < p)
    <3> SUFFICES ASSUME current < p PROVE FALSE
      OBVIOUS
    <3>1. proc[current].state = "BLOCKED"
      BY <1>1, <1>2, <1>5, <2>1 DEF Chain
    <3>2. QED
      BY <1>1, <3>1
  <2>3. p < current
    BY <1>2, <1>4, <1>5, <2>2
  <2>4. QED
    BY <1>1, <1>2, <1>5, <2>1, <2>3 DEF Chain
<1>6. QED
  BY <1>1, <1>2, <1>3, <1>4, <1>5 DEF Steady

\* A call that changes the process_t of its caller alone.
LEMMA SelfUpdate ==
  ASSUME IInv, proc[current].type = "USER", NEW r \in Process,
         r.code = proc[current].code, r.type = proc[current].type, r.state \in States
  PROVE  LET pr == [proc EXCEPT ![current] = r]
         IN  /\ HandlerOK(procs, pr) /\ pr[Kernel].state = "READY" /\ pr[current] = r
             /\ \A p \in Pids \ {current} : pr[p] = proc[p]
<1> DEFINE pr == [proc EXCEPT ![current] = r]
<1>1. proc \in [Pids -> Process] /\ current \in Pids
  BY DEF IInv, TypeOK
<1>2. /\ pr \in [Pids -> Process] /\ pr[current] = r
      /\ \A p \in Pids \ {current} : pr[p] = proc[p]
  BY <1>1
<1> HIDE DEF pr
<1>3. /\ \A p \in Pids : pr[p].code = proc[p].code /\ pr[p].type = proc[p].type
      /\ \A p \in Pids \ {current} : pr[p].state \in {proc[p].state, "READY"}
      /\ pr[current].state \in States
  BY <1>2
<1>4. HandlerOK(procs, pr) /\ pr[Kernel].state = "READY"
  BY <1>2, <1>3, UserTable
<1>5. QED
  BY <1>2, <1>4 DEF pr

\* An exception ends the process, and leaves its parent waiting.
LEMMA FaultWaits ==
  ASSUME IInv, WInv, fault_handler PROVE WInv'
<1> DEFINE r  == [proc[current] EXCEPT !.state = "TERMINATED"]
           pr == [proc EXCEPT ![current] = r]
<1>1. proc[current].type = "USER"
  BY DEF fault_handler
<1>2. /\ proc \in [Pids -> Process] /\ Listed = In(procs) /\ Listed \subseteq Pids
      /\ current \in Listed /\ proc[current].state = "RUNNING" /\ Steady(Listed, proc)
  BY <1>1, UserFacts
<1>3. /\ r \in Process /\ r.code = proc[current].code /\ r.type = proc[current].type
      /\ r.state = "TERMINATED" /\ r.state \in States
  BY <1>2 DEF Process, States
<1>4. SwitchAway(procs, pr) /\ UNCHANGED boot /\ next_pid' \in {next_pid, next_pid + 1}
  BY DEF fault_handler
<1> HIDE DEF r
<1>5. /\ HandlerOK(procs, pr) /\ pr[Kernel].state = "READY" /\ pr[current] = r
      /\ \A p \in Pids \ {current} : pr[p] = proc[p]
  BY <1>1, <1>3, SelfUpdate
<1> HIDE DEF pr
<1>6. Left(procs, pr) = Listed \ {current}
  BY <1>2, <1>3, <1>5 DEF Left
<1>7. Steady(Listed \ {current}, proc)
  BY <1>2, SteadyLess
<1>8. \A p \in Listed \ {current} : Kept(pr[p], proc[p])
  BY <1>2, <1>5 DEF Kept
<1>9. Steady(Left(procs, pr), pr)
  BY <1>6, <1>7, <1>8, SteadyKept
<1>10. QED
  BY <1>1, <1>4, <1>5, <1>9, AwaySteady DEF IsUser

\* The calls that yield and sleep.
LEMMA SleepWaits ==
  ASSUME IInv, WInv, sys_yield \/ \E n \in SleepTicks : sys_sleep(n) PROVE WInv'
<1>1. proc[current].type = "USER"
  BY DEF sys_yield, sys_sleep, UserCode
<1>2. /\ proc \in [Pids -> Process] /\ Listed = In(procs) /\ Listed \subseteq Pids
      /\ current \in Listed /\ proc[current].state = "RUNNING" /\ Steady(Listed, proc)
  BY <1>1, UserFacts
<1>3. ASSUME NEW r \in Process, Kept(r, proc[current]), r.code = proc[current].code,
             r.state \in States, r.state # "TERMINATED",
             SwitchAway(procs, [proc EXCEPT ![current] = r]),
             UNCHANGED boot, next_pid' = next_pid
      PROVE  WInv'
  <2> DEFINE pr == [proc EXCEPT ![current] = r]
  <2>1. r.type = proc[current].type
    BY <1>3 DEF Kept
  <2>2. /\ HandlerOK(procs, pr) /\ pr[Kernel].state = "READY" /\ pr[current] = r
        /\ \A p \in Pids \ {current} : pr[p] = proc[p]
    BY <1>1, <1>3, <2>1, SelfUpdate
  <2>3. SwitchAway(procs, pr)
    BY <1>3
  <2> HIDE DEF pr
  <2>4. Left(procs, pr) = Listed
    BY <1>2, <1>3, <2>2 DEF Left
  <2>5. \A p \in Listed : Kept(pr[p], proc[p])
    BY <1>2, <1>3, <2>2 DEF Kept
  <2>6. Steady(Left(procs, pr), pr)
    BY <1>2, <2>4, <2>5, SteadyKept
  <2>7. UNCHANGED boot /\ next_pid' \in {next_pid, next_pid + 1}
    BY <1>3
  <2>8. QED
    BY <1>1, <2>2, <2>3, <2>6, <2>7, AwaySteady DEF IsUser
<1>4. CASE sys_yield
  <2>1. SwitchAway(procs, proc) /\ UNCHANGED boot /\ next_pid' = next_pid
    BY <1>4 DEF sys_yield
  <2>2. [proc EXCEPT ![current] = proc[current]] = proc
    BY <1>2
  <2>3. proc[current] \in Process /\ Kept(proc[current], proc[current])
    BY <1>2 DEF Kept
  <2>4. "RUNNING" \in States /\ "RUNNING" # "TERMINATED"
    BY DEF States
  <2>5. QED
    BY <1>2, <1>3, <2>1, <2>2, <2>3, <2>4
<1>5. ASSUME NEW n \in SleepTicks, sys_sleep(n) PROVE WInv'
  <2> DEFINE t == (ticks + n) % TickMod
             w == [proc[current] EXCEPT !.wake_tick = t]
             r == [w EXCEPT !.state = "SLEEPING"]
  <2>1. t \in 0 .. TickMod - 1
    BY ConstAssumption DEF IInv, TypeOK
  <2>2. /\ SwitchAway(procs, [proc EXCEPT ![current].wake_tick = t,
                                         ![current].state = "SLEEPING"])
        /\ UNCHANGED boot /\ next_pid' = next_pid
    BY <1>5 DEF sys_sleep
  <2> HIDE DEF t
  <2>3. [proc EXCEPT ![current].wake_tick = t, ![current].state = "SLEEPING"] =
          [proc EXCEPT ![current] = r]
    BY <1>2 DEF Process
  <2>4. w \in Process /\ Kept(w, proc[current]) /\ w.code = proc[current].code
        /\ w.state = "RUNNING"
    BY <1>2, <2>1 DEF Process, Kept
  <2> HIDE DEF w
  <2>5. /\ r \in Process /\ Kept(r, proc[current]) /\ r.code = proc[current].code
        /\ r.state = "SLEEPING" /\ r.state \in States
    BY <2>4, <1>2 DEF Process, Kept, States
  <2> HIDE DEF r
  <2>6. QED
    BY <1>3, <2>2, <2>3, <2>5
<1>6. QED
  BY <1>4, <1>5

\* A read: the caller is the youngest user, so nobody waits before it.
LEMMA ReadWaits ==
  ASSUME IInv, WInv, NEW n \in ReadSizes, sys_read(n) PROVE WInv'
<1> DEFINE b  == [proc[current] EXCEPT !.state = "BLOCKED"]
           z  == [b EXCEPT !.size = n]
           r  == [z EXCEPT !.count = 0]
           pr == [proc EXCEPT ![current] = r]
<1>1. proc[current].type = "USER"
  BY DEF sys_read, UserCode
<1>2. /\ proc \in [Pids -> Process] /\ Listed = In(procs) /\ Listed \subseteq Pids
      /\ current \in Listed /\ proc[current].state = "RUNNING" /\ Steady(Listed, proc)
      /\ IsUser(proc, current) /\ current \in Nat
      /\ \A p \in Listed : p \in Nat
      /\ Cleared => Chain(Listed, proc) /\ \A p \in Listed \ {current} :
           IsUser(proc, p) => /\ p < current /\ proc[p].size = 0
                              /\ proc[p].state = "BLOCKED"
  BY <1>1, UserFacts
<1>3. /\ SwitchAway(procs, [proc EXCEPT ![current].state = "BLOCKED",
                                       ![current].size = n, ![current].count = 0])
      /\ UNCHANGED boot /\ next_pid' \in {next_pid, next_pid + 1}
  BY DEF sys_read
<1>4. [proc EXCEPT ![current].state = "BLOCKED", ![current].size = n, ![current].count = 0] = pr
  BY <1>2 DEF Process
<1>5. /\ r \in Process /\ r.code = proc[current].code /\ r.type = proc[current].type
      /\ r.state = "BLOCKED" /\ r.state \in States /\ r.count = 0
      /\ r.kstack = proc[current].kstack /\ r.parent_pid = proc[current].parent_pid
      /\ r.pid_waiting_for = proc[current].pid_waiting_for
  <2>1. n \in Nat
    BY ConstAssumption
  <2>2. /\ b \in Process /\ b.code = proc[current].code /\ b.type = proc[current].type
        /\ b.state = "BLOCKED" /\ b.kstack = proc[current].kstack
        /\ b.parent_pid = proc[current].parent_pid
        /\ b.pid_waiting_for = proc[current].pid_waiting_for
    BY <1>2 DEF Process, States
  <2> HIDE DEF b
  <2>3. /\ z \in Process /\ z.code = b.code /\ z.type = b.type /\ z.state = b.state
        /\ z.kstack = b.kstack /\ z.parent_pid = b.parent_pid
        /\ z.pid_waiting_for = b.pid_waiting_for
    BY <2>1, <2>2 DEF Process
  <2> HIDE DEF z
  <2>4. QED
    BY <2>2, <2>3 DEF Process, States
<1> HIDE DEF r
<1>6. /\ HandlerOK(procs, pr) /\ pr[Kernel].state = "READY" /\ pr[current] = r
      /\ \A p \in Pids \ {current} : pr[p] = proc[p]
  BY <1>1, <1>5, SelfUpdate
<1>7. SwitchAway(procs, pr)
  BY <1>3, <1>4
<1> HIDE DEF pr
<1>8. Left(procs, pr) = Listed
  BY <1>2, <1>5, <1>6 DEF Left
<1>9. OwnStacks(Listed, pr) /\ Counted(Listed, pr)
  BY <1>2, <1>5, <1>6 DEF Steady, OwnStacks, Counted
<1>10. ASSUME Cleared PROVE Chain(Listed, pr)
  <2>1. Chain(Listed, proc)
    BY <1>2, <1>10
  <2>2. /\ \A p \in Listed : /\ IsUser(pr, p) <=> IsUser(proc, p)
                             /\ pr[p].parent_pid = proc[p].parent_pid
                             /\ pr[p].pid_waiting_for = proc[p].pid_waiting_for
        /\ \A p \in Listed \ {current} : pr[p] = proc[p]
    BY <1>2, <1>5, <1>6 DEF IsUser
  <2>3. \A p \in Listed : pr[p].size = 0 \/ (pr[p].state = "BLOCKED" /\ IsUser(pr, p))
    BY <1>2, <1>5, <1>6, <2>1, <2>2 DEF Chain
  <2>4. \A p, q \in Listed : IsUser(pr, p) /\ IsUser(pr, q) /\ p < q =>
                               pr[p].state = "BLOCKED" /\ pr[p].size = 0
    <3> SUFFICES ASSUME NEW p \in Listed, NEW q \in Listed,
                        IsUser(pr, p), IsUser(pr, q), p < q
                 PROVE  pr[p].state = "BLOCKED" /\ pr[p].size = 0
      OBVIOUS
    <3>1. p # current
      BY <1>2, <1>10, <2>2
    <3>2. QED
      BY <1>2, <1>10, <2>2, <3>1
  <2>5. QED
    BY <2>1, <2>2, <2>3, <2>4 DEF Chain
<1>11. Steady(Left(procs, pr), pr)
  BY <1>8, <1>9, <1>10 DEF Steady
<1>12. QED
  BY <1>1, <1>3, <1>6, <1>7, <1>11, AwaySteady DEF IsUser

\* An exit: the caller is the youngest user; the parent it wakes becomes it.
LEMMA ExitWaits ==
  ASSUME IInv, WInv, sys_exit PROVE WInv'
<1> DEFINE pr == [p \in Pids |->
                    IF p = current THEN [proc[p] EXCEPT !.state = "TERMINATED"]
                    ELSE IF p \in WaitingParent
                         THEN [proc[p] EXCEPT !.pid_waiting_for = 0, !.state = "READY"]
                         ELSE proc[p]]
           L  == Listed \ {current}
<1>1. proc[current].type = "USER"
  BY DEF sys_exit, UserCode
<1>2. /\ proc \in [Pids -> Process] /\ Listed = In(procs) /\ Listed \subseteq Pids
      /\ current \in Listed /\ proc[current].state = "RUNNING" /\ Steady(Listed, proc)
      /\ IsUser(proc, current) /\ current \in Nat
      /\ \A p \in Listed : p \in Nat
      /\ Cleared => Chain(Listed, proc) /\ \A p \in Listed \ {current} :
           IsUser(proc, p) => /\ p < current /\ proc[p].size = 0
                              /\ proc[p].state = "BLOCKED"
  BY <1>1, UserFacts
<1>3. SwitchAway(procs, pr) /\ UNCHANGED boot /\ next_pid' \in {next_pid, next_pid + 1}
  BY DEF sys_exit
<1>4. ASSUME NEW q \in Process
      PROVE  LET t == [q EXCEPT !.state = "TERMINATED"]
                 r == [q EXCEPT !.pid_waiting_for = 0, !.state = "READY"]
             IN  /\ t \in Process /\ t.state = "TERMINATED" /\ t.code = q.code
                 /\ t.type = q.type
                 /\ r \in Process /\ r.state = "READY" /\ r.code = q.code
                 /\ r.type = q.type /\ r.kstack = q.kstack /\ r.size = q.size
                 /\ r.count = q.count /\ r.parent_pid = q.parent_pid
  <2> DEFINE z == [q EXCEPT !.pid_waiting_for = 0]
             r == [q EXCEPT !.pid_waiting_for = 0, !.state = "READY"]
             t == [q EXCEPT !.state = "TERMINATED"]
  <2>1. /\ z \in Process /\ z.code = q.code /\ z.type = q.type
        /\ z.kstack = q.kstack /\ z.size = q.size /\ z.count = q.count
        /\ z.parent_pid = q.parent_pid
    BY DEF Process
  <2>2. r = [z EXCEPT !.state = "READY"]
    BY DEF Process
  <2> HIDE DEF z
  <2>3. /\ r \in Process /\ r.state = "READY" /\ r.code = q.code
        /\ r.type = q.type /\ r.kstack = q.kstack /\ r.size = q.size
        /\ r.count = q.count /\ r.parent_pid = q.parent_pid
    BY <2>1, <2>2 DEF Process, States
  <2>4. t \in Process /\ t.state = "TERMINATED" /\ t.code = q.code /\ t.type = q.type
    BY DEF Process, States
  <2>5. QED
    BY <2>3, <2>4
<1>5. pr[current].state = "TERMINATED" /\ pr \in [Pids -> Process]
  BY <1>2, <1>4
<1>6. \A p \in Pids : pr[p].code = proc[p].code /\ pr[p].type = proc[p].type
  BY <1>2, <1>4
<1>7. \A p \in L : \/ p \notin WaitingParent /\ pr[p] = proc[p]
                   \/ /\ p \in WaitingParent /\ pr[p].state = "READY"
                      /\ pr[p].kstack = proc[p].kstack /\ pr[p].size = proc[p].size
                      /\ pr[p].count = proc[p].count
                      /\ pr[p].parent_pid = proc[p].parent_pid
  BY <1>2, <1>4
<1>8. \A p \in Pids \ {current} : pr[p].state \in {proc[p].state, "READY"}
  BY <1>2, <1>4
<1> HIDE DEF pr
<1>9. HandlerOK(procs, pr) /\ pr[Kernel].state = "READY"
  BY <1>1, <1>5, <1>6, <1>8, UserTable DEF States
<1>10. Left(procs, pr) = L
  BY <1>2, <1>5 DEF Left
<1>11. Steady(L, proc)
  BY <1>2, SteadyLess
<1> HIDE DEF L
<1>12. OwnStacks(L, pr) /\ Counted(L, pr)
  BY <1>7, <1>11 DEF Steady, OwnStacks, Counted
<1>13. ASSUME Cleared PROVE Chain(L, pr)
  <2>1. /\ Chain(L, proc) /\ Chain(Listed, proc)
        /\ \A p \in L : p \in Listed /\ p # current /\ p \in Nat
        /\ \A p \in L : IsUser(proc, p) => /\ p < current /\ proc[p].size = 0
                                           /\ proc[p].state = "BLOCKED"
    BY <1>2, <1>11, <1>13 DEF Steady, L
  <2>2. \A p \in L : IsUser(pr, p) <=> IsUser(proc, p)
    BY <1>2, <1>6, <2>1 DEF IsUser
  <2>3. \A p \in L : pr[p].size = 0
    BY <1>7, <2>1 DEF Chain
  <2>4. \A p, q \in L : IsUser(pr, p) /\ IsUser(pr, q) /\ p < q =>
                          pr[p].state = "BLOCKED" /\ pr[p].size = 0
    <3> SUFFICES ASSUME NEW p \in L, NEW q \in L,
                        IsUser(proc, p), IsUser(proc, q), p < q
                 PROVE  pr[p].state = "BLOCKED" /\ pr[p].size = 0
      BY <2>2
    <3>1. q < current /\ q >= ShellPid
      BY <2>1 DEF Chain
    <3>2. current > ShellPid
      BY <1>2, <2>1, <3>1 DEF ShellPid
    <3>3. q <= proc[current].parent_pid
      BY <1>2, <2>1, <3>1, <3>2 DEF Chain
    <3>4. p \notin WaitingParent
      BY <2>1, <3>3 DEF WaitingParent
    <3>5. QED
      BY <1>7, <2>1, <3>4
  <2>5. ASSUME NEW c \in L, c > ShellPid
        PROVE  LET p == pr[c].parent_pid
               IN  /\ p \in L /\ IsUser(pr, p) /\ p < c
                   /\ pr[p].pid_waiting_for = c
                   /\ \A q \in L : IsUser(pr, q) /\ q < c => q <= p
    <3> DEFINE p == proc[c].parent_pid
    <3>1. /\ p \in L /\ IsUser(proc, p) /\ p < c /\ proc[p].pid_waiting_for = c
          /\ \A q \in L : IsUser(proc, q) /\ q < c => q <= p
      BY <2>1, <2>5 DEF Chain
    <3>2. pr[c].parent_pid = p
      BY <1>7, <2>5
    <3> HIDE DEF p
    <3>3. p \notin WaitingParent
      BY <2>1, <2>5, <3>1 DEF WaitingParent
    <3>4. pr[p] = proc[p]
      BY <1>7, <3>1, <3>3
    <3>5. QED
      BY <2>2, <3>1, <3>2, <3>4
  <2>6. \A p \in L : /\ IsUser(pr, p) => p >= ShellPid
                     /\ p > ShellPid => IsUser(pr, p)
    BY <2>1, <2>2 DEF Chain
  <2>7. QED
    BY <2>3, <2>4, <2>5, <2>6 DEF Chain
<1>14. Steady(Left(procs, pr), pr)
  BY <1>10, <1>12, <1>13 DEF Steady
<1>15. QED
  BY <1>1, <1>3, <1>9, <1>14, AwaySteady DEF IsUser

\* A program run: the child is the youngest user, and its parent waits for it.
LEMMA RunWaits ==
  ASSUME IInv, WInv, NEW size \in UninitSizes, NEW w \in UninitPids, sys_run(size, w)
  PROVE  WInv'
<1> DEFINE c  == next_pid
           l  == Append(procs, c)
           pr == RunTable(size, w)
           L  == Listed \cup {c}
           cp == create_process("USER", current, size, w, CodePages)
           r  == [proc[current] EXCEPT !.pid_waiting_for = c, !.state = "BLOCKED"]
<1>1. /\ proc[current].type = "USER" /\ next_pid <= MaxPid
      /\ next_pid' \in {next_pid, next_pid + 1} /\ SwitchAway(l, pr) /\ UNCHANGED boot
  BY DEF sys_run, UserCode, RunTable
<1>2. /\ proc \in [Pids -> Process]
      /\ current \in Listed /\ proc[current].state = "RUNNING" /\ Steady(Listed, proc)
      /\ IsUser(proc, current) /\ current \in Nat /\ c > ShellPid
      /\ \A p \in Listed : p \in Nat /\ p < c
      /\ Cleared => Chain(Listed, proc) /\ \A p \in Listed \ {current} :
           IsUser(proc, p) => /\ p < current /\ proc[p].size = 0
                              /\ proc[p].state = "BLOCKED"
  BY <1>1, UserFacts
<1>3. /\ HandlerOK(l, pr) /\ pr[Kernel].state = "READY" /\ In(l) = L
      /\ c \in Pids /\ c \notin Listed /\ Listed \subseteq Pids
      /\ pr[c] = cp /\ pr[current] = r /\ r \in Process
      /\ \A p \in Pids \ {c, current} : pr[p] = proc[p]
  BY <1>1, RunTableOK
<1>4. /\ cp.type = "USER" /\ cp.kstack = FreeStack /\ cp.size = size /\ cp.count = 0
      /\ cp.parent_pid = current /\ cp.state = "READY"
  BY DEF create_process, NewProcess
<1>5. /\ r.type = proc[current].type /\ r.kstack = proc[current].kstack
      /\ r.size = proc[current].size /\ r.count = proc[current].count
      /\ r.parent_pid = proc[current].parent_pid
      /\ r.pid_waiting_for = c /\ r.state = "BLOCKED"
  BY <1>2, <1>3 DEF Process
<1> HIDE DEF l, pr, cp, r
<1>6. \A p \in Listed : proc[p].kstack # FreeStack
  BY <1>1, FreeStackOK DEF IInv, StackTaken
<1>7. Left(l, pr) = L
  BY <1>2, <1>3, <1>5 DEF Left
<1>8. \A p \in Listed : /\ pr[p].type = proc[p].type /\ pr[p].kstack = proc[p].kstack
                        /\ pr[p].size = proc[p].size /\ pr[p].count = proc[p].count
                        /\ pr[p].parent_pid = proc[p].parent_pid
  BY <1>3, <1>5
<1>9. \A p \in Listed \ {current} : pr[p] = proc[p]
  BY <1>3
<1>10. OwnStacks(L, pr) /\ Counted(L, pr)
  <2>1. OwnStacks(Listed, proc) /\ Counted(Listed, proc)
    BY <1>2 DEF Steady
  <2>2. OwnStacks(L, pr)
    BY <1>3, <1>4, <1>6, <1>8, <2>1 DEF OwnStacks
  <2>3. Counted(L, pr)
    BY <1>3, <1>4, <1>8, <2>1, <1>2, <1>5, <1>9 DEF Counted
  <2>4. QED
    BY <2>2, <2>3
<1>11. ASSUME Cleared PROVE Chain(L, pr)
  <2>1. /\ Chain(Listed, proc)
        /\ \A p \in Listed : IsUser(proc, p) /\ p # current =>
             p < current /\ proc[p].size = 0 /\ proc[p].state = "BLOCKED"
    BY <1>2, <1>11
  <2>2. /\ IsUser(pr, c) /\ \A p \in Listed : IsUser(pr, p) <=> IsUser(proc, p)
    BY <1>3, <1>4, <1>8 DEF IsUser
  <2>3. pr[c].size = 0 /\ pr[current].size = 0 /\ pr[current].state = "BLOCKED"
    BY <1>2, <1>3, <1>4, <1>5, <1>11, <2>1 DEF Cleared, Chain
  <2>4. \A p \in L : pr[p].size = 0 \/ (pr[p].state = "BLOCKED" /\ IsUser(pr, p))
    BY <1>9, <2>1, <2>2, <2>3 DEF Chain
  <2>5. \A p \in L : /\ IsUser(pr, p) => p >= ShellPid
                     /\ p > ShellPid => IsUser(pr, p)
    BY <1>2, <2>1, <2>2 DEF Chain, ShellPid
  <2>6. \A p, q \in L : IsUser(pr, p) /\ IsUser(pr, q) /\ p < q =>
                          pr[p].state = "BLOCKED" /\ pr[p].size = 0
    <3> SUFFICES ASSUME NEW p \in L, NEW q \in L, IsUser(pr, p), p < q
                 PROVE  pr[p].state = "BLOCKED" /\ pr[p].size = 0
      OBVIOUS
    <3>1. p \in Listed
      BY <1>2
    <3>2. QED
      BY <1>9, <2>1, <2>2, <2>3, <3>1
  <2>7. ASSUME NEW d \in L, d > ShellPid
        PROVE  LET p == pr[d].parent_pid
               IN  /\ p \in L /\ IsUser(pr, p) /\ p < d
                   /\ pr[p].pid_waiting_for = d
                   /\ \A q \in L : IsUser(pr, q) /\ q < d => q <= p
    <3>1. CASE d = c
      <4>1. pr[d].parent_pid = current /\ current < d /\ current \in L
        BY <1>2, <1>3, <1>4, <3>1
      <4>2. IsUser(pr, current) /\ pr[current].pid_waiting_for = d
        BY <1>2, <1>3, <1>5, <2>2, <3>1
      <4>3. \A q \in L : IsUser(pr, q) /\ q < d => q <= current
        BY <1>2, <2>1, <2>2, <3>1
      <4>4. QED
        BY <4>1, <4>2, <4>3
    <3>2. CASE d \in Listed
      <4> DEFINE p == proc[d].parent_pid
      <4>1. /\ p \in Listed /\ IsUser(proc, p) /\ p < d /\ proc[p].pid_waiting_for = d
            /\ \A q \in Listed : IsUser(proc, q) /\ q < d => q <= p
        BY <2>1, <2>7, <3>2 DEF Chain
      <4>2. pr[d].parent_pid = p /\ IsUser(proc, d)
        BY <1>8, <2>1, <2>7, <3>2 DEF Chain
      <4> HIDE DEF p
      <4>3. p # current
        <5>1. proc[p].state = "BLOCKED"
          BY <2>1, <3>2, <4>1, <4>2 DEF Chain
        <5>2. QED
          BY <1>2, <5>1
      <4>4. pr[p] = proc[p]
        BY <1>9, <4>1, <4>3
      <4>5. \A q \in L : IsUser(pr, q) /\ q < d => q <= p
        BY <1>2, <2>2, <3>2, <4>1
      <4>6. QED
        BY <2>2, <4>1, <4>2, <4>4, <4>5
    <3>3. QED
      BY <3>1, <3>2
  <2>8. QED
    BY <2>4, <2>5, <2>6, <2>7 DEF Chain
<1>12. Steady(Left(l, pr), pr)
  BY <1>7, <1>10, <1>11 DEF Steady
<1>13. QED
  BY <1>1, <1>3, <1>12, AwaySteady DEF IsUser

-----------------------------------------------------------------------------
(* kernel_main *)

\* kernel_main makes a process while no user process is listed.
LEMMA BootAppendWaits ==
  ASSUME IInv, WInv, next_pid <= MaxPid, current = Kernel,
         boot.pc \in {"create", "load"},
         NEW type \in {"KERNEL", "USER"}, type = "USER" => next_pid = ShellPid,
         NEW parent \in UninitPids, NEW size \in UninitSizes, NEW waiting \in UninitPids,
         proc' = [proc EXCEPT ![next_pid] =
                    create_process(type, parent, size, waiting, 0)],
         procs' = Append(procs, next_pid), next_pid' = next_pid + 1,
         UNCHANGED <<current, cr3, esp0, esp>>,
         \/ type = "KERNEL" /\ boot.pc = "create" /\ boot'.pc = "wait"
         \/ type = "USER" /\ boot'.pc = "map"
  PROVE  WInv'
<1> DEFINE c  == next_pid
           cp == create_process(type, parent, size, waiting, 0)
           L  == Listed \cup {c}
<1>1. /\ c \in Pids /\ c \notin Listed /\ Kernel # c /\ current \in Listed
      /\ Kernel \in Listed /\ Listed \subseteq Pids
      /\ In(Append(procs, c)) = L /\ proc \in [Pids -> Process]
      /\ proc[Kernel].type = "KERNEL"
  BY CreatedListed DEF IInv, TypeOK, Scheduled, HandlerOK
<1>2. /\ Steady(Listed, proc) /\ Booting /\ c <= ShellPid
      /\ esp = BootStack /\ \A p \in Listed : proc[p].type = "KERNEL"
  BY DEF WInv, Booting, ShellPid
<1>3. \A p \in Listed : p \in Nat /\ p < c
  BY <1>1 DEF IInv, Numbered, Pids
<1>4. /\ cp.type = type /\ cp.kstack = FreeStack /\ cp.size = size /\ cp.count = 0
  BY DEF create_process, NewProcess
<1>5. \A p \in Listed : proc[p].kstack # FreeStack
  BY FreeStackOK DEF IInv, StackTaken
<1>6. proc'[c] = cp /\ \A p \in Listed : proc'[p] = proc[p]
  BY <1>1
<1>7. Listed' = L
  BY <1>1 DEF Listed, In
<1> HIDE DEF cp
<1>8. OwnStacks(L, proc') /\ Counted(L, proc')
  BY <1>2, <1>4, <1>5, <1>6 DEF Steady, OwnStacks, Counted
<1>9. ASSUME Cleared PROVE Chain(L, proc')
  <2>1. Chain(Listed, proc)
    BY <1>2, <1>9 DEF Steady
  <2>2. \A p \in L : proc'[p].size = 0
    BY <1>2, <1>4, <1>6, <1>9, <2>1 DEF Chain, Cleared, IsUser
  <2>3. \A p \in L : IsUser(proc', p) => p = c /\ type = "USER"
    BY <1>2, <1>4, <1>6 DEF IsUser
  <2>4. c \in Nat /\ \A p \in L : p \in Nat /\ p <= ShellPid
    BY <1>1, <1>2, <1>3 DEF Pids, ShellPid
  <2>5. \A p \in L : /\ IsUser(proc', p) => p >= ShellPid
                     /\ p > ShellPid => IsUser(proc', p)
    BY <2>3, <2>4 DEF ShellPid, IsUser
  <2>6. \A p, q \in L : ~ (IsUser(proc', p) /\ IsUser(proc', q) /\ p < q)
    <3> SUFFICES ASSUME NEW p \in L, NEW q \in L,
                        IsUser(proc', p), IsUser(proc', q), p < q
                 PROVE  FALSE
      OBVIOUS
    <3>1. p = c /\ q = c
      BY <2>3
    <3>2. QED
      BY <2>4, <3>1
  <2>7. \A p \in L : ~ (p > ShellPid)
    BY <2>4 DEF ShellPid
  <2>8. QED
    BY <2>2, <2>5, <2>6, <2>7 DEF Chain
<1>10. Steady(Listed, proc)'
  BY <1>7, <1>8, <1>9 DEF Steady, OwnStacks, Counted, Chain, IsUser
<1>11. proc'[current'] = proc[Kernel] /\ current' = Kernel /\ proc[Kernel].type = "KERNEL"
  BY <1>1, <1>6
<1>12. (IsUser(proc, current) => esp0 = proc[current].kstack)'
  BY <1>11 DEF IsUser
<1>13. ASSUME Cleared PROVE Cr3MatchesCurrent'
  BY <1>11, <1>13 DEF WInv, Cr3MatchesCurrent
<1>14. Booting'
  BY <1>2, <1>4, <1>6, <1>7 DEF Booting, ShellPid
<1>15. QED
  BY <1>10, <1>12, <1>13, <1>14 DEF WInv, Cleared

\* A step that changes nothing of the list, the table and the registers that
\* the invariant sees.
LEMMA QuietWaits ==
  ASSUME IInv, WInv, UNCHANGED <<procs, current, next_pid, cr3, esp0, esp>>,
         \A p \in Pids : Kept(proc'[p], proc[p]),
         \/ boot' = boot
         \/ boot.pc = "wait" /\ boot'.pc = "load"
         \/ boot.pc = "map" /\ boot'.pc = "idle"
  PROVE  WInv'
<1>1. Listed' = Listed /\ Listed \subseteq Pids /\ current \in Pids
  BY DEF IInv, TypeOK, Scheduled, HandlerOK, ListOK, Listed, In
<1>2. \A p \in Pids : proc'[p].type = proc[p].type /\ proc'[p].kstack = proc[p].kstack
  BY DEF Kept
<1>3. Steady(Listed, proc')
  BY <1>1, SteadyKept DEF WInv
<1>4. Steady(Listed, proc)'
  BY <1>1, <1>3 DEF Steady, OwnStacks, Counted, Chain, IsUser
<1>5. (IsUser(proc, current) => esp0 = proc[current].kstack)'
  BY <1>1, <1>2 DEF WInv, IsUser
<1>6. ASSUME Cleared PROVE Cr3MatchesCurrent'
  BY <1>1, <1>2, <1>6 DEF WInv, Cr3MatchesCurrent
<1>7. Booting'
  BY <1>1, <1>2 DEF WInv, Booting
<1>8. QED
  BY <1>4, <1>5, <1>6, <1>7 DEF WInv, Cleared

\* The steps of kernel_main.
LEMMA BootWaits ==
  ASSUME IInv, WInv,
         \/ \E size \in UninitSizes, w \in UninitPids, q \in UninitPids :
              boot_create(size, w, q) \/ boot_load(size, w, q)
         \/ boot_wait \/ boot_map
  PROVE  WInv'
<1>1. ASSUME NEW size \in UninitSizes, NEW w \in UninitPids, NEW q \in UninitPids,
             boot_create(size, w, q)
      PROVE  WInv'
  <2>1. /\ boot.pc = "create" /\ boot'.pc = "wait" /\ current = Kernel
        /\ next_pid <= MaxPid /\ "KERNEL" \in {"KERNEL", "USER"}
    BY <1>1 DEF boot_create, KernelMain
  <2>2. QED
    BY <1>1, <2>1, BootAppendWaits DEF boot_create, ShellPid
<1>2. ASSUME NEW size \in UninitSizes, NEW w \in UninitPids, NEW q \in UninitPids,
             boot_load(size, w, q)
      PROVE  WInv'
  <2>1. /\ boot.pc = "load" /\ boot'.pc = "map" /\ current = Kernel
        /\ next_pid <= MaxPid /\ "USER" \in {"KERNEL", "USER"}
    BY <1>2 DEF boot_load, KernelMain
  <2>2. next_pid = ShellPid
    BY <2>1 DEF WInv, Booting
  <2>3. QED
    BY <1>2, <2>1, <2>2, BootAppendWaits DEF boot_load
<1>3. \A p \in Pids : Kept(proc[p], proc[p])
  BY DEF Kept
<1>4. CASE boot_wait
  BY <1>3, <1>4, QuietWaits DEF boot_wait, KernelMain
<1>5. CASE boot_map
  <2>1. /\ boot.pc = "map" /\ proc \in [Pids -> Process]
        /\ UNCHANGED <<procs, current, next_pid, cr3, esp0, esp>>
    BY <1>5 DEF boot_map, KernelMain, IInv, TypeOK
  <2>2. boot' = boot \/ boot'.pc = "idle"
    BY <1>5 DEF boot_map
  <2>3. \A p \in Pids : Kept(proc'[p], proc[p])
    <3>1. CASE proc' = proc
      BY <1>3, <3>1
    <3>2. CASE proc' = [proc EXCEPT ![boot.child].code = @ + 1]
      <4>1. \A r \in Process : Kept([r EXCEPT !.code = @ + 1], r)
        BY DEF Process, Kept
      <4>2. QED
        BY <1>3, <2>1, <3>2, <4>1
    <3>3. QED
      BY <1>5, <3>1, <3>2 DEF boot_map
  <2>4. QED
    BY <2>1, <2>2, <2>3, QuietWaits
<1>6. QED
  BY <1>1, <1>2, <1>4, <1>5

-----------------------------------------------------------------------------
(* The invariant *)

\* At the start only kernel_main's process is listed, on the boot stack.
LEMMA InitWaits == Init => WInv
<1> SUFFICES ASSUME Init PROVE WInv
  OBVIOUS
<1>1. PICK size \in UninitSizes, w \in UninitPids, q \in UninitPids :
        proc = [p \in Pids |->
                  IF p = Kernel
                  THEN NewProcess("RUNNING", "KERNEL", q, size, w, BootStack, 0)
                  ELSE NoProcess]
  BY DEF Init
<1>2. Kernel \in Pids
  BY ConstAssumption DEF Pids, Kernel
<1>3. /\ proc[Kernel].type = "KERNEL" /\ proc[Kernel].count = 0
      /\ proc[Kernel].size = size
  BY <1>1, <1>2 DEF NewProcess
<1>4. Listed = {Kernel} /\ current = Kernel
  BY DEF Init, Listed
<1>5. OwnStacks(Listed, proc) /\ Counted(Listed, proc)
  BY <1>3, <1>4 DEF OwnStacks, Counted
<1>6. Cleared => Chain(Listed, proc)
  BY <1>3, <1>4 DEF Cleared, Chain, IsUser, Kernel, ShellPid
<1>7. Booting /\ Cr3MatchesCurrent /\ ~ IsUser(proc, current)
  BY <1>3, <1>4 DEF Booting, Cr3MatchesCurrent, IsUser, Init, Kernel
<1>8. QED
  BY <1>5, <1>6, <1>7 DEF WInv, Steady

\* Every step keeps the invariant.
LEMMA NextWaits == IInv /\ WInv /\ [Next]_vars => WInv'
<1> SUFFICES ASSUME IInv, WInv, [Next]_vars PROVE WInv'
  OBVIOUS
<1>1. CASE timer_handler
  BY <1>1, TimerWaits
<1>2. ASSUME NEW key \in Keys, keyboard_handler(key) PROVE WInv'
  BY <1>2, KeyboardWaits
<1>3. CASE fault_handler
  BY <1>3, FaultWaits
<1>4. CASE sys_exit
  BY <1>4, ExitWaits
<1>5. CASE sys_yield \/ \E n \in SleepTicks : sys_sleep(n)
  BY <1>5, SleepWaits
<1>6. ASSUME NEW n \in ReadSizes, sys_read(n) PROVE WInv'
  BY <1>6, ReadWaits
<1>7. ASSUME NEW size \in UninitSizes, NEW w \in UninitPids, sys_run(size, w)
      PROVE  WInv'
  BY <1>7, RunWaits
<1>8. CASE \/ \E size \in UninitSizes, w \in UninitPids, q \in UninitPids :
                boot_create(size, w, q) \/ boot_load(size, w, q)
           \/ boot_wait \/ boot_map
  BY <1>8, BootWaits
<1>9. CASE halt_loop \/ UNCHANGED vars
  <2>1. UNCHANGED vars /\ \A p \in Pids : Kept(proc[p], proc[p])
    BY <1>9 DEF halt_loop, Kept
  <2>2. QED
    BY <2>1, QuietWaits DEF vars
<1>10. QED
  BY <1>1, <1>2, <1>3, <1>4, <1>5, <1>6, <1>7, <1>8, <1>9 DEF Next

-----------------------------------------------------------------------------
(* The theorems *)

\* The invariant holds in every reachable state.
THEOREM WaitsInvariance == Spec => []WInv
<1>1. Init => WInv
  BY InitWaits
<1>2. IInv /\ WInv /\ [Next]_vars => WInv'
  BY NextWaits
<1>3. QED
  BY <1>1, <1>2, Invariance, PTL DEF Spec

\* A read the keyboard serves always has room for one more character.
THEOREM ReadsFit == Spec => []ReadBufferBounds
<1>1. IInv /\ WInv => ReadBufferBounds
  <2> SUFFICES ASSUME IInv, WInv, NEW p \in Listed, Reading(p)
               PROVE  proc[p].count < proc[p].size
    BY DEF ReadBufferBounds
  <2>1. proc[p].count = 0 \/ proc[p].count < proc[p].size
    BY DEF WInv, Steady, Counted
  <2>2. proc[p].size > 0
    BY DEF Reading
  <2>3. QED
    BY <2>1, <2>2
<1>2. QED
  BY <1>1, Invariance, WaitsInvariance, PTL

\* A trap from ring 3 lands on the current process's own kernel stack.
THEOREM TrapsLandOnOwnStack == Spec => []Esp0MatchesCurrent
<1>1. WInv => Esp0MatchesCurrent
  BY DEF WInv, Esp0MatchesCurrent, Steady, OwnStacks, IsUser
<1>2. QED
  BY <1>1, WaitsInvariance, PTL

\* With cleared memory, whoever runs, CR3 holds its directory: no key is
\* delivered while a user process runs, since every reader waits for it.
THEOREM Cr3FollowsCurrent ==
  ASSUME Cleared PROVE Spec => []Cr3MatchesCurrent
<1>1. WInv => Cr3MatchesCurrent
  BY DEF WInv
<1>2. QED
  BY <1>1, WaitsInvariance, PTL

\* With cleared memory, only its child's exit ends a parent's wait.
THEOREM ParentsWait ==
  ASSUME Cleared PROVE Spec => []ParentWaits
<1>1. WInv => ParentWaits
  <2> SUFFICES ASSUME WInv, NEW c \in Listed, c > ShellPid
               PROVE  LET p == proc[c].parent_pid
                      IN  /\ p \in Listed
                          /\ proc[p].state = "BLOCKED" /\ proc[p].pid_waiting_for = c
    BY DEF ParentWaits
  <2>1. Chain(Listed, proc)
    BY DEF WInv, Steady
  <2> DEFINE p == proc[c].parent_pid
  <2>2. p \in Listed /\ IsUser(proc, p) /\ p < c /\ proc[p].pid_waiting_for = c
    BY <2>1 DEF Chain
  <2>3. IsUser(proc, c)
    BY <2>1 DEF Chain
  <2> HIDE DEF p
  <2>4. proc[p].state = "BLOCKED"
    BY <2>1, <2>2, <2>3 DEF Chain
  <2>5. QED
    BY <2>2, <2>4 DEF p
<1>2. QED
  BY <1>1, WaitsInvariance, PTL

\* A switch lists nobody new.
LEMMA SwitchLists ==
  ASSUME NEW l \in Seq(Pids), NEW pr, NEW new,
         context_switch(l, pr, new) \/ procs' = l
  PROVE  Listed' \subseteq In(l)
<1>1. procs' = l \/ procs' = Unlinked(l, current)
  BY DEF context_switch
<1>2. Len(l) \in Nat /\ DOMAIN l = 1 .. Len(l)
  OBVIOUS
<1>3. \/ procs' = l
      \/ procs' = [i \in 1 .. Len(l) - 1 |->
                     IF i < IndexOf(l, current) THEN l[i] ELSE l[i + 1]]
  BY <1>1 DEF Unlinked
<1>4. \A i \in 1 .. Len(l) - 1 : i \in DOMAIN l /\ i + 1 \in DOMAIN l
  BY <1>2
<1>5. QED
  BY <1>3, <1>4 DEF Listed, In

\* Whatever stack the kernel stands on, a new process is given another one.
LEMMA NewStackFree ==
  ASSUME IInv, WInv, [Next]_vars, NEW p \in Pids, p \in Listed' \ Listed
  PROVE  proc'[p].kstack # FrameStack
<1>1. /\ proc \in [Pids -> Process] /\ Listed = In(procs) /\ current \in Listed
      /\ next_pid \in Nat /\ procs \in Seq(Pids)
  BY DEF IInv, TypeOK, Scheduled, HandlerOK, Listed, In
<1>2. ASSUME procs' = procs PROVE FALSE
  BY <1>2 DEF Listed
<1>3. ASSUME NEW pr, SwitchAway(procs, pr) PROVE FALSE
  <2>1. procs' = procs \/ context_switch(procs, pr, get_next_process(procs, pr))
    BY <1>3 DEF SwitchAway
  <2>2. QED
    BY <1>1, <2>1, SwitchLists
<1>4. ASSUME timer_handler PROVE FALSE
  <2>1. \/ procs' = procs
        \/ \E pr, new : context_switch(procs, pr, new)
    BY <1>4 DEF timer_handler
  <2>2. QED
    BY <1>1, <2>1, SwitchLists
<1>5. ASSUME NEW size \in UninitSizes, NEW w \in UninitPids, sys_run(size, w)
      PROVE  proc'[p].kstack # FrameStack
  <2> DEFINE l   == Append(procs, next_pid)
             pr  == RunTable(size, w)
             new == get_next_process(l, pr)
  <2>1. proc[current].type = "USER" /\ next_pid <= MaxPid /\ SwitchAway(l, pr)
    BY <1>5 DEF sys_run, UserCode, RunTable
  <2>2. /\ HandlerOK(l, pr) /\ pr[Kernel].state = "READY"
        /\ In(l) = Listed \cup {next_pid} /\ next_pid \notin Listed
        /\ pr[current] = [proc[current] EXCEPT !.pid_waiting_for = next_pid,
                                               !.state = "BLOCKED"]
        /\ pr[next_pid] = create_process("USER", current, size, w, CodePages)
    BY <2>1, RunTableOK
  <2> HIDE DEF l, pr
  <2>3. new \in In(l) /\ pr[new].state = "READY" /\ ~ TraversalSpins(l, pr)
    BY <2>2, NextIsReady
  <2>4. context_switch(l, pr, new)
    BY <2>1, <2>3 DEF SwitchAway
  <2> HIDE DEF new
  <2>5. Listed' = Left(l, pr) /\ \A q \in Left(l, pr) : Kept(proc'[q], pr[q])
    BY <2>2, <2>3, <2>4, SwitchShape
  <2>6. p = next_pid /\ proc'[p].kstack = pr[p].kstack
    BY <2>2, <2>5 DEF Left, Kept
  <2>7. pr[p].kstack = FreeStack
    BY <2>2, <2>6 DEF create_process, NewProcess
  <2>8. FrameStack = proc[current].kstack
    BY <2>1 DEF FrameStack, WInv, IsUser
  <2>9. ~ StackTaken(FreeStack)
    BY <2>1, FreeStackOK DEF IInv
  <2>10. QED
    BY <1>1, <2>6, <2>7, <2>8, <2>9 DEF StackTaken
<1>6. ASSUME NEW size \in UninitSizes, NEW w \in UninitPids, NEW q \in UninitPids,
             boot_create(size, w, q) \/ boot_load(size, w, q)
      PROVE  proc'[p].kstack # FrameStack
  <2>1. /\ next_pid <= MaxPid /\ current = Kernel
        /\ boot.pc \in {"create", "load"} /\ procs' = Append(procs, next_pid)
        /\ \E type \in {"KERNEL", "USER"} :
             proc' = [proc EXCEPT ![next_pid] = create_process(type, q, size, w, 0)]
    BY <1>6 DEF boot_create, boot_load, KernelMain
  <2>2. /\ In(procs') = Listed \cup {next_pid} /\ next_pid \in Pids
    BY <2>1, CreatedListed
  <2>3. p = next_pid
    BY <2>2 DEF Listed, In
  <2>4. proc'[p].kstack = FreeStack
    BY <1>1, <2>1, <2>2, <2>3 DEF create_process, NewProcess
  <2>5. esp = BootStack /\ proc[Kernel].type = "KERNEL"
    BY <2>1 DEF WInv, Booting, IInv, Scheduled, HandlerOK
  <2>6. FrameStack = 0 /\ FreeStack \in Pids
    BY <2>1, <2>5, FreeStackOK DEF FrameStack, BootStack, IInv
  <2>7. QED
    BY <2>4, <2>6 DEF Pids
<1>7. QED
  <2>1. CASE \/ \E key \in Keys : keyboard_handler(key)
             \/ boot_wait \/ boot_map \/ halt_loop \/ UNCHANGED vars
    BY <1>2, <2>1 DEF keyboard_handler, boot_wait, boot_map, halt_loop, vars
  <2>2. CASE \/ fault_handler \/ sys_exit \/ sys_yield
             \/ \E n \in SleepTicks : sys_sleep(n)
             \/ \E n \in ReadSizes : sys_read(n)
    <3>1. \E pr : SwitchAway(procs, pr)
      BY <2>2 DEF fault_handler, sys_exit, sys_yield, sys_sleep, sys_read
    <3>2. QED
      BY <1>3, <3>1
  <2>3. QED
    BY <1>4, <1>5, <1>6, <2>1, <2>2 DEF Next

\* A kernel stack is never given to a new process while the kernel stands on it.
THEOREM StacksNotReused == Spec => StackNotReused
<1>1. IInv /\ WInv /\ [Next]_vars =>
        [\A p \in Pids : p \in Listed' \ Listed => proc'[p].kstack # FrameStack]_vars
  BY NewStackFree
<1>2. QED
  BY <1>1, Invariance, WaitsInvariance, PTL DEF Spec, StackNotReused

-----------------------------------------------------------------------------
(* Who waits for the CPU: the invariant *)

\* Steps round the list l from process c to process p.
Away(l, c, p) ==
  LET i == IndexOf(l, p)
      k == IndexOf(l, c)
  IN  IF i >= k THEN i - k ELSE i + Len(l) - k

Nearer(l, c, p, q) == Away(l, c, p) < Away(l, c, q)

\* Who is not listed is not READY; who is not READY has not been passed; and
\* whoever passed p is gone, has the CPU, or is further away than p.
FInv ==
  /\ \A p \in Pids \ Listed : proc[p].state # "READY"
  /\ passed \in [Pids -> SUBSET Pids]
  /\ \A p \in Pids : proc[p].state # "READY" => passed[p] = {}
  /\ \A p \in Pids : \A q \in passed[p] :
       /\ q < next_pid
       /\ q \in Listed /\ q # current => Nearer(procs, current, p, q)

-----------------------------------------------------------------------------
(* Lemmas about the list *)

LEMMA IndexIs ==
  ASSUME NEW l, ListOK(l), NEW p \in In(l)
  PROVE  /\ IndexOf(l, p) \in 1 .. Len(l) /\ l[IndexOf(l, p)] = p
         /\ \A i \in 1 .. Len(l) : l[i] = p => i = IndexOf(l, p)
         /\ DOMAIN l = 1 .. Len(l) /\ Len(l) \in Nat
<1>1. \E i \in DOMAIN l : l[i] = p
  BY DEF In
<1>2. IndexOf(l, p) \in DOMAIN l /\ l[IndexOf(l, p)] = p
  BY <1>1 DEF IndexOf
<1>3. /\ DOMAIN l = 1 .. Len(l) /\ Len(l) \in Nat
      /\ \A i, j \in DOMAIN l : l[i] = l[j] => i = j
  BY DEF ListOK
<1>4. QED
  BY <1>2, <1>3

\* Two processes are never equally far away.
LEMMA AwayOne ==
  ASSUME NEW l, ListOK(l), NEW c \in In(l), NEW p \in In(l), NEW q \in In(l),
         p # q, Away(l, c, p) <= Away(l, c, q)
  PROVE  Nearer(l, c, p, q)
<1> DEFINE k == IndexOf(l, c)
           i == IndexOf(l, p)
           j == IndexOf(l, q)
<1>1. /\ k \in 1 .. Len(l) /\ i \in 1 .. Len(l) /\ j \in 1 .. Len(l)
      /\ l[i] = p /\ l[j] = q /\ Len(l) \in Nat
  BY IndexIs
<1>2. /\ Away(l, c, p) = IF i >= k THEN i - k ELSE i + Len(l) - k
      /\ Away(l, c, q) = IF j >= k THEN j - k ELSE j + Len(l) - k
  BY DEF Away
<1> HIDE DEF i, j, k
<1>3. QED
  BY <1>1, <1>2 DEF Nearer

\* An append changes no order.
LEMMA AwayAppend ==
  ASSUME NEW l, ListOK(l), NEW x, ListOK(Append(l, x)), x \notin In(l),
         NEW c \in In(l), NEW p \in In(l), NEW q \in In(l), Nearer(l, c, p, q)
  PROVE  Nearer(Append(l, x), c, p, q)
<1> DEFINE a == Append(l, x)
<1>1. /\ DOMAIN l = 1 .. Len(l) /\ Len(l) \in Nat /\ l \in Seq(Pids)
      /\ Len(a) = Len(l) + 1 /\ \A i \in 1 .. Len(l) : a[i] = l[i]
      /\ DOMAIN a = 1 .. Len(l) + 1
  BY DEF ListOK
<1>2. ASSUME NEW r \in In(l)
      PROVE  IndexOf(a, r) = IndexOf(l, r) /\ IndexOf(l, r) \in 1 .. Len(l)
  <2>1. IndexOf(l, r) \in 1 .. Len(l) /\ l[IndexOf(l, r)] = r
    BY IndexIs
  <2> DEFINE i == IndexOf(l, r)
  <2> HIDE DEF i
  <2>2. i \in DOMAIN a /\ a[i] = r
    BY <1>1, <2>1 DEF i
  <2>3. r \in In(a)
    BY <2>2 DEF In
  <2>4. i = IndexOf(a, r)
    BY <1>1, <2>2, <2>3, IndexIs
  <2>5. QED
    BY <2>1, <2>4 DEF i
<1> HIDE DEF a
<1>3. /\ IndexOf(a, c) = IndexOf(l, c) /\ IndexOf(l, c) \in 1 .. Len(l)
      /\ IndexOf(a, p) = IndexOf(l, p) /\ IndexOf(l, p) \in 1 .. Len(l)
      /\ IndexOf(a, q) = IndexOf(l, q) /\ IndexOf(l, q) \in 1 .. Len(l)
  BY <1>2
<1>4. Nearer(a, c, p, q)
  BY <1>1, <1>3 DEF Nearer, Away
<1>5. QED
  BY <1>4 DEF a

\* Seen from a nearer process, the order is the same and the one it is seen
\* from before comes last.
LEMMA AwayNext ==
  ASSUME NEW l, ListOK(l), NEW c \in In(l), NEW n \in In(l), n # c,
         NEW p \in In(l), NEW q \in In(l), Nearer(l, c, n, p),
         q = c \/ Nearer(l, c, p, q)
  PROVE  Nearer(l, n, p, q)
<1> DEFINE k == IndexOf(l, c)
           m == IndexOf(l, n)
           i == IndexOf(l, p)
           j == IndexOf(l, q)
<1>1. /\ k \in 1 .. Len(l) /\ m \in 1 .. Len(l) /\ i \in 1 .. Len(l)
      /\ j \in 1 .. Len(l) /\ Len(l) \in Nat /\ l[k] = c /\ l[m] = n
      /\ q = c => j = k
  BY IndexIs
<1>2. k # m
  BY <1>1
<1>3. /\ Away(l, c, n) = IF m >= k THEN m - k ELSE m + Len(l) - k
      /\ Away(l, c, p) = IF i >= k THEN i - k ELSE i + Len(l) - k
      /\ Away(l, c, q) = IF j >= k THEN j - k ELSE j + Len(l) - k
      /\ Away(l, n, p) = IF i >= m THEN i - m ELSE i + Len(l) - m
      /\ Away(l, n, q) = IF j >= m THEN j - m ELSE j + Len(l) - m
  BY DEF Away
<1> HIDE DEF i, j, k, m
<1>4. CASE q = c
  BY <1>1, <1>2, <1>3, <1>4 DEF Nearer
<1>5. CASE Nearer(l, c, p, q)
  BY <1>1, <1>2, <1>3, <1>5 DEF Nearer
<1>6. QED
  BY <1>4, <1>5

\* An unlink changes no order of those that stay.
LEMMA AwayUnlinked ==
  ASSUME NEW l, ListOK(l), NEW x \in In(l), x # Kernel,
         NEW c \in In(l) \ {x}, NEW p \in In(l) \ {x}, NEW q \in In(l) \ {x},
         Nearer(l, c, p, q)
  PROVE  Nearer(Unlinked(l, x), c, p, q)
<1> DEFINE u == Unlinked(l, x)
           k == IndexOf(l, x)
<1>1. /\ DOMAIN l = 1 .. Len(l) /\ Len(l) \in Nat /\ l[1] = Kernel
      /\ k \in 1 .. Len(l) /\ l[k] = x /\ ListOK(u)
  BY IndexIs, UnlinkedOK DEF ListOK
<1>2. k # 1
  BY <1>1
<1>3. u = [i \in 1 .. Len(l) - 1 |-> IF i < k THEN l[i] ELSE l[i + 1]]
  BY <1>2 DEF Unlinked
<1>4. Len(u) = Len(l) - 1 /\ DOMAIN u = 1 .. Len(l) - 1
  <2> DEFINE n == Len(l) - 1
  <2>1. DOMAIN u = 1 .. n
    BY <1>3
  <2> HIDE DEF u, k
  <2>2. DOMAIN u = 1 .. Len(u) /\ Len(u) \in Nat
    BY <1>1 DEF ListOK
  <2>3. n \in Nat /\ n >= 1
    BY <1>1, <1>2
  <2> HIDE DEF n
  <2> DEFINE w == Len(u)
  <2>4. w \in Nat /\ 1 .. w = 1 .. n
    BY <2>1, <2>2
  <2> HIDE DEF w
  <2>5. w = n
    <3>1. n \in 1 .. w
      BY <2>3, <2>4
    <3>2. w \in 1 .. w
      BY <2>3, <2>4, <3>1
    <3>3. QED
      BY <2>3, <2>4, <3>1, <3>2
  <2>6. QED
    BY <2>1, <2>5 DEF n, w
<1> HIDE DEF u, k
<1>5. ASSUME NEW r \in In(l) \ {x}
      PROVE  LET i == IndexOf(l, r)
             IN  /\ i \in 1 .. Len(l) /\ i # k
                 /\ IndexOf(u, r) = IF i < k THEN i ELSE i - 1
  <2> DEFINE i == IndexOf(l, r)
             h == IF i < k THEN i ELSE i - 1
  <2>1. i \in 1 .. Len(l) /\ l[i] = r
    BY IndexIs
  <2> HIDE DEF i
  <2>2. i # k
    BY <1>1, <1>5, <2>1
  <2>3. h \in 1 .. Len(l) - 1 /\ u[h] = r
    BY <1>1, <1>2, <1>3, <2>1, <2>2
  <2> HIDE DEF h
  <2>4. r \in In(u)
    BY <1>4, <2>3 DEF In
  <2>5. h = IndexOf(u, r)
    BY <1>1, <1>4, <2>3, <2>4, IndexIs
  <2>6. QED
    BY <2>1, <2>2, <2>5 DEF i, h
<1> DEFINE a == IndexOf(l, c)
           b == IndexOf(l, p)
           d == IndexOf(l, q)
<1>6. /\ a \in 1 .. Len(l) /\ a # k /\ IndexOf(u, c) = IF a < k THEN a ELSE a - 1
      /\ b \in 1 .. Len(l) /\ b # k /\ IndexOf(u, p) = IF b < k THEN b ELSE b - 1
      /\ d \in 1 .. Len(l) /\ d # k /\ IndexOf(u, q) = IF d < k THEN d ELSE d - 1
  <2>1. /\ a \in 1 .. Len(l) /\ a # k /\ IndexOf(u, c) = IF a < k THEN a ELSE a - 1
    BY <1>5
  <2>2. /\ b \in 1 .. Len(l) /\ b # k /\ IndexOf(u, p) = IF b < k THEN b ELSE b - 1
    BY <1>5
  <2>3. /\ d \in 1 .. Len(l) /\ d # k /\ IndexOf(u, q) = IF d < k THEN d ELSE d - 1
    BY <1>5
  <2>4. QED
    BY <2>1, <2>2, <2>3
<1>7. (IF b >= a THEN b - a ELSE b + Len(l) - a) <
        (IF d >= a THEN d - a ELSE d + Len(l) - a)
  BY DEF Nearer, Away
<1> HIDE DEF a, b, d
<1> DEFINE a1 == IndexOf(u, c)
           b1 == IndexOf(u, p)
           d1 == IndexOf(u, q)
<1>8. (IF b1 >= a1 THEN b1 - a1 ELSE b1 + Len(u) - a1) <
        (IF d1 >= a1 THEN d1 - a1 ELSE d1 + Len(u) - a1)
  <2> HIDE DEF a1, b1, d1
  <2>1. /\ a1 = (IF a < k THEN a ELSE a - 1) /\ b1 = (IF b < k THEN b ELSE b - 1)
        /\ d1 = (IF d < k THEN d ELSE d - 1)
    BY <1>6 DEF a1, b1, d1
  <2> DEFINE n == Len(l)
             e == Len(u)
  <2>2. /\ n \in Nat /\ k \in 1 .. n /\ a \in 1 .. n /\ b \in 1 .. n /\ d \in 1 .. n
        /\ a # k /\ b # k /\ d # k /\ e = n - 1
        /\ (IF b >= a THEN b - a ELSE b + n - a) <
             (IF d >= a THEN d - a ELSE d + n - a)
    BY <1>1, <1>4, <1>6, <1>7
  <2> HIDE DEF n, e
  <2>3. (IF b1 >= a1 THEN b1 - a1 ELSE b1 + e - a1) <
          (IF d1 >= a1 THEN d1 - a1 ELSE d1 + e - a1)
    <3>1. CASE a < k
      BY <2>1, <2>2, <3>1
    <3>2. CASE a > k
      BY <2>1, <2>2, <3>2
    <3>3. QED
      BY <2>2, <3>1, <3>2
  <2>4. QED
    BY <2>3 DEF e
<1>9. Nearer(u, c, p, q)
  BY <1>8 DEF Nearer, Away
<1>10. QED
  BY <1>9 DEF u

\* The scheduler takes the nearest READY process.
LEMMA NextIsNearest ==
  ASSUME NEW l, NEW pr, HandlerOK(l, pr), NEW p \in In(l), pr[p].state = "READY"
  PROVE  LET next == get_next_process(l, pr)
         IN  next \in In(l) /\ Away(l, current, next) <= Away(l, current, p)
<1> DEFINE C == Candidates(l, pr)
           D == {Distance(l, i) : i \in C}
           Nearest(i) == \A j \in C : Distance(l, i) <= Distance(l, j)
           m == CHOOSE i \in C : Nearest(i)
<1>1. ListOK(l) /\ current \in In(l) /\ l \in Seq(Pids) /\ C \subseteq DOMAIN l
  BY DEF HandlerOK, ListOK, Candidates
<1>2. ASSUME NEW i \in DOMAIN l PROVE Distance(l, i) = Away(l, current, l[i])
  <2>1. l[i] \in In(l)
    BY DEF In
  <2>2. i = IndexOf(l, l[i])
    BY <1>1, <2>1, IndexIs
  <2>3. QED
    BY <2>2 DEF Distance, Away
<1>3. \A j \in DOMAIN l : pr[l[j]].state = "RUNNING" => l[j] = current
  BY DEF HandlerOK, In
<1>4. PICK i \in DOMAIN l : l[i] = p
  BY DEF In
<1>5. i \in C
  BY <1>3, <1>4 DEF Candidates
<1>6. D \subseteq Nat /\ D # {}
  BY <1>1, <1>5, DistanceNat
<1>7. PICK s \in D : \A t \in D : s <= t
  <2> HIDE DEF D
  <2> QED BY <1>6, LeastNumber
<1>8. \E j \in C : Nearest(j)
  BY <1>7
<1>9. m \in C /\ Nearest(m)
  BY <1>8
<1>10. get_next_process(l, pr) = l[m]
  BY <1>5 DEF get_next_process
<1> HIDE DEF m, C, D
<1>11. Distance(l, m) <= Distance(l, i) /\ m \in DOMAIN l
  BY <1>1, <1>5, <1>9
<1>12. l[m] \in In(l)
  BY <1>11 DEF In
<1>13. QED
  BY <1>2, <1>4, <1>10, <1>11, <1>12

-----------------------------------------------------------------------------
(* What a step does to the list and to who waits *)

\* The list a handler leaves: as it was, or with the process it created.
Longer(l, n) ==
  \/ l = procs /\ n = next_pid
  \/ next_pid <= MaxPid /\ l = Append(procs, next_pid) /\ n = next_pid + 1

\* The step lets the current process go on.
Stays ==
  /\ current' = current /\ Longer(procs', next_pid')
  /\ \A p \in Pids \ Listed' : proc'[p].state = proc[p].state

\* The step switches to another process, from the list l and the table pr.
SwitchesFrom(l, pr) ==
  LET new == get_next_process(l, pr)
  IN  /\ Longer(l, next_pid') /\ HandlerOK(l, pr)
      /\ \A p \in Pids \ In(l) : pr[p].state = proc[p].state
      /\ \A p \in Pids : proc[p].state = "READY" => pr[p].state = "READY"
      /\ new \in In(l) /\ pr[new].state = "READY" /\ new # current
      /\ context_switch(l, pr, new)

\* The facts about a state of IInv that the steps below start from.
LEMMA ListedIn ==
  ASSUME IInv
  PROVE  /\ Listed = In(procs) /\ Listed \subseteq Pids /\ ListOK(procs)
         /\ current \in Listed /\ proc[current].state = "RUNNING"
         /\ proc \in [Pids -> Process] /\ next_pid \in Nat
         /\ \A p \in Listed : p < next_pid
<1>1. TypeOK /\ Scheduled /\ Numbered /\ HandlerOK(procs, proc)
  BY DEF IInv, Scheduled
<1>2. Listed = In(procs) /\ Listed \subseteq Pids
  BY <1>1 DEF Listed, In, HandlerOK, ListOK
<1>3. QED
  BY <1>1, <1>2 DEF HandlerOK, Scheduled, Numbered, TypeOK

\* The longer list is in order, and new on it is only the next pid.
LEMMA LongerOK ==
  ASSUME IInv, NEW l, NEW n, Longer(l, n)
  PROVE  /\ ListOK(l) /\ Listed \subseteq In(l)
         /\ In(l) \subseteq Listed \cup {next_pid}
         /\ n \in Nat /\ next_pid <= n
         /\ \A c, p, q \in Listed :
              Nearer(procs, c, p, q) => Nearer(l, c, p, q)
<1>1. ListOK(procs) /\ Listed = In(procs) /\ next_pid \in Nat
  BY ListedIn
<1>2. CASE l = procs /\ n = next_pid
  BY <1>1, <1>2
<1>3. CASE next_pid <= MaxPid /\ l = Append(procs, next_pid) /\ n = next_pid + 1
  <2>1. /\ ListOK(l) /\ In(l) = Listed \cup {next_pid} /\ next_pid \notin Listed
    BY <1>3, CreatedListed
  <2>2. ASSUME NEW c \in Listed, NEW p \in Listed, NEW q \in Listed,
               Nearer(procs, c, p, q)
        PROVE  Nearer(l, c, p, q)
    <3>1. Nearer(Append(procs, next_pid), c, p, q)
      <4>1. /\ ListOK(procs) /\ ListOK(Append(procs, next_pid))
            /\ next_pid \notin In(procs)
            /\ c \in In(procs) /\ p \in In(procs) /\ q \in In(procs)
        BY <1>1, <1>3, <2>1
      <4>2. QED
        BY <2>2, <4>1, AwayAppend
    <3>2. QED
      BY <1>3, <3>1
  <2>3. QED
    BY <1>1, <1>3, <2>1, <2>2
<1>4. QED
  BY <1>2, <1>3 DEF Longer

\* What a switch to another process leaves.
LEMMA SwitchLeaves ==
  ASSUME NEW l, NEW pr, HandlerOK(l, pr), NEW new \in In(l), new # current,
         context_switch(l, pr, new)
  PROVE  LET ended == pr[current].state = "TERMINATED"
         IN  /\ current' = new /\ proc'[new].state = "RUNNING"
             /\ procs' = IF ended THEN Unlinked(l, current) ELSE l
             /\ (ended => current # Kernel /\ proc'[current].state = "none")
             /\ \A p \in Pids \ {current, new} : proc'[p].state = pr[p].state
<1> DEFINE old    == current
           ready  == IF pr[old].state = "RUNNING"
                     THEN [pr EXCEPT ![old].state = "READY"] ELSE pr
           loaded == [ready EXCEPT ![new].state = "RUNNING"]
           ended  == pr[old].state = "TERMINATED"
<1>1. /\ ListOK(l) /\ In(l) \subseteq Pids /\ old \in In(l) /\ new \in Pids
      /\ old \in Pids /\ pr \in [Pids -> Process] /\ (ended => old # Kernel)
      /\ "READY" \in States /\ "RUNNING" \in States
  BY DEF HandlerOK, ListOK, In, States
<1>2. /\ ready \in [Pids -> Process]
      /\ \A p \in Pids \ {old} : ready[p].state = pr[p].state
      /\ ready[old].state =
           IF pr[old].state = "RUNNING" THEN "READY" ELSE pr[old].state
  BY <1>1, StateUpdate
<1> HIDE DEF ready
<1>3. /\ loaded \in [Pids -> Process] /\ loaded[new].state = "RUNNING"
      /\ \A p \in Pids \ {new} : loaded[p].state = ready[p].state
  BY <1>1, <1>2, StateUpdate
<1> HIDE DEF loaded
<1>4. loaded[old].state = "TERMINATED" <=> ended
  BY <1>1, <1>2, <1>3
<1>5. current' = new
  BY DEF context_switch
<1>6. CASE ended
  <2>1. Unlinked(l, old) # l
    BY <1>1, <1>6, UnlinkedOK
  <2>2. /\ procs' = Unlinked(l, old)
        /\ proc' = [loaded EXCEPT ![old] = NoProcess]
    BY <1>4, <1>6, <2>1 DEF context_switch, loaded, ready
  <2>3. proc'[old].state = "none" /\ \A p \in Pids \ {old} : proc'[p] = loaded[p]
    BY <1>1, <1>3, <2>2 DEF NoProcess
  <2>4. QED
    BY <1>1, <1>2, <1>3, <1>5, <1>6, <2>2, <2>3
<1>7. CASE ~ended
  <2>1. procs' = l /\ proc' = loaded
    BY <1>4, <1>7 DEF context_switch, loaded, ready
  <2>2. QED
    BY <1>1, <1>2, <1>3, <1>5, <1>7, <2>1
<1>8. QED
  BY <1>6, <1>7

\* A table handed to the scheduler while kernel_main's process is READY.
LEMMA AwayFrom ==
  ASSUME IInv, NEW l, NEW pr, HandlerOK(l, pr), pr[Kernel].state = "READY",
         pr[current].state # "READY", Longer(l, next_pid'), SwitchAway(l, pr),
         \A p \in Pids \ In(l) : pr[p].state = proc[p].state,
         \A p \in Pids : proc[p].state = "READY" => pr[p].state = "READY"
  PROVE  SwitchesFrom(l, pr)
<1>1. /\ get_next_process(l, pr) \in In(l)
      /\ pr[get_next_process(l, pr)].state = "READY"
      /\ ~TraversalSpins(l, pr)
  BY NextIsReady
<1>2. context_switch(l, pr, get_next_process(l, pr))
  BY <1>1 DEF SwitchAway
<1>3. QED
  BY <1>1, <1>2 DEF SwitchesFrom

\* Every step lets the current process go on or switches to the nearest.
LEMMA StepShape ==
  ASSUME IInv, [Next]_vars PROVE Stays \/ \E l, pr : SwitchesFrom(l, pr)
<1> DEFINE Goal == Stays \/ \E l, pr : SwitchesFrom(l, pr)
<1>0. /\ Listed = In(procs) /\ Listed \subseteq Pids /\ ListOK(procs)
      /\ current \in Listed /\ proc[current].state = "RUNNING"
      /\ proc \in [Pids -> Process] /\ next_pid \in Nat
      /\ procs' = procs => Listed' = Listed
  BY ListedIn DEF Listed
<1>1. CASE timer_handler
  <2> DEFINE now  == (ticks + 1) % TickMod
             pr   == Woken(now)
             next == get_next_process(procs, pr)
  <2>1. /\ pr \in [Pids -> Process]
        /\ \A p \in Pids : pr[p].code = proc[p].code /\ pr[p].type = proc[p].type
        /\ \A p \in Pids : \/ pr[p].state = proc[p].state
                           \/ /\ proc[p].state \in {"BLOCKED", "SLEEPING"}
                              /\ pr[p].state = "READY"
        /\ \A p \in Pids \ Listed : pr[p].state = proc[p].state
    <3>1. "READY" \in States
      BY DEF States
    <3>2. \A p \in Pids : LET r == [proc[p] EXCEPT !.state = "READY"]
                          IN  /\ r \in Process /\ r.state = "READY"
                              /\ r.code = proc[p].code /\ r.type = proc[p].type
      BY <1>0, <3>1 DEF Process
    <3>3. QED
      BY <1>0, <3>2 DEF Woken
  <2> HIDE DEF pr, now
  <2>2. HandlerOK(procs, pr) /\ pr[current].state = "RUNNING"
    BY <2>1, Wakes
  <2>3. /\ next_pid' = next_pid
        /\ \/ next # current /\ context_switch(procs, pr, next)
           \/ proc' = pr /\ UNCHANGED <<procs, current>>
    BY <1>1 DEF timer_handler, pr, now
  <2>4. CASE next # current /\ context_switch(procs, pr, next)
    <3>1. next \in In(procs) /\ pr[next].state = "READY"
      BY <1>0, <2>2, <2>4, NextProcess DEF HandlerOK, ListOK
    <3>2. SwitchesFrom(procs, pr)
      BY <1>0, <2>1, <2>2, <2>3, <2>4, <3>1 DEF SwitchesFrom, Longer
    <3>3. QED
      BY <3>2
  <2>5. CASE proc' = pr /\ UNCHANGED <<procs, current>>
    BY <1>0, <2>1, <2>3, <2>5 DEF Stays, Longer
  <2>6. QED
    BY <2>3, <2>4, <2>5
<1>2. ASSUME NEW key \in Keys, keyboard_handler(key) PROVE Goal
  <2>1. /\ UNCHANGED <<procs, current, next_pid>>
        /\ \A p \in Pids \ Listed : proc'[p] = proc[p]
    BY <1>2 DEF keyboard_handler, Reading
  <2>2. QED
    BY <1>0, <2>1 DEF Stays, Longer
<1>3. CASE \/ fault_handler \/ sys_exit \/ sys_yield
           \/ \E n \in SleepTicks : sys_sleep(n)
           \/ \E n \in ReadSizes : sys_read(n)
  <2>1. proc[current].type = "USER"
    BY <1>3, UserCalls
  <2>2. PICK pr : /\ Handed(pr) /\ SwitchAway(procs, pr) /\ UNCHANGED next_pid
    BY <1>3, UserCalls
  <2>3. /\ HandlerOK(procs, pr) /\ pr[Kernel].state = "READY"
        /\ pr[current].state # "READY" /\ Longer(procs, next_pid')
        /\ \A p \in Pids \ In(procs) : pr[p].state = proc[p].state
        /\ \A p \in Pids : proc[p].state = "READY" => pr[p].state = "READY"
    BY <1>0, <2>1, <2>2, UserTable DEF Handed, Longer
  <2>4. SwitchesFrom(procs, pr)
    BY <2>2, <2>3, AwayFrom
  <2>5. QED
    BY <2>4
<1>4. ASSUME NEW size \in UninitSizes, NEW w \in UninitPids, sys_run(size, w)
      PROVE  Goal
  <2> DEFINE l  == Append(procs, next_pid)
             pr == RunTable(size, w)
  <2>1. /\ proc[current].type = "USER" /\ next_pid <= MaxPid
        /\ next_pid' = next_pid + 1 /\ SwitchAway(l, pr)
    BY <1>4 DEF sys_run, UserCode, RunTable
  <2>2. /\ HandlerOK(l, pr) /\ pr[Kernel].state = "READY"
        /\ In(l) = Listed \cup {next_pid} /\ next_pid \notin Listed
        /\ pr[next_pid] = create_process("USER", current, size, w, CodePages)
        /\ pr[current] = [proc[current] EXCEPT !.pid_waiting_for = next_pid,
                                               !.state = "BLOCKED"]
        /\ pr[current] \in Process
        /\ \A p \in Pids \ {next_pid, current} : pr[p] = proc[p]
    BY <2>1, RunTableOK
  <2>3. pr[current].state = "BLOCKED" /\ pr[next_pid].state = "READY"
    <3>1. pr[next_pid].state = "READY"
      BY <2>2 DEF create_process, NewProcess
    <3>2. proc[current] \in Process
      BY <1>0
    <3> HIDE DEF pr
    <3>3. pr[current].state = "BLOCKED"
      BY <2>2, <3>2 DEF Process
    <3>4. QED
      BY <3>1, <3>3
  <2>4. Longer(l, next_pid')
    BY <2>1 DEF Longer
  <2> HIDE DEF l, pr
  <2>5. /\ \A p \in Pids \ In(l) : pr[p].state = proc[p].state
        /\ \A p \in Pids : proc[p].state = "READY" => pr[p].state = "READY"
        /\ pr[current].state # "READY"
    BY <1>0, <2>2, <2>3
  <2>6. SwitchesFrom(l, pr)
    <3>1. /\ HandlerOK(l, pr) /\ pr[Kernel].state = "READY" /\ SwitchAway(l, pr)
      BY <2>1, <2>2
    <3>2. QED
      BY <2>4, <2>5, <3>1, AwayFrom
  <2>7. QED
    BY <2>6
<1>5. ASSUME NEW size \in UninitSizes, NEW w \in UninitPids, NEW q \in UninitPids,
             boot_create(size, w, q) \/ boot_load(size, w, q)
      PROVE  Goal
  <2>1. /\ next_pid <= MaxPid /\ current' = current /\ next_pid' = next_pid + 1
        /\ procs' = Append(procs, next_pid)
        /\ \E r : proc' = [proc EXCEPT ![next_pid] = r]
    BY <1>5 DEF boot_create, boot_load
  <2>2. next_pid \in In(procs') /\ Listed \subseteq In(procs')
    BY <2>1, CreatedListed
  <2>3. In(procs') = Listed'
    BY DEF In, Listed
  <2>4. \A p \in Pids \ Listed' : proc'[p] = proc[p]
    BY <1>0, <2>1, <2>2, <2>3
  <2>5. QED
    BY <2>1, <2>4 DEF Stays, Longer
<1>6. CASE boot_wait \/ halt_loop \/ UNCHANGED vars
  <2>1. UNCHANGED <<proc, procs, current, next_pid>>
    BY <1>6 DEF boot_wait, halt_loop, vars
  <2>2. QED
    BY <2>1 DEF Stays, Longer
<1>7. CASE boot_map
  <2>1. /\ UNCHANGED <<procs, current, next_pid>>
        /\ \/ UNCHANGED proc
           \/ boot.child \in Listed /\ proc' = [proc EXCEPT ![boot.child].code = @ + 1]
    BY <1>7 DEF boot_map
  <2>2. \A p \in Pids \ Listed : proc'[p] = proc[p]
    BY <1>0, <2>1
  <2>3. QED
    BY <1>0, <2>1, <2>2 DEF Stays, Longer
<1>8. QED
  BY <1>1, <1>2, <1>3, <1>4, <1>5, <1>6, <1>7 DEF Next

-----------------------------------------------------------------------------
(* The invariant is inductive *)

\* What a step adds to passed.
Passing ==
  passed' = [p \in Pids |-> IF proc'[p].state = "READY"
                            THEN passed[p] \cup Dispatched ELSE {}]

\* A step that does not switch passes nobody.
LEMMA StayStep ==
  ASSUME IInv, FInv, Stays, Passing, IInv' PROVE FInv'
<1>1. /\ Listed = In(procs) /\ Listed \subseteq Pids /\ ListOK(procs)
      /\ current \in Listed /\ next_pid \in Nat
  BY ListedIn
<1>2. /\ current' = current /\ Longer(procs', next_pid') /\ Dispatched = {}
      /\ \A p \in Pids \ Listed' : proc'[p].state = proc[p].state
  BY DEF Stays, Dispatched
<1>3. /\ Listed \subseteq In(procs') /\ In(procs') \subseteq Listed \cup {next_pid}
      /\ next_pid' \in Nat /\ next_pid <= next_pid'
      /\ \A c, p, q \in Listed :
           Nearer(procs, c, p, q) => Nearer(procs', c, p, q)
  BY <1>2, LongerOK
<1>4. In(procs') = Listed'
  BY DEF In, Listed
<1>5. \A p \in Pids \ Listed' : proc'[p].state # "READY"
  BY <1>2, <1>3, <1>4 DEF FInv
<1>6. /\ passed' \in [Pids -> SUBSET Pids]
      /\ \A p \in Pids : proc'[p].state # "READY" => passed'[p] = {}
      /\ \A p \in Pids : passed'[p] \subseteq passed[p]
  BY <1>2 DEF FInv, Passing
<1>7. ASSUME NEW p \in Pids, NEW q \in passed'[p]
      PROVE  /\ q < next_pid'
             /\ q \in Listed' /\ q # current' => Nearer(procs', current', p, q)
  <2>1. q \in passed[p] /\ passed[p] # {} /\ q \in Pids
    BY <1>6, <1>7 DEF FInv
  <2>2. p \in Listed /\ q < next_pid /\ q \in Nat
    BY <2>1 DEF FInv, Pids
  <2>3. q < next_pid' /\ q # next_pid
    BY <1>1, <1>3, <2>2
  <2>4. ASSUME q \in Listed', q # current' PROVE Nearer(procs', current', p, q)
    <3>1. q \in Listed /\ q # current
      BY <1>2, <1>3, <1>4, <2>3, <2>4
    <3>2. Nearer(procs, current, p, q)
      BY <2>1, <3>1 DEF FInv
    <3>3. QED
      BY <1>1, <1>2, <1>3, <2>2, <3>1, <3>2
  <2>5. QED
    BY <2>3, <2>4
<1>8. QED
  BY <1>5, <1>6, <1>7 DEF FInv

\* A switch passes those it does not take, who all are further away.
LEMMA SwitchStep ==
  ASSUME IInv, FInv, NEW l, NEW pr, SwitchesFrom(l, pr), Passing, IInv'
  PROVE  FInv'
<1> DEFINE new   == get_next_process(l, pr)
           ended == pr[current].state = "TERMINATED"
<1>1. /\ Listed = In(procs) /\ Listed \subseteq Pids /\ ListOK(procs)
      /\ current \in Listed /\ next_pid \in Nat /\ proc[current].state = "RUNNING"
  BY ListedIn
<1>2. /\ Longer(l, next_pid') /\ HandlerOK(l, pr)
      /\ \A p \in Pids \ In(l) : pr[p].state = proc[p].state
      /\ \A p \in Pids : proc[p].state = "READY" => pr[p].state = "READY"
      /\ new \in In(l) /\ pr[new].state = "READY" /\ new # current
      /\ context_switch(l, pr, new)
  BY DEF SwitchesFrom
<1>3. /\ ListOK(l) /\ Listed \subseteq In(l)
      /\ In(l) \subseteq Listed \cup {next_pid}
      /\ next_pid' \in Nat /\ next_pid <= next_pid'
      /\ \A c, p, q \in Listed : Nearer(procs, c, p, q) => Nearer(l, c, p, q)
  BY <1>2, LongerOK
<1>4. \A p \in In(l) : pr[p].state = "READY" => Away(l, current, new) <= Away(l, current, p)
  BY <1>2, NextIsNearest
<1> HIDE DEF new, ended
<1>5. /\ current' = new /\ proc'[new].state = "RUNNING"
      /\ procs' = IF ended THEN Unlinked(l, current) ELSE l
      /\ (ended => current # Kernel /\ proc'[current].state = "none")
      /\ \A p \in Pids \ {current, new} : proc'[p].state = pr[p].state
  BY <1>2, SwitchLeaves DEF ended
<1>6. In(l) \subseteq Pids /\ current \in In(l) /\ new \in Pids
  <2>1. ListOK(l)
    BY <1>3
  <2>2. In(l) \subseteq Pids
    BY <2>1 DEF ListOK, In
  <2>3. new \in In(l)
    BY <1>2 DEF new
  <2>4. QED
    BY <1>1, <1>3, <2>2, <2>3
<1>7. Listed' = IF ended THEN In(l) \ {current} ELSE In(l)
  <2>1. Listed' = In(procs')
    BY DEF In, Listed
  <2>2. CASE ended
    <3>1. In(Unlinked(l, current)) = In(l) \ {current}
      BY <1>3, <1>5, <1>6, <2>2, UnlinkedOK
    <3>2. QED
      BY <1>5, <2>1, <2>2, <3>1
  <2>3. CASE ~ended
    BY <1>5, <2>1, <2>3
  <2>4. QED
    BY <2>2, <2>3
<1>8. \A p \in Pids \ Listed' : proc'[p].state # "READY"
  <2> SUFFICES ASSUME NEW p \in Pids \ Listed' PROVE proc'[p].state # "READY"
    OBVIOUS
  <2>1. CASE p = current
    BY <1>5, <1>6, <1>7, <2>1
  <2>2. CASE p # current
    BY <1>2, <1>3, <1>5, <1>7, <2>2 DEF FInv
  <2>3. QED
    BY <2>1, <2>2
<1>9. Dispatched = {new}
  BY <1>2, <1>5 DEF Dispatched, new
<1>10. /\ passed' \in [Pids -> SUBSET Pids]
       /\ \A p \in Pids : proc'[p].state # "READY" => passed'[p] = {}
       /\ \A p \in Pids : passed'[p] \subseteq passed[p] \cup {new}
  BY <1>6, <1>9 DEF FInv, Passing
<1>11. ASSUME NEW p \in Pids, NEW q \in passed'[p]
       PROVE  /\ q < next_pid'
              /\ q \in Listed' /\ q # current' => Nearer(procs', current', p, q)
  <2>1. proc'[p].state = "READY" /\ p \in Listed' /\ p # new
    BY <1>5, <1>8, <1>10, <1>11
  <2>2. CASE q = new
    <3>1. new \in Listed'
      BY <1>2, <1>7 DEF new
    <3>2. QED
      BY <1>5, <2>2, <3>1 DEF IInv, Numbered
  <2>3. CASE q \in passed[p]
    <3>1. p \in Listed /\ p # current /\ proc[p].state = "READY" /\ q < next_pid
          /\ q \in Pids /\ q \in Nat
      BY <1>1, <2>3 DEF FInv, Pids
    <3>2. q < next_pid' /\ q # next_pid
      BY <1>1, <1>3, <3>1
    <3>3. ASSUME q \in Listed', q # current' PROVE Nearer(procs', current', p, q)
      <4>1. q \in Listed /\ q \in In(l) /\ p \in In(l) /\ new \in In(l)
        BY <1>2, <1>3, <1>7, <3>1, <3>2, <3>3 DEF new
      <4>2. q # current => Nearer(l, current, p, q)
        BY <1>1, <1>3, <2>3, <3>1, <4>1 DEF FInv
      <4>3. pr[p].state = "READY"
        BY <1>2, <3>1
      <4>4. Nearer(l, current, new, p)
        <5>1. Away(l, current, new) <= Away(l, current, p)
          BY <1>4, <4>1, <4>3
        <5>2. QED
          BY <1>3, <1>6, <2>1, <4>1, <5>1, AwayOne
      <4>5. Nearer(l, new, p, q)
        <5>1. new # current
          BY <1>2 DEF new
        <5>2. q = current \/ Nearer(l, current, p, q)
          BY <4>2
        <5>3. QED
          BY <1>3, <1>6, <4>1, <4>4, <5>1, <5>2, AwayNext
      <4>6. CASE ended
        <5>1. /\ current # Kernel /\ procs' = Unlinked(l, current)
              /\ new \in In(l) \ {current} /\ p \in In(l) \ {current}
              /\ q \in In(l) \ {current}
          BY <1>2, <1>5, <1>7, <3>1, <3>3, <4>1, <4>6 DEF new
        <5>2. Nearer(Unlinked(l, current), new, p, q)
          BY <1>3, <1>6, <4>5, <5>1, AwayUnlinked
        <5>3. QED
          BY <1>5, <5>1, <5>2
      <4>7. CASE ~ended
        BY <1>5, <4>5, <4>7
      <4>8. QED
        BY <4>6, <4>7
    <3>4. QED
      BY <3>2, <3>3
  <2>4. QED
    BY <1>10, <2>2, <2>3
<1>12. QED
  BY <1>8, <1>10, <1>11 DEF FInv

\* Both invariants hold at first.
LEMMA FInit == HInit => IInv /\ FInv
<1> SUFFICES ASSUME HInit PROVE IInv /\ FInv
  OBVIOUS
<1>1. IInv
  BY InitIInv DEF HInit
<1>2. \A p \in Pids : proc[p].state # "READY"
  BY DEF HInit, Init, NewProcess, NoProcess
<1>3. passed = [p \in Pids |-> {}]
  BY DEF HInit
<1>4. QED
  BY <1>1, <1>2, <1>3 DEF FInv

\* Both invariants are kept by every step.
LEMMA FStep == IInv /\ FInv /\ [HNext]_hvars => IInv' /\ FInv'
<1> SUFFICES ASSUME IInv, FInv, [HNext]_hvars PROVE IInv' /\ FInv'
  OBVIOUS
<1>1. [Next]_vars
  BY DEF HNext, hvars
<1>2. IInv'
  BY <1>1, NextStep
<1>3. CASE HNext
  <2>1. Passing
    BY <1>3 DEF HNext, Passing
  <2>2. QED
    BY <1>1, <1>2, <2>1, StepShape, StayStep, SwitchStep
<1>4. CASE UNCHANGED hvars
  <2>1. Listed' = Listed
    BY <1>4 DEF hvars, vars, Listed
  <2>2. QED
    BY <1>2, <1>4, <2>1 DEF FInv, hvars, vars
<1>5. QED
  BY <1>3, <1>4

\* The scheduler never takes one that has passed a process still waiting.
LEMMA NoneTwice ==
  ASSUME IInv, FInv, [HNext]_hvars, NEW p \in Pids, proc[p].state = "READY"
  PROVE  Dispatched \cap passed[p] = {}
<1>1. Stays \/ \E l, pr : SwitchesFrom(l, pr)
  BY StepShape DEF HNext, hvars
<1>2. CASE Stays
  BY <1>2 DEF Stays, Dispatched
<1>3. ASSUME NEW l, NEW pr, SwitchesFrom(l, pr) PROVE Dispatched \cap passed[p] = {}
  <2> DEFINE new == get_next_process(l, pr)
  <2>1. /\ Listed = In(procs) /\ Listed \subseteq Pids /\ ListOK(procs)
        /\ current \in Listed /\ next_pid \in Nat
    BY ListedIn
  <2>2. /\ Longer(l, next_pid') /\ HandlerOK(l, pr)
        /\ pr[p].state = "READY"
        /\ new \in In(l) /\ new # current /\ current' = new
    BY <1>3 DEF SwitchesFrom, context_switch
  <2>3. /\ ListOK(l) /\ Listed \subseteq In(l)
        /\ In(l) \subseteq Listed \cup {next_pid}
        /\ \A c, r, q \in Listed : Nearer(procs, c, r, q) => Nearer(l, c, r, q)
    BY <2>2, LongerOK
  <2>4. p \in Listed
    BY DEF FInv
  <2>5. Away(l, current, new) <= Away(l, current, p)
    BY <2>2, <2>3, <2>4, NextIsNearest
  <2> HIDE DEF new
  <2>6. ASSUME new \in passed[p] PROVE FALSE
    <3>1. new < next_pid /\ new \in Nat
      BY <2>6 DEF FInv, Pids
    <3>2. new \in Listed
      BY <2>1, <2>2, <2>3, <3>1
    <3>3. Nearer(procs, current, p, new)
      BY <2>2, <2>6, <3>2 DEF FInv
    <3>4. Nearer(l, current, p, new)
      BY <2>1, <2>3, <2>4, <3>2, <3>3
    <3>5. ASSUME NEW r \in In(l) PROVE Away(l, current, r) \in Int
      <4>1. /\ IndexOf(l, r) \in 1 .. Len(l) /\ IndexOf(l, current) \in 1 .. Len(l)
            /\ Len(l) \in Nat
        BY <2>1, <2>3, IndexIs
      <4>2. QED
        BY <4>1 DEF Away
    <3>6. Away(l, current, p) \in Int /\ Away(l, current, new) \in Int
      BY <2>2, <2>3, <2>4, <3>5
    <3>7. QED
      BY <2>5, <3>4, <3>6 DEF Nearer
  <2>7. QED
    BY <2>2, <2>6 DEF Dispatched
<1>4. QED
  BY <1>1, <1>2, <1>3

-----------------------------------------------------------------------------
(* The theorem *)

\* Round robin, for any number of processes: while a process waits for the
\* CPU, get_next_process gives it to no other process twice.
THEOREM NobodyOvertaken == HSpec => BoundedOvertaking
<1> DEFINE Fair == \A p \in Pids : proc[p].state = "READY" /\ proc'[p].state = "READY"
                                     => Dispatched \cap passed[p] = {}
<1>1. HInit => IInv /\ FInv
  BY FInit
<1>2. (IInv /\ FInv) /\ [HNext]_hvars => (IInv /\ FInv)'
  BY FStep
<1>3. (IInv /\ FInv) /\ [HNext]_hvars => Fair
  BY NoneTwice
<1>4. BoundedOvertaking <=> [][Fair]_hvars
  BY DEF BoundedOvertaking
<1>5. QED
  BY <1>1, <1>2, <1>3, <1>4, PTL DEF HSpec
=============================================================================
