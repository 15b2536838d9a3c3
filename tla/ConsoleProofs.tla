----------------------------- MODULE ConsoleProofs -----------------------------
(***************************************************************************)
(* Handlers never nest; every part of the console keeps its type; what a   *)
(* system call prints stands whole; the screen shows what a read has; and  *)
(* the shell runs, and stores, what was typed.                             *)
(*                                                                         *)
(* In this order: how a trap frame is pushed and popped, numbers, the      *)
(* cursor, the screen, calls, reads, the shell, strings, the tokenizer.    *)
(***************************************************************************)
EXTENDS Console, SequenceTheorems, FiniteSetTheorems, NaturalsInduction,
        WellFoundedInduction, TLAPS

\* Every gate is an interrupt gate.
LEMMA GatesClear == ASSUME NEW n \in Nat PROVE ClearsFlag(n)
  BY DEF ClearsFlag, idt_gate, InterruptGate

\* What a word of the stack can be here.
Pushed == Int \cup BOOLEAN

\* Concatenation, element by element.
LEMMA WordAt ==
  ASSUME NEW a \in Seq(Pushed), NEW b \in Seq(Pushed)
  PROVE  /\ a \o b \in Seq(Pushed)
         /\ Len(a \o b) = Len(a) + Len(b)
         /\ \A k \in 1 .. Len(a) : (a \o b)[k] = a[k]
         /\ \A k \in 1 .. Len(b) : (a \o b)[Len(a) + k] = b[k]
  <1>1. /\ a \o b \in Seq(Pushed)
        /\ Len(a \o b) = Len(a) + Len(b)
        /\ \A i \in 1 .. Len(a) + Len(b) :
             (a \o b)[i] = IF i <= Len(a) THEN a[i] ELSE b[i - Len(a)]
    BY ConcatProperties
  <1>2. Len(a) \in Nat /\ Len(b) \in Nat
    OBVIOUS
  <1>3. ASSUME NEW k \in 1 .. Len(b) PROVE (a \o b)[Len(a) + k] = b[k]
    <2>1. Len(a) + k \in 1 .. Len(a) + Len(b) /\ ~ (Len(a) + k <= Len(a)) /\ (Len(a) + k) - Len(a) = k
      BY <1>2
    <2> QED BY <1>1, <2>1
  <1>4. ASSUME NEW k \in 1 .. Len(a) PROVE (a \o b)[k] = a[k]
    <2>1. k \in 1 .. Len(a) + Len(b) /\ k <= Len(a)
      BY <1>2
    <2> QED BY <1>1, <2>1
  <1> QED BY <1>1, <1>3, <1>4

\* The words the processor pushed: an error code or not, eip, cs, eflags.
LEMMA ProcessorWordsOf ==
  ASSUME NEW n \in 0 .. 47 \cup {SyscallVector}, NEW ring \in {0, 3}, NEW flag \in BOOLEAN
  PROVE  LET words == ProcessorWords(n, ring, flag)
             extra == IF PushesErrorCode(n) THEN 1 ELSE 0
         IN  /\ words \in Seq(Pushed)
             /\ Len(words) >= 3 + extra
             /\ words[2 + extra] = ring /\ words[3 + extra] = flag
  <1> DEFINE code == IF PushesErrorCode(n) THEN <<0>> ELSE <<>>
             top  == <<0, ring, flag>>
             user == IF ring = 3 THEN <<0, 0>> ELSE <<>>
             extra == IF PushesErrorCode(n) THEN 1 ELSE 0
  <1>1. /\ code \in Seq(Pushed) /\ Len(code) = extra
    <2>1. 0 \in Pushed
      BY DEF Pushed
    <2> QED BY <2>1
  <1>2. top \in Seq(Pushed) /\ Len(top) = 3 /\ top[2] = ring /\ top[3] = flag
    <2>1. 0 \in Pushed /\ ring \in Pushed /\ flag \in Pushed
      BY DEF Pushed
    <2> QED BY <2>1
  <1>3. user \in Seq(Pushed) /\ Len(user) \in Nat
    <2>1. 0 \in Pushed
      BY DEF Pushed
    <2> QED BY <2>1
  <1>4. extra \in Nat
    OBVIOUS
  <1> HIDE DEF code, top, user, extra
  <1>5. /\ code \o top \in Seq(Pushed) /\ Len(code \o top) = extra + 3
        /\ (code \o top)[extra + 2] = ring /\ (code \o top)[extra + 3] = flag
    <2>1. /\ code \o top \in Seq(Pushed) /\ Len(code \o top) = Len(code) + Len(top)
          /\ \A k \in 1 .. Len(top) : (code \o top)[Len(code) + k] = top[k]
      BY <1>1, <1>2, WordAt, Zenon
    <2>2. 2 \in 1 .. Len(top) /\ 3 \in 1 .. Len(top)
      BY <1>2
    <2> QED BY <1>1, <1>2, <2>1, <2>2
  <1>6. /\ (code \o top) \o user \in Seq(Pushed)
        /\ Len((code \o top) \o user) >= extra + 3
        /\ ((code \o top) \o user)[extra + 2] = ring
        /\ ((code \o top) \o user)[extra + 3] = flag
    <2> DEFINE low == code \o top
    <2>1. /\ low \o user \in Seq(Pushed) /\ Len(low \o user) = Len(low) + Len(user)
          /\ \A k \in 1 .. Len(low) : (low \o user)[k] = low[k]
      BY <1>3, <1>5, WordAt, Zenon
    <2>2. extra + 2 \in 1 .. Len(low) /\ extra + 3 \in 1 .. Len(low)
      BY <1>4, <1>5
    <2> HIDE DEF low
    <2>3. /\ (low \o user)[extra + 2] = low[extra + 2]
          /\ (low \o user)[extra + 3] = low[extra + 3]
      BY <2>1, <2>2
    <2>4. Len(low) = extra + 3
      BY <1>5 DEF low
    <2>5. Len(low \o user) >= extra + 3
      BY <1>3, <1>4, <2>1, <2>4
    <2> QED BY <1>5, <2>1, <2>3, <2>5 DEF low
  <1>7. ProcessorWords(n, ring, flag) = (code \o top) \o user
    BY DEF ProcessorWords, code, top, user
  <1>8. 2 + extra = extra + 2 /\ 3 + extra = extra + 3
    BY <1>4
  <1> QED BY <1>6, <1>7, <1>8 DEF extra

\* The words the stubs push make the error code up where the processor has none.
LEMMA StubWordsOf ==
  ASSUME NEW n \in 0 .. 47 \cup {SyscallVector}, n \notin {21, 29}
  PROVE  /\ StubWords(n) \in Seq(Pushed)
         /\ Len(StubWords(n)) = IF PushesErrorCode(n) THEN 1 ELSE 2
         /\ n # SyscallVector => StubWords(n)[1] = n
  <1> n \in Pushed /\ 0 \in Pushed /\ SyscallVector \in Pushed
    BY DEF Pushed, SyscallVector
  <1>1. CASE n = SyscallVector
    BY <1>1 DEF StubWords, PushesErrorCode, SyscallVector
  <1>2. CASE n # SyscallVector /\ PushesErrorCode(n)
    <2>1. StubWords(n) = <<n>>
      BY <1>2 DEF StubWords, PushesErrorCode
    <2> QED BY <1>2, <2>1
  <1>3. CASE n # SyscallVector /\ ~ PushesErrorCode(n)
    <2>1. StubWords(n) = <<n, 0>>
      BY <1>3 DEF StubWords, PushesErrorCode
    <2> QED BY <1>3, <2>1
  <1> QED BY <1>1, <1>2, <1>3

\* registers_t lies over the words: what a handler reads is what was pushed, at
\* every vector but the two whose error code the stubs do not expect.
LEMMA RegsOf ==
  ASSUME NEW n \in 0 .. 47 \cup {SyscallVector}, n \notin {21, 29}, NEW ring \in {0, 3}, NEW flag \in BOOLEAN
  PROVE  /\ n # SyscallVector => Regs(n, ring, flag).interrupt_number = n
         /\ Regs(n, ring, flag).cs = ring
         /\ Regs(n, ring, flag).eflags = flag
  <1> DEFINE stub == StubWords(n)
             proc == ProcessorWords(n, ring, flag)
             words == CommonWords \o stub \o proc
             extra == IF PushesErrorCode(n) THEN 1 ELSE 0
  <1>1. CommonWords \in Seq(Pushed) /\ Len(CommonWords) = 9
    <2>1. 0 \in Pushed
      BY DEF Pushed
    <2> QED BY <2>1 DEF CommonWords
  <1>2. /\ stub \in Seq(Pushed) /\ Len(stub) = 2 - extra
        /\ n # SyscallVector => stub[1] = n
    <2>1. /\ stub \in Seq(Pushed)
          /\ Len(stub) = IF PushesErrorCode(n) THEN 1 ELSE 2
          /\ n # SyscallVector => stub[1] = n
      BY StubWordsOf, Zenon
    <2> HIDE DEF stub
    <2>2. Len(stub) = 2 - extra
      BY <2>1
    <2> QED BY <2>1, <2>2
  <1>3. /\ proc \in Seq(Pushed) /\ Len(proc) >= 3 + extra
        /\ proc[2 + extra] = ring /\ proc[3 + extra] = flag
    <2> DEFINE more == IF PushesErrorCode(n) THEN 1 ELSE 0
    <2>1. /\ ProcessorWords(n, ring, flag) \in Seq(Pushed)
          /\ Len(ProcessorWords(n, ring, flag)) >= 3 + more
          /\ ProcessorWords(n, ring, flag)[2 + more] = ring
          /\ ProcessorWords(n, ring, flag)[3 + more] = flag
      BY ProcessorWordsOf
    <2> QED BY <2>1
  <1>4. extra \in {0, 1}
    OBVIOUS
  <1> HIDE DEF stub, proc, extra
  <1>5. /\ CommonWords \o stub \in Seq(Pushed)
        /\ Len(CommonWords \o stub) = 11 - extra
        /\ n # SyscallVector => (CommonWords \o stub)[10] = n
    <2>1. /\ CommonWords \o stub \in Seq(Pushed)
          /\ Len(CommonWords \o stub) = Len(CommonWords) + Len(stub)
          /\ \A k \in 1 .. Len(stub) : (CommonWords \o stub)[Len(CommonWords) + k] = stub[k]
      BY <1>1, <1>2, WordAt, Zenon
    <2>2. 1 \in 1 .. Len(stub) /\ Len(CommonWords) + 1 = 10
      BY <1>1, <1>2, <1>4
    <2>3. (CommonWords \o stub)[10] = stub[1]
      BY <2>1, <2>2
    <2>4. Len(CommonWords \o stub) = 11 - extra
      BY <1>1, <1>2, <1>4, <2>1
    <2> QED BY <1>2, <2>1, <2>3, <2>4
  <1>6. /\ n # SyscallVector => words[10] = n
        /\ words[13] = ring /\ words[14] = flag
    <2> DEFINE low == CommonWords \o stub
    <2>1. /\ \A k \in 1 .. Len(low) : (low \o proc)[k] = low[k]
          /\ \A k \in 1 .. Len(proc) : (low \o proc)[Len(low) + k] = proc[k]
      BY <1>3, <1>5, WordAt, Zenon
    <2>2. 10 \in 1 .. Len(low) /\ Len(low) + (2 + extra) = 13 /\ Len(low) + (3 + extra) = 14
      BY <1>4, <1>5
    <2>3. 2 + extra \in 1 .. Len(proc) /\ 3 + extra \in 1 .. Len(proc)
      BY <1>3, <1>4
    <2> HIDE DEF low
    <2>4. (n # SyscallVector => (low \o proc)[10] = n) /\ (low \o proc)[13] = ring /\ (low \o proc)[14] = flag
      <3>1. (low \o proc)[10] = low[10]
        BY <2>1, <2>2
      <3>2. (low \o proc)[13] = proc[2 + extra]
        BY <2>1, <2>2, <2>3
      <3>3. (low \o proc)[14] = proc[3 + extra]
        BY <2>1, <2>2, <2>3
      <3> QED BY <1>3, <1>5, <3>1, <3>2, <3>3 DEF low
    <2> QED BY <2>4 DEF low
  <1> HIDE DEF words
  <1>7. /\ \A k \in DOMAIN registers_t : registers_t[k] = "interrupt_number" <=> k = 10
        /\ \A k \in DOMAIN registers_t : registers_t[k] = "cs" <=> k = 13
        /\ \A k \in DOMAIN registers_t : registers_t[k] = "eflags" <=> k = 14
        /\ DOMAIN registers_t = 1 .. 14
    BY DEF registers_t
  <1>8. /\ (CHOOSE k \in DOMAIN registers_t : registers_t[k] = "interrupt_number") = 10
        /\ (CHOOSE k \in DOMAIN registers_t : registers_t[k] = "cs") = 13
        /\ (CHOOSE k \in DOMAIN registers_t : registers_t[k] = "eflags") = 14
    BY <1>7
  <1>9. Regs(n, ring, flag) = [interrupt_number |-> words[10], cs |-> words[13], eflags |-> words[14]]
    BY <1>8 DEF Regs, words, stub, proc
  <1> QED BY <1>6, <1>9

-----------------------------------------------------------------------------
(* The invariant *)

\* The interrupts and exceptions the machine takes.
Vectors == {0, 14, 32, 33, 46, SyscallVector}

\* The frame of a handler entered with interrupts on, at vector n from ring.
Handler(n, ring, step) == [vector |-> n, regs |-> Regs(n, ring, TRUE), step |-> step]

OneFrame ==
  \E n \in Vectors, ring \in {0, 3}, step \in {"handler", "iret"} :
    frames = <<Handler(n, ring, step)>>

\* At most one handler, interrupts off in it, and what it answers in service.
IInv ==
  /\ frames = <<>> \/ OneFrame
  /\ enabled \in BOOLEAN /\ (enabled <=> frames = <<>>)
  /\ served = UNION {Answers(frames[k]) : k \in DOMAIN frames}
  /\ current \in Processes

\* What a handler answers: the line of its vector, through registers_t.
LEMMA HandlerAnswers ==
  ASSUME NEW n \in Vectors, NEW ring \in {0, 3}, NEW step
  PROVE  /\ Handler(n, ring, step).vector = n /\ Handler(n, ring, step).step = step
         /\ Handler(n, ring, step).regs.eflags = TRUE
         /\ n # SyscallVector => Handler(n, ring, step).regs.interrupt_number = n
         /\ Answers(Handler(n, ring, step)) =
              IF n \in 32 .. 47 /\ step = "handler" THEN {n - 32, Through(n - 32)} ELSE {}
  <1>1. n \in 0 .. 47 \cup {SyscallVector} /\ n \notin {21, 29}
    BY DEF Vectors, SyscallVector
  <1>2. /\ n # SyscallVector => Regs(n, ring, TRUE).interrupt_number = n
        /\ Regs(n, ring, TRUE).eflags = TRUE
    BY <1>1, RegsOf
  <1>3. /\ Handler(n, ring, step).vector = n /\ Handler(n, ring, step).step = step
        /\ Handler(n, ring, step).regs = Regs(n, ring, TRUE)
    BY DEF Handler
  <1>4. n \in 32 .. 47 => n # SyscallVector
    BY DEF SyscallVector
  <1> QED BY <1>2, <1>3, <1>4 DEF Answers

\* The lines in service when no handler, or one, has been entered.
LEMMA ServedByNone == UNION {Answers(<<>>[k]) : k \in DOMAIN <<>>} = {}
  <1>1. DOMAIN <<>> = {}
    OBVIOUS
  <1> QED BY <1>1

LEMMA ServedByOne ==
  ASSUME NEW f PROVE UNION {Answers(<<f>>[k]) : k \in DOMAIN <<f>>} = Answers(f)
  <1>1. DOMAIN <<f>> = {1} /\ <<f>>[1] = f
    OBVIOUS
  <1> QED BY <1>1

\* A program with interrupts on enters a handler.
LEMMA EnterStep ==
  ASSUME IInv, frames = <<>>, NEW n \in Vectors, NEW ring \in {0, 3}, Enter(n, ring)
  PROVE  /\ enabled' = FALSE
         /\ frames' = <<Handler(n, ring, "handler")>>
  <1>1. enabled = TRUE
    BY DEF IInv
  <1>2. n \in Nat
    BY DEF Vectors, SyscallVector
  <1>3. enabled' = FALSE
    BY <1>2, GatesClear DEF Enter
  <1>4. Frame(n, ring) = Handler(n, ring, "handler")
    BY <1>1 DEF Frame, Handler
  <1>5. frames' = <<Frame(n, ring)>>
    BY DEF Enter
  <1> QED BY <1>3, <1>4, <1>5

\* The shape every step but iret leaves behind.
LEMMA ToOneFrame ==
  ASSUME NEW n \in Vectors, NEW ring \in {0, 3}, NEW step \in {"handler", "iret"},
         frames' = <<Handler(n, ring, step)>>, enabled' = FALSE,
         served' = Answers(Handler(n, ring, step)), current' \in Processes
  PROVE  IInv'
  <1>1. OneFrame'
    BY DEF OneFrame
  <1>2. frames' # <<>>
    OBVIOUS
  <1>3. UNION {Answers(frames'[k]) : k \in DOMAIN frames'} = Answers(Handler(n, ring, step))
    BY ServedByOne
  <1> QED BY <1>1, <1>2, <1>3 DEF IInv

\* The one handler of a state in which there is one.
LEMMA FromOneFrame ==
  ASSUME IInv, frames # <<>>
  PROVE  \E n \in Vectors, ring \in {0, 3}, step \in {"handler", "iret"} :
           /\ frames = <<Handler(n, ring, step)>> /\ enabled = FALSE
           /\ frames[1].vector = n /\ frames[1].step = step
           /\ frames[1].regs.eflags = TRUE
           /\ n # SyscallVector => frames[1].regs.interrupt_number = n
           /\ served = IF n \in 32 .. 47 /\ step = "handler"
                       THEN {n - 32, Through(n - 32)} ELSE {}
  <1>1. PICK n \in Vectors, ring \in {0, 3}, step \in {"handler", "iret"} :
          frames = <<Handler(n, ring, step)>>
    BY DEF IInv, OneFrame
  <1> DEFINE h == Handler(n, ring, step)
  <1>2. /\ h.vector = n /\ h.step = step /\ h.regs.eflags = TRUE
        /\ n # SyscallVector => h.regs.interrupt_number = n
        /\ Answers(h) = IF n \in 32 .. 47 /\ step = "handler"
                        THEN {n - 32, Through(n - 32)} ELSE {}
    <2> n \in 0 .. 47 \cup {SyscallVector} /\ n \notin {21, 29}
      BY DEF Vectors, SyscallVector
    <2> DEFINE r == Regs(n, ring, TRUE)
    <2>1. r.eflags = TRUE /\ (n # SyscallVector => r.interrupt_number = n)
      BY RegsOf
    <2> HIDE DEF r
    <2>2. h.vector = n /\ h.step = step /\ h.regs = r
      BY DEF Handler, r
    <2>3. n \in 32 .. 47 => n # SyscallVector
      BY DEF SyscallVector
    <2> HIDE DEF h
    <2> QED BY <2>1, <2>2, <2>3 DEF Answers
  <1>3. UNION {Answers(frames[k]) : k \in DOMAIN frames} = Answers(h)
    BY <1>1, ServedByOne
  <1>4. frames[1] = h
    BY <1>1
  <1>5. served = Answers(h) /\ enabled = FALSE
    BY <1>1, <1>3 DEF IInv
  <1> HIDE DEF h
  <1>6. /\ frames[1].vector = n /\ frames[1].step = step /\ frames[1].regs.eflags = TRUE
        /\ n # SyscallVector => frames[1].regs.interrupt_number = n
    BY <1>2, <1>4
  <1> QED BY <1>1, <1>2, <1>5, <1>6

\* A program is interrupted.
LEMMA AcceptStep ==
  ASSUME IInv, NEW line \in Lines, accept(line)
  PROVE  IInv'
  <1> DEFINE n == pic_remap(line)
             ring == Ring(current)
  <1>1. line \in {0, 1, 14}
    BY ConsoleAssumption
  <1>2. n \in Vectors /\ n \in 32 .. 47 /\ n - 32 = line
    BY <1>1 DEF pic_remap, Vectors
  <1>3. ring \in {0, 3}
    BY DEF Ring
  <1>4. frames = <<>> /\ served = {}
    <2>1. frames = <<>>
      BY DEF accept, interrupt, IInv
    <2> QED BY <2>1, ServedByNone DEF IInv
  <1>5. Enter(n, ring) /\ served' = {line, Through(line)} /\ current' \in Processes
    BY <1>4 DEF accept, interrupt, IInv
  <1> HIDE DEF n, ring
  <1>6. enabled' = FALSE /\ frames' = <<Handler(n, ring, "handler")>>
    BY <1>2, <1>3, <1>4, <1>5, EnterStep
  <1>7. Answers(Handler(n, ring, "handler")) = {line, Through(line)}
    <2>1. Answers(Handler(n, ring, "handler")) =
            IF n \in 32 .. 47 /\ "handler" = "handler" THEN {n - 32, Through(n - 32)} ELSE {}
      BY <1>2, <1>3, HandlerAnswers, ZenonT(40)
    <2> QED BY <1>2, <2>1
  <1> QED BY <1>2, <1>3, <1>5, <1>6, <1>7, ToOneFrame

\* A program calls the kernel, or faults.
LEMMA TrapStep ==
  ASSUME IInv, frames = <<>>, NEW n \in {0, 14, SyscallVector}, NEW does, Trap(n, does),
         current' = current
  PROVE  IInv'
  <1> DEFINE ring == Ring(current)
  <1>1. n \in Vectors /\ n \notin 32 .. 47
    BY DEF Vectors, SyscallVector
  <1>2. ring \in {0, 3}
    BY DEF Ring
  <1>3. served = {}
    BY ServedByNone DEF IInv
  <1>4. Enter(n, ring) /\ served' = {} /\ current' \in Processes
    BY <1>3 DEF Trap, IInv
  <1> HIDE DEF ring
  <1>5. enabled' = FALSE /\ frames' = <<Handler(n, ring, "handler")>>
    BY <1>1, <1>2, <1>4, EnterStep
  <1>6. Answers(Handler(n, ring, "handler")) = {}
    BY <1>1, <1>2, HandlerAnswers, Zenon
  <1> QED BY <1>1, <1>2, <1>4, <1>5, <1>6, ToOneFrame

\* A handler ends: its frame stays, to be left by iret.
LEMMA ReturnStep ==
  ASSUME NEW n \in Vectors, NEW ring \in {0, 3}, frames = <<Handler(n, ring, "handler")>>,
         enabled = FALSE, Returns, UNCHANGED enabled, served' = {}, current' \in Processes
  PROVE  IInv'
  <1>1. frames' = <<Handler(n, ring, "iret")>>
    <2>1. frames' = <<[frames[1] EXCEPT !.step = "iret"]>>
      BY DEF Returns
    <2>2. [Handler(n, ring, "handler") EXCEPT !.step = "iret"] = Handler(n, ring, "iret")
      <3> DEFINE r == Regs(n, ring, TRUE)
      <3> HIDE DEF r
      <3>1. [[vector |-> n, regs |-> r, step |-> "handler"] EXCEPT !.step = "iret"] =
              [vector |-> n, regs |-> r, step |-> "iret"]
        OBVIOUS
      <3> QED BY <3>1 DEF Handler, r
    <2> QED BY <2>1, <2>2
  <1>2. Answers(Handler(n, ring, "iret")) = {}
    <2>1. Answers(Handler(n, ring, "iret")) =
            IF n \in 32 .. 47 /\ "iret" = "handler" THEN {n - 32, Through(n - 32)} ELSE {}
      BY HandlerAnswers, Zenon
    <2> QED BY <2>1
  <1> QED BY <1>1, <1>2, ToOneFrame

\* irq_handler ends the interrupt of the line it was entered for, and no other.
LEMMA EndOfIrqStep ==
  ASSUME IInv, NEW line \in {0, 1, 14}, NEW again, Irq(line), EndOfIrq(line, again),
         current' \in Processes
  PROVE  IInv'
  <1>1. PICK n \in Vectors, ring \in {0, 3}, step \in {"handler", "iret"} :
          /\ frames = <<Handler(n, ring, step)>> /\ enabled = FALSE
          /\ frames[1].vector = n /\ frames[1].step = step
          /\ frames[1].regs.eflags = TRUE
          /\ n # SyscallVector => frames[1].regs.interrupt_number = n
          /\ served = IF n \in 32 .. 47 /\ step = "handler"
                      THEN {n - 32, Through(n - 32)} ELSE {}
    BY FromOneFrame DEF Irq
  <1>2. n \in 32 .. 47 /\ step = "handler" /\ n - 32 = line
    <2>1. n \in 32 .. 47 /\ step = "handler"
      BY <1>1 DEF Irq
    <2>2. n # SyscallVector
      BY <2>1 DEF SyscallVector
    <2> QED BY <1>1, <2>1, <2>2 DEF Irq
  <1>3. served = {line, Through(line)}
    BY <1>1, <1>2
  <1>4. pic_send_eoi(line) = {}
    <2>1. CASE line = 14
      <3>1. served = {14, 2}
        BY <1>3, <2>1 DEF Through
      <3>2. served \cap 0 .. 7 = {2} /\ served \cap 8 .. 15 = {14}
        BY <3>1
      <3>3. First({2}) = 2 /\ First({14}) = 14
        BY DEF First
      <3> QED BY <2>1, <3>1, <3>2, <3>3 DEF pic_send_eoi
    <2>2. CASE line \in {0, 1}
      <3>1. served = {line}
        BY <1>3, <2>2 DEF Through
      <3>2. line \in 0 .. 7
        BY <2>2
      <3>3. First({line}) = line
        BY <2>2 DEF First
      <3>4. served \cap 0 .. 7 = {line}
        BY <3>1, <3>2, Zenon
      <3> QED BY <2>2, <3>1, <3>3, <3>4 DEF pic_send_eoi
    <2> QED BY <2>1, <2>2
  <1>5. served' = {} /\ Returns /\ UNCHANGED enabled
    BY <1>4 DEF EndOfIrq
  <1> QED BY <1>1, <1>2, <1>5, ReturnStep

\* The handlers of system calls and exceptions end.
LEMMA HandledStep ==
  ASSUME IInv, NEW names, Handling(names), Returns, UNCHANGED <<enabled, served>>,
         current' \in Processes
  PROVE  IInv'
  <1>1. PICK n \in Vectors, ring \in {0, 3}, step \in {"handler", "iret"} :
          /\ frames = <<Handler(n, ring, step)>> /\ enabled = FALSE
          /\ frames[1].vector = n /\ frames[1].step = step
          /\ frames[1].regs.eflags = TRUE
          /\ n # SyscallVector => frames[1].regs.interrupt_number = n
          /\ served = IF n \in 32 .. 47 /\ step = "handler"
                      THEN {n - 32, Through(n - 32)} ELSE {}
    BY FromOneFrame DEF Handling
  <1>2. n \notin 32 .. 47 /\ step = "handler"
    BY <1>1 DEF Handling
  <1>3. served = {}
    BY <1>1, <1>2
  <1> QED BY <1>1, <1>2, <1>3, ReturnStep

\* iret goes back to the program, interrupts on as it had them.
LEMMA IretStep ==
  ASSUME IInv, iret, current' \in Processes
  PROVE  IInv'
  <1>1. PICK n \in Vectors, ring \in {0, 3}, step \in {"handler", "iret"} :
          /\ frames = <<Handler(n, ring, step)>> /\ enabled = FALSE
          /\ frames[1].vector = n /\ frames[1].step = step
          /\ frames[1].regs.eflags = TRUE
          /\ n # SyscallVector => frames[1].regs.interrupt_number = n
          /\ served = IF n \in 32 .. 47 /\ step = "handler"
                      THEN {n - 32, Through(n - 32)} ELSE {}
    BY FromOneFrame DEF iret
  <1>2. step = "iret"
    BY <1>1 DEF iret
  <1>3. served = {}
    BY <1>1, <1>2
  <1>4. frames' = <<>>
    BY <1>1 DEF iret
  <1>5. enabled' = TRUE
    BY <1>1 DEF iret
  <1>6. UNION {Answers(frames'[k]) : k \in DOMAIN frames'} = {}
    BY <1>4, ServedByNone
  <1>7. served' = {}
    BY <1>3 DEF iret
  <1> QED BY <1>4, <1>5, <1>6, <1>7 DEF IInv

\* The rest leaves the processor's side alone, but for what devices raise.
LEMMA QuietStep ==
  ASSUME IInv, UNCHANGED <<enabled, frames, served, current>>
  PROVE  IInv'
  BY DEF IInv, OneFrame

LEMMA ReadyProcesses ==
  ASSUME NEW r, NEW s PROVE Ready(r, s) \subseteq Processes
  BY DEF Ready, Processes, KernelProcesses

-----------------------------------------------------------------------------
LEMMA InitIInv == Init => IInv
  <1> SUFFICES ASSUME Init PROVE IInv
    OBVIOUS
  <1>1. frames = <<>> /\ enabled = TRUE /\ served = {} /\ current = "kernel_main"
    BY DEF Init, InterruptsOn
  <1>2. UNION {Answers(frames[k]) : k \in DOMAIN frames} = {}
    BY <1>1, ServedByNone
  <1> QED BY <1>1, <1>2 DEF IInv, Processes, KernelProcesses

\* Every step keeps the invariant.
LEMMA NextIInv == ASSUME IInv, [Next]_vars PROVE IInv'
  <1>1. CASE UNCHANGED vars
    BY <1>1, QuietStep DEF vars, intrVars
  <1>2. CASE kernel_prints
    BY <1>2, QuietStep DEF kernel_prints, intrVars
  <1>3. CASE press
    BY <1>3, QuietStep DEF press, raise
  <1>4. CASE tick
    BY <1>4, QuietStep DEF tick, raise
  <1>5. CASE leave
    BY <1>5, IretStep DEF leave, IInv
  <1>6. CASE \E line \in Lines : accept(line)
    BY <1>6, AcceptStep
  <1>7. CASE irq_timer
    <2>1. current' \in Processes
      BY <1>7, ReadyProcesses DEF irq_timer
    <2> QED BY <1>7, <2>1, EndOfIrqStep DEF irq_timer
  <1>8. CASE irq_other
    BY <1>8, EndOfIrqStep DEF irq_other, IInv
  <1>9. CASE irq_keyboard
    BY <1>9, EndOfIrqStep DEF irq_keyboard, IInv
  <1>10. CASE handler_prints
    BY <1>10, QuietStep DEF handler_prints, intrVars
  <1>11. CASE syscall_ends
    BY <1>11, HandledStep DEF syscall_ends, IInv
  <1>12. CASE syscall_read
    <2>1. current' \in Processes
      BY <1>12, ReadyProcesses DEF syscall_read
    <2> QED BY <1>12, <2>1, HandledStep DEF syscall_read
  <1>13. CASE syscall_run
    <2>1. current' \in Processes
      BY <1>13, ReadyProcesses DEF syscall_run, IInv
    <2> QED BY <1>13, <2>1, HandledStep DEF syscall_run
  <1>14. CASE child_ends
    <2>1. current' \in Processes
      BY <1>14, ReadyProcesses DEF child_ends
    <2> QED BY <1>14, <2>1, HandledStep DEF child_ends
  <1>15. CASE child_exits \/ child_faults
    BY <1>15, TrapStep DEF child_exits, child_faults, Runs
  <1>16. CASE shell_writes \/ shell_reads \/ command_fs_ops \/ command_run \/ command_opens
                \/ data_reads \/ data_stores
    BY <1>16, TrapStep DEF shell_writes, shell_reads, command_fs_ops, command_run,
       command_opens, data_reads, data_stores, Commanded, At, Runs
  <1>17. CASE shell_evaluates \/ command_fails \/ shell_ran \/ data_appends
    BY <1>17, QuietStep DEF shell_evaluates, command_fails, shell_ran, data_appends, intrVars
  <1> QED BY <1>1, <1>2, <1>3, <1>4, <1>5, <1>6, <1>7, <1>8, <1>9, <1>10, <1>11, <1>12,
             <1>13, <1>14, <1>15, <1>16, <1>17 DEF Next

\* The invariant says what HandlersSerial asks for.
LEMMA IInvSerial == IInv => HandlersSerial
  <1> SUFFICES ASSUME IInv PROVE HandlersSerial
    OBVIOUS
  <1>1. Len(frames) <= 1
    <2>1. CASE frames = <<>>
      BY <2>1
    <2>2. CASE OneFrame
      <3>1. PICK f : frames = <<f>>
        BY <2>2 DEF OneFrame
      <3> QED BY <3>1
    <2> QED BY <2>1, <2>2 DEF IInv
  <1> QED BY <1>1 DEF IInv, HandlersSerial

\* Whatever the screen, the commands and the sessions are: no handler is ever
\* interrupted by another, and a line is in service exactly while the handler
\* that its stub's words select answers it.
THEOREM HandlersSerialHolds == Spec => []HandlersSerial
  <1>1. Init => IInv
    BY InitIInv
  <1>2. IInv /\ [Next]_vars => IInv'
    BY NextIInv
  <1>3. IInv => HandlersSerial
    BY IInvSerial
  <1> QED BY <1>1, <1>2, <1>3, PTL DEF Spec
-----------------------------------------------------------------------------
(* Numbers *)

\* Every nonempty set of natural numbers has a least element.
LEMMA LeastNumber ==
  ASSUME NEW T, T \subseteq Nat, T # {}
  PROVE  \E m \in T : \A k \in T : m <= k
<1> DEFINE Less == OpToRel(<, Nat)
<1>1. IsWellFoundedOn(Less, Nat)
  BY NatLessThanWellFounded
<1>2. \A i, j \in Nat : i < j => <<i, j>> \in Less
  BY DEF OpToRel
<1> HIDE DEF Less
<1>3. PICK m \in T : \A k \in T : ~ (<<k, m>> \in Less)
  BY <1>1, WFMin
<1>4. \A k \in T : ~ (k < m)
  BY <1>2, <1>3
<1>5. QED
  BY <1>4

\* Induction up to a number, for a set of numbers.
LEMMA UpTo ==
  ASSUME NEW n \in Nat, NEW T, 0 \in T, \A k \in 0 .. n - 1 : k \in T => k + 1 \in T
  PROVE  \A k \in 0 .. n : k \in T
<1> DEFINE Bad == {k \in 0 .. n : k \notin T}
<1> SUFFICES ASSUME Bad # {} PROVE FALSE
  OBVIOUS
<1>0. Bad \subseteq Nat /\ Bad # {}
  OBVIOUS
<1>1. PICK m \in Bad : \A k \in Bad : m <= k
  BY <1>0, LeastNumber
<1>2. m # 0 /\ m - 1 \in 0 .. n - 1 /\ m - 1 \in 0 .. n
  OBVIOUS
<1>3. m - 1 \in T
  BY <1>1, <1>2
<1>4. QED
  BY <1>2, <1>3

LEMMA SizeIs ==
  /\ Size \in Nat \ {0} /\ Word \in Nat /\ Word > 2 * Size
  /\ Width \in Nat \ {0} /\ Height \in Nat \ {0} /\ Width <= Size /\ Size = Height * Width
  /\ Cells = 0 .. Size - 1
<1>1. Width \in Nat \ {0} /\ Height \in Nat \ {0} /\ Word \in Nat /\ Word > 2 * Width * Height
  BY TerminalAssumption
<1>2. PICK h \in Nat : Height = h + 1
  <2>1. Height - 1 \in Nat /\ Height = (Height - 1) + 1
    BY <1>1
  <2>2. QED
    BY <2>1
<1>3. (h + 1) * Width = h * Width + Width /\ h * Width \in Nat /\ Width * (h + 1) = (h + 1) * Width
      /\ 2 * Width * (h + 1) = 2 * (Width * (h + 1))
  BY <1>1
<1>4. Size \in Nat \ {0} /\ Width <= Size /\ Size = Height * Width /\ Word > 2 * Size
  BY <1>1, <1>2, <1>3 DEF Size
<1>5. QED
  BY <1>1, <1>4 DEF Cells

LEMMA Division ==
  ASSUME NEW n \in Nat \ {0}, NEW p \in Nat
  PROVE  p \div n \in Nat /\ p = n * (p \div n) + (p % n) /\ p % n \in 0 .. n - 1
  OBVIOUS

\* A number below twice the screen's size, brought back onto it.
LEMMA Around ==
  ASSUME NEW n \in Nat \ {0}, NEW p \in Nat, p < 2 * n
  PROVE  p % n = IF p < n THEN p ELSE p - n
<1>1. p \div n \in Nat /\ p = n * (p \div n) + (p % n) /\ p % n \in 0 .. n - 1
  BY Division
<1>2. PICK q \in Nat : q = p \div n
  BY <1>1
<1>3. PICK r \in 0 .. n - 1 : r = p % n
  BY <1>1
<1>4. p = n * q + r
  BY <1>1, <1>2, <1>3
<1>5. q \in {0, 1}
  <2>1. SUFFICES ASSUME q >= 2 PROVE FALSE
    OBVIOUS
  <2>2. PICK k \in Nat : q = 2 + k
    <3>1. q - 2 \in Nat /\ q = 2 + (q - 2)
      BY <2>1
    <3>2. QED
      BY <3>1
  <2>3. n * (2 + k) = 2 * n + n * k /\ n * k \in Nat
    OBVIOUS
  <2>4. QED
    BY <1>4, <2>2, <2>3
<1>6. CASE q = 0
  <2>1. n * 0 = 0
    OBVIOUS
  <2>2. p = r
    BY <1>4, <1>6, <2>1
  <2>3. QED
    BY <1>3, <2>2
<1>7. CASE q = 1
  <2>1. n * 1 = n
    OBVIOUS
  <2>2. p = n + r
    BY <1>4, <1>7, <2>1
  <2>3. QED
    BY <1>3, <2>2
<1>8. QED
  BY <1>5, <1>6, <1>7

\* Cells less than a screen apart are different cells.
LEMMA Apart ==
  ASSUME NEW n \in Nat \ {0}, NEW f \in 0 .. n - 1, NEW i \in 0 .. n - 1, NEW j \in 0 .. n - 1, i # j
  PROVE  (f + i) % n # (f + j) % n
<1>1. PICK p \in Nat : p = f + i
  OBVIOUS
<1>2. PICK q \in Nat : q = f + j
  OBVIOUS
<1>3. p % n = IF p < n THEN p ELSE p - n
  <2>1. p < 2 * n
    BY <1>1
  <2>2. QED
    BY <2>1, Around
<1>4. q % n = IF q < n THEN q ELSE q - n
  <2>1. q < 2 * n
    BY <1>2
  <2>2. QED
    BY <2>1, Around
<1>5. (IF p < n THEN p ELSE p - n) # (IF q < n THEN q ELSE q - n)
  BY <1>1, <1>2
<1>6. QED
  BY <1>1, <1>2, <1>3, <1>4, <1>5

-----------------------------------------------------------------------------
(* The screen *)

Screen(t) ==
  /\ DOMAIN t = {"row", "column", "cells"}
  /\ t.row \in Nat /\ t.column \in 0 .. Word - 1
  /\ DOMAIN t.cells = Cells

OnScreen(t) == t.row \in 0 .. Height - 1 /\ t.column \in 0 .. Width - 1

\* u is t with the cursor elsewhere.
Moved(t, u) == Screen(u) /\ u.cells = t.cells

\* u is t with the cursor set.
SetTo(t, u, r, c) == Moved(t, u) /\ u.row = r /\ u.column = c

LEMMA MovedTo ==
  ASSUME NEW t, Screen(t), NEW r \in Nat, NEW c \in 0 .. Word - 1
  PROVE  SetTo(t, [t EXCEPT !.row = r, !.column = c], r, c)
<1> DEFINE u == [t EXCEPT !.row = r, !.column = c]
<1>1. u.row = r /\ u.column = c /\ u.cells = t.cells /\ DOMAIN u = {"row", "column", "cells"}
  BY DEF Screen
<1> HIDE DEF u
<1>2. Screen(u)
  BY <1>1 DEF Screen
<1>3. QED
  BY <1>1, <1>2 DEF SetTo, Moved, u

LEMMA IndexIs == ASSUME NEW t, Screen(t) PROVE Index(t) \in Nat /\ Index(t) < Word
<1>1. PICK r \in Nat, c \in Nat : r = t.row /\ c = t.column
  BY SizeIs DEF Screen
<1>2. r * Width + c \in Nat /\ Word \in Nat \ {0}
  BY SizeIs
<1>3. (r * Width + c) % Word \in Nat /\ (r * Width + c) % Word < Word
  BY <1>2
<1>4. QED
  BY <1>1, <1>3 DEF Index

\* On the screen the cursor is where row and column say.
LEMMA IndexOn ==
  ASSUME NEW t, Screen(t), OnScreen(t)
  PROVE  Index(t) = t.row * Width + t.column /\ Index(t) \in Cells
<1>1. PICK r \in 0 .. Height - 1 : r = t.row
  BY DEF OnScreen
<1>2. PICK c \in 0 .. Width - 1 : c = t.column
  BY DEF OnScreen
<1>3. PICK h \in Nat : Height = r + 1 + h
  <2>1. Height - (r + 1) \in Nat /\ Height = r + 1 + (Height - (r + 1))
    BY <1>1, SizeIs
  <2>2. QED
    BY <2>1
<1>4. (r + 1 + h) * Width = r * Width + Width + h * Width /\ h * Width \in Nat /\ r * Width \in Nat
  BY <1>1, SizeIs
<1>5. r * Width + c < Size /\ r * Width + c \in Nat
  BY <1>2, <1>3, <1>4, SizeIs
<1>6. (r * Width + c) % Word = r * Width + c
  BY <1>5, SizeIs
<1>7. QED
  BY <1>1, <1>2, <1>5, <1>6, SizeIs DEF Index

\* The driver's row and column for a position are on the screen.
LEMMA PlacedOn ==
  ASSUME NEW t, Screen(t), NEW p \in Nat
  PROVE  /\ Moved(t, Placed(t, p)) /\ OnScreen(Placed(t, p))
         /\ \E a \in Nat : p = Size * a + Index(Placed(t, p))
<1> DEFINE u == Placed(t, p)
           q == p \div Width
           c == p % Width
           r == q % Height
<1>1. u = [t EXCEPT !.row = r, !.column = c]
  BY DEF Placed
<1>2. /\ q \in Nat /\ c \in 0 .. Width - 1 /\ p = Width * q + c /\ r \in 0 .. Height - 1
  BY Division, SizeIs
<1>3. PICK a \in Nat : q = Height * a + r
  <2>1. q = Height * (q \div Height) + r /\ q \div Height \in Nat
    BY <1>2, Division, SizeIs
  <2>2. QED
    BY <2>1
<1> HIDE DEF u, q, c, r
<1>4. u.row = r /\ u.column = c /\ Moved(t, u)
  <2>1. c \in 0 .. Word - 1 /\ r \in Nat
    BY <1>2, SizeIs
  <2>2. SetTo(t, [t EXCEPT !.row = r, !.column = c], r, c)
    BY <2>1, MovedTo
  <2>3. SetTo(t, u, r, c)
    BY <1>1, <2>2, Zenon
  <2>4. QED
    BY <2>3 DEF SetTo
<1>5. OnScreen(u) /\ Screen(u)
  BY <1>2, <1>4 DEF OnScreen, Moved
<1>6. Index(u) = r * Width + c /\ Index(u) \in 0 .. Size - 1
  BY <1>4, <1>5, IndexOn, SizeIs
<1>7. p = Size * a + Index(u)
  <2>1. Width * (Height * a + r) = (Height * Width) * a + r * Width
    BY <1>2, SizeIs
  <2>2. QED
    BY <1>2, <1>3, <1>6, <2>1, SizeIs
<1>8. QED
  BY <1>4, <1>5, <1>7 DEF u

\* Up to two screens, they are the position brought back onto the screen.
LEMMA PlacedIs ==
  ASSUME NEW t, Screen(t), NEW p \in Nat, p < 2 * Size
  PROVE  Index(Placed(t, p)) = p % Size
<1> DEFINE u == Placed(t, p)
<1>1. Screen(u) /\ OnScreen(u)
  BY PlacedOn DEF Moved
<1>2. PICK a \in Nat : p = Size * a + Index(u)
  BY PlacedOn
<1> HIDE DEF u
<1>3. Index(u) \in 0 .. Size - 1
  BY <1>1, IndexOn, SizeIs
<1>4. a \in {0, 1}
  <2>1. SUFFICES ASSUME a >= 2 PROVE FALSE
    OBVIOUS
  <2>2. PICK k \in Nat : a = 2 + k
    <3>1. a - 2 \in Nat /\ a = 2 + (a - 2)
      BY <2>1
    <3>2. QED
      BY <3>1
  <2>3. Size * (2 + k) = 2 * Size + Size * k /\ Size * k \in Nat
    BY SizeIs
  <2>4. QED
    BY <1>2, <1>3, <2>2, <2>3, SizeIs
<1>5. Size * 0 = 0 /\ Size * 1 = Size
  BY SizeIs
<1>6. p = Index(u) \/ p = Size + Index(u)
  BY <1>2, <1>3, <1>4, <1>5, SizeIs
<1>7. p % Size = IF p < Size THEN p ELSE p - Size
  BY Around, SizeIs
<1>8. QED
  BY <1>3, <1>6, <1>7, SizeIs DEF u

\* u is t with c in the cell under the cursor.
Put(t, u, c) ==
  /\ Screen(u) /\ u.row = t.row /\ u.column = t.column
  /\ \A i \in Cells : u.cells[i] = IF i = Index(t) THEN c ELSE t.cells[i]

LEMMA PutcharIs ==
  ASSUME NEW t, Screen(t), NEW c
  PROVE  Put(t, vga_text_putchar(t, c), c)
<1> DEFINE cells == [i \in Cells |-> IF i = Index(t) THEN c ELSE t.cells[i]]
<1>1. vga_text_putchar(t, c) = [t EXCEPT !.cells = cells]
  BY DEF vga_text_putchar
<1>2. DOMAIN cells = Cells /\ \A i \in Cells : cells[i] = IF i = Index(t) THEN c ELSE t.cells[i]
  OBVIOUS
<1> HIDE DEF cells
<1> DEFINE u == [t EXCEPT !.cells = cells]
<1>3. u.row = t.row /\ u.column = t.column /\ u.cells = cells /\ DOMAIN u = {"row", "column", "cells"}
  BY DEF Screen
<1> HIDE DEF u
<1>4. Put(t, u, c)
  BY <1>2, <1>3 DEF Put, Screen
<1>5. QED
  BY <1>1, <1>4 DEF u

LEMMA NewLineIs ==
  ASSUME NEW t, Screen(t)
  PROVE  Moved(t, NewLine(t))
<1>1. t.row \in Nat
  BY DEF Screen
<1> DEFINE r == (t.row + 1) % Height
<1>2. r \in Nat /\ 0 \in 0 .. Word - 1
  BY <1>1, SizeIs
<1> DEFINE u == [t EXCEPT !.column = 0, !.row = r]
<1>3. NewLine(t) = u
  BY DEF NewLine, Screen
<1> HIDE DEF r
<1>4. u.row = r /\ u.column = 0 /\ u.cells = t.cells /\ DOMAIN u = {"row", "column", "cells"}
  BY DEF Screen
<1> HIDE DEF u
<1>5. Moved(t, u)
  BY <1>2, <1>4 DEF Moved, Screen
<1>6. QED
  BY <1>3, <1>5, Zenon

LEMMA ClearIs ==
  ASSUME NEW t
  PROVE  Screen(vga_text_clear(t))
  BY SizeIs DEF vga_text_clear, Screen

LEMMA DigitIs ==
  ASSUME NEW t, Screen(t), NEW text, NEW c
  PROVE  Screen(Digit(t, text, c))
<1> DEFINE p == vga_text_putchar(t, c)
<1>1. Screen(p)
  BY PutcharIs DEF Put
<1> HIDE DEF p
<1> DEFINE n == (p.column + 1) % Word
<1>2. n \in 0 .. Word - 1
  <2>1. \A a \in Nat, w \in Nat \ {0} : a % w \in 0 .. w - 1
    OBVIOUS
  <2>2. p.column + 1 \in Nat /\ Word \in Nat \ {0}
    BY <1>1, SizeIs DEF Screen
  <2>3. QED
    BY <2>1, <2>2
<1>3. [p EXCEPT !.column = (@ + 1) % Word] = [p EXCEPT !.column = n]
  OBVIOUS
<1> HIDE DEF n
<1>4. Screen([p EXCEPT !.column = (@ + 1) % Word])
  <2> DEFINE u == [p EXCEPT !.column = n]
  <2>1. u.row = p.row /\ u.column = n /\ u.cells = p.cells /\ DOMAIN u = {"row", "column", "cells"}
    BY <1>1 DEF Screen
  <2> HIDE DEF u
  <2>2. Screen(u)
    BY <1>1, <1>2, <2>1 DEF Screen
  <2>3. QED
    BY <1>3, <2>2 DEF u
<1>5. QED
  BY <1>1, <1>4 DEF Digit, PutDigit, p
\* A writer in the middle of a string.
Writer(w) ==
  /\ DOMAIN w = {"terminal", "pos"}
  /\ Screen(w.terminal) /\ w.pos \in Nat

LEMMA WriterIs ==
  ASSUME NEW t, Screen(t), NEW p \in Nat PROVE Writer([terminal |-> t, pos |-> p])
  BY DEF Writer

\* u is t with c written where the cursor was, and the cursor at position p.
Wrote(t, u, c, p) ==
  /\ Screen(u) /\ OnScreen(u) /\ Index(u) = p % Size
  /\ \A i \in Cells : u.cells[i] = IF i = Index(t) THEN c ELSE t.cells[i]

LEMMA WriteCharTyped ==
  ASSUME NEW w, Writer(w), NEW c PROVE Writer(WriteChar(w, c))
<1> DEFINE next == (w.pos + 1) % Word
           t == w.terminal
<1>1. Screen(t) /\ next \in Nat
  BY SizeIs DEF Writer
<1>2. CASE c = "\n"
  <2> DEFINE n == NewLine(t)
  <2>1. Screen(n)
    BY <1>1, NewLineIs DEF Moved
  <2>2. WriteChar(w, c) = [w EXCEPT !.terminal = n]
    BY <1>2 DEF WriteChar
  <2> HIDE DEF n
  <2> DEFINE u == [w EXCEPT !.terminal = n]
  <2>3. u.terminal = n /\ u.pos = w.pos /\ DOMAIN u = {"terminal", "pos"}
    BY DEF Writer
  <2> HIDE DEF u
  <2>4. Writer(u)
    BY <2>1, <2>3 DEF Writer
  <2>5. QED
    BY <2>2, <2>4 DEF u
<1>3. CASE c # "\n"
  <2> DEFINE v == vga_text_putchar(t, c)
  <2>1. Screen(v)
    BY <1>1, PutcharIs DEF Put
  <2>2. WriteChar(w, c) = [terminal |-> Placed(v, next), pos |-> next]
    BY <1>3 DEF WriteChar
  <2> HIDE DEF v, next
  <2>3. Screen(Placed(v, next))
    BY <1>1, <2>1, PlacedOn DEF Moved
  <2>4. QED
    BY <1>1, <2>2, <2>3, WriterIs
<1>4. QED
  BY <1>2, <1>3

\* One character, as long as the position stays below two screens.
LEMMA WriteCharIs ==
  ASSUME NEW t, Screen(t), NEW p \in Nat, p + 1 < 2 * Size, NEW c, c # "\n"
  PROVE  LET u == WriteChar([terminal |-> t, pos |-> p], c)
         IN  u.pos = p + 1 /\ Wrote(t, u.terminal, c, p + 1)
<1> DEFINE v == vga_text_putchar(t, c)
           u == Placed(v, p + 1)
<1>1. (p + 1) % Word = p + 1
  BY SizeIs
<1>2. WriteChar([terminal |-> t, pos |-> p], c) = [terminal |-> u, pos |-> p + 1]
  BY <1>1 DEF WriteChar
<1>3. Put(t, v, c)
  BY PutcharIs
<1> HIDE DEF v
<1>4. Screen(v) /\ p + 1 \in Nat
  BY <1>3 DEF Put
<1>5. Screen(u) /\ OnScreen(u) /\ u.cells = v.cells
  BY <1>4, PlacedOn DEF Moved
<1>6. Index(u) = (p + 1) % Size
  BY <1>4, PlacedIs
<1> HIDE DEF u
<1>7. Wrote(t, u, c, p + 1)
  BY <1>3, <1>5, <1>6 DEF Wrote, Put
<1>8. QED
  BY <1>2, <1>7

-----------------------------------------------------------------------------
(* Strings *)

WriteSteps(t, string, n, g) ==
  g = [k \in 0 .. n |-> IF k = 0 THEN [terminal |-> t, pos |-> Index(t)]
                        ELSE WriteChar(g[k - 1], string[k])]

LEMMA WriteExists ==
  ASSUME NEW t, NEW string, NEW n \in Nat
  PROVE  \E g : WriteSteps(t, string, n, g)
<1> DEFINE W0 == [terminal |-> t, pos |-> Index(t)]
<1> HIDE DEF W0
<1> DEFINE Steps(k, g) == g = [i \in 0 .. k |-> IF i = 0 THEN W0
                                               ELSE WriteChar(g[i - 1], string[i])]
           T == {k \in Nat : \E g : Steps(k, g)}
<1>1. 0 \in T
  <2>1. Steps(0, [i \in 0 .. 0 |-> W0])
    OBVIOUS
  <2>2. QED
    BY <2>1
<1>2. ASSUME NEW k \in 0 .. n - 1, k \in T PROVE k + 1 \in T
  <2>1. PICK g : Steps(k, g)
    BY <1>2
  <2> DEFINE h == [i \in 0 .. k + 1 |-> IF i = k + 1 THEN WriteChar(g[k], string[k + 1]) ELSE g[i]]
  <2>2. ASSUME NEW i \in 0 .. k + 1
        PROVE  h[i] = IF i = 0 THEN W0 ELSE WriteChar(h[i - 1], string[i])
    <3>1. CASE i = k + 1
      <4>1. i - 1 = k /\ i # 0 /\ k \in 0 .. k + 1 /\ k # k + 1
        BY <3>1
      <4>2. h[i - 1] = g[k] /\ h[i] = WriteChar(g[k], string[k + 1])
        BY <3>1, <4>1
      <4>3. QED
        BY <3>1, <4>1, <4>2
    <3>2. CASE i # k + 1
      <4>1. i \in 0 .. k /\ h[i] = g[i]
        BY <3>2
      <4>2. i # 0 => i - 1 \in 0 .. k + 1 /\ i - 1 # k + 1 /\ h[i - 1] = g[i - 1]
        BY <3>2
      <4> HIDE DEF h
      <4>3. g[i] = IF i = 0 THEN W0 ELSE WriteChar(g[i - 1], string[i])
        BY <2>1, <4>1
      <4>4. QED
        BY <4>1, <4>2, <4>3
    <3>3. QED
      BY <3>1, <3>2
  <2>3. Steps(k + 1, h)
    <3>1. h = [i \in 0 .. k + 1 |-> h[i]]
      OBVIOUS
    <3> HIDE DEF h
    <3>2. QED
      BY <2>2, <3>1
  <2> HIDE DEF h, Steps
  <2>4. QED
    BY <2>3
<1> HIDE DEF T
<1>3. n \in T
  BY <1>1, <1>2, UpTo
<1>4. QED
  BY <1>3 DEF T, WriteSteps, W0

\* The driver writes a string one character at a time.
WritesOn(t, string, w) ==
  /\ w[0] = [terminal |-> t, pos |-> Index(t)]
  /\ \A k \in 1 .. Len(string) : w[k] = WriteChar(w[k - 1], string[k])

LEMMA WriteIs ==
  ASSUME NEW t, NEW string, Len(string) \in Nat
  PROVE  \E w : WritesOn(t, string, w) /\ vga_text_write(t, string) = w[Len(string)].terminal
<1> DEFINE w == CHOOSE g : WriteSteps(t, string, Len(string), g)
<1>1. WriteSteps(t, string, Len(string), w)
  BY WriteExists
<1>2. vga_text_write(t, string) = w[Len(string)].terminal
  BY DEF vga_text_write, WriteSteps
<1> HIDE DEF w
<1>3. ASSUME NEW k \in 0 .. Len(string)
      PROVE  w[k] = IF k = 0 THEN [terminal |-> t, pos |-> Index(t)] ELSE WriteChar(w[k - 1], string[k])
  BY <1>1 DEF WriteSteps
<1>4. w[0] = [terminal |-> t, pos |-> Index(t)]
  BY <1>3
<1>5. ASSUME NEW k \in 1 .. Len(string) PROVE w[k] = WriteChar(w[k - 1], string[k])
  BY <1>3
<1>6. QED
  BY <1>2, <1>4, <1>5 DEF WritesOn

LEMMA WriteTyped ==
  ASSUME NEW t, Screen(t), NEW string, Len(string) \in Nat
  PROVE  Screen(vga_text_write(t, string))
<1>1. PICK w : WritesOn(t, string, w) /\ vga_text_write(t, string) = w[Len(string)].terminal
  BY WriteIs
<1> DEFINE T == {k \in 0 .. Len(string) : Writer(w[k])}
<1>2. 0 \in T
  <2>1. Index(t) \in Nat
    BY IndexIs
  <2>2. Writer(w[0])
    BY <1>1, <2>1, WriterIs DEF WritesOn
  <2>3. QED
    BY <2>2
<1>3. ASSUME NEW k \in 0 .. Len(string) - 1, k \in T PROVE k + 1 \in T
  <2>1. k + 1 \in 1 .. Len(string) /\ k + 1 \in 0 .. Len(string) /\ (k + 1) - 1 = k
    OBVIOUS
  <2>2. w[k + 1] = WriteChar(w[k], string[k + 1]) /\ Writer(w[k])
    BY <1>1, <1>3, <2>1 DEF WritesOn
  <2>3. Writer(w[k + 1])
    BY <2>2, WriteCharTyped
  <2>4. QED
    BY <2>1, <2>3
<1> HIDE DEF T
<1>4. \A k \in 0 .. Len(string) : k \in T
  BY <1>2, <1>3, UpTo
<1>5. Len(string) \in 0 .. Len(string)
  OBVIOUS
<1>6. QED
  BY <1>1, <1>4, <1>5 DEF T, Writer

\* A string of one character.
LEMMA WriteOne ==
  ASSUME NEW t, Screen(t), Index(t) \in Cells, NEW c, c # "\n"
  PROVE  Wrote(t, vga_text_write(t, <<c>>), c, Index(t) + 1)
<1>1. Len(<<c>>) = 1 /\ <<c>>[1] = c /\ 1 \in Nat
  OBVIOUS
<1>2. PICK w : WritesOn(t, <<c>>, w) /\ vga_text_write(t, <<c>>) = w[1].terminal
  BY <1>1, WriteIs
<1>3. PICK p \in Nat : p = Index(t) /\ p + 1 < 2 * Size
  BY SizeIs
<1>4. w[0] = [terminal |-> t, pos |-> p] /\ w[1] = WriteChar(w[0], c)
  <2>1. 1 \in 1 .. Len(<<c>>) /\ 1 - 1 = 0
    BY <1>1
  <2>2. QED
    BY <1>1, <1>2, <1>3, <2>1 DEF WritesOn
<1>5. Wrote(t, WriteChar([terminal |-> t, pos |-> p], c).terminal, c, p + 1)
  BY <1>3, WriteCharIs
<1>6. QED
  BY <1>2, <1>3, <1>4, <1>5, Zenon
-----------------------------------------------------------------------------
(* Backspace *)

\* Where the search of backspace looks, n characters from the end of the row above.
Above(t, n) == [t EXCEPT !.row = @ - 1, !.column = (Width - 1 - n) % Word]

LEMMA AboveIs ==
  ASSUME NEW t, Screen(t), t.row # 0, NEW n \in Int
  PROVE  /\ Moved(t, Above(t, n)) /\ Above(t, n).row = t.row - 1
         /\ Above(t, n).column = (Width - 1 - n) % Word
<1> DEFINE r == t.row - 1
           c == (Width - 1 - n) % Word
<1>1. r \in Nat /\ c \in 0 .. Word - 1
  BY SizeIs DEF Screen
<1>2. Above(t, n) = [t EXCEPT !.row = r, !.column = c]
  BY DEF Above
<1> HIDE DEF r, c
<1>3. SetTo(t, [t EXCEPT !.row = r, !.column = c], r, c)
  BY <1>1, MovedTo
<1>4. SetTo(t, Above(t, n), r, c)
  BY <1>2, <1>3, Zenon
<1>5. QED
  BY <1>4 DEF SetTo, r, c

\* How far the search goes.
Skipped(t) ==
  {n \in 0 .. Size : \A m \in 0 .. n : vga_text_getchar(Above(t, m)) = Blank}

LEMMA SteppedIs ==
  ASSUME NEW t
  PROVE  Stepped(t) = IF t.column # 0 THEN [t EXCEPT !.column = @ - 1]
                      ELSE Above(t, Cardinality(Skipped(t)))
  BY DEF Stepped, Skipped, Above

LEMMA LeftIs ==
  ASSUME NEW t, Screen(t), t.column # 0
  PROVE  /\ Moved(t, [t EXCEPT !.column = @ - 1])
         /\ [t EXCEPT !.column = @ - 1].row = t.row
         /\ [t EXCEPT !.column = @ - 1].column = t.column - 1
<1> DEFINE c == t.column - 1
           u == [t EXCEPT !.column = c]
<1>1. c \in 0 .. Word - 1
  <2>1. PICK d \in 0 .. Word - 1 : d = t.column
    BY DEF Screen
  <2>2. d - 1 \in 0 .. Word - 1
    BY <2>1, SizeIs
  <2>3. QED
    BY <2>1, <2>2
<1>2. [t EXCEPT !.column = @ - 1] = u
  OBVIOUS
<1> HIDE DEF c
<1>3. u.row = t.row /\ u.column = c /\ u.cells = t.cells /\ DOMAIN u = {"row", "column", "cells"}
  BY DEF Screen
<1> HIDE DEF u
<1>4. Moved(t, u)
  BY <1>1, <1>3 DEF Moved, Screen
<1>5. QED
  BY <1>2, <1>3, <1>4 DEF c

LEMMA BackTyped ==
  ASSUME NEW t, Screen(t)
  PROVE  Screen(vga_text_backspace(t))
<1>1. CASE t.row = 0 /\ t.column = 0
  BY <1>1 DEF vga_text_backspace
<1>2. CASE ~ (t.row = 0 /\ t.column = 0)
  <2>1. Screen(Stepped(t))
    <3>1. CASE t.column # 0
      BY <3>1, SteppedIs, LeftIs DEF Moved
    <3>2. CASE t.column = 0
      <4>1. Cardinality(Skipped(t)) \in Nat
        <5>1. IsFiniteSet(0 .. Size)
          BY SizeIs, FS_Interval
        <5>2. IsFiniteSet(Skipped(t))
          BY <5>1, FS_Subset DEF Skipped
        <5>3. QED
          BY <5>2, FS_CardinalityType
      <4>2. t.row # 0
        BY <1>2, <3>2
      <4>3. Cardinality(Skipped(t)) \in Int
        BY <4>1
      <4>4. Screen(Above(t, Cardinality(Skipped(t))))
        BY <4>2, <4>3, AboveIs DEF Moved
      <4>5. QED
        BY <3>2, <4>4, SteppedIs
    <3>3. QED
      BY <3>1, <3>2
  <2>2. vga_text_backspace(t) = vga_text_putchar(Stepped(t), Blank)
    BY <1>2 DEF vga_text_backspace
  <2>3. QED
    BY <2>1, <2>2, PutcharIs DEF Put
<1>3. QED
  BY <1>1, <1>2

\* On the screen, and not behind a blank at the end of the row above, backspace
\* goes back one cell.
LEMMA BackIs ==
  ASSUME NEW t, Screen(t), OnScreen(t), Index(t) # 0,
         t.column = 0 => t.cells[Index(t) - 1] # Blank
  PROVE  LET u == vga_text_backspace(t)
         IN  /\ Screen(u) /\ OnScreen(u) /\ Index(u) = Index(t) - 1
             /\ \A i \in Cells : u.cells[i] = IF i = Index(t) - 1 THEN Blank ELSE t.cells[i]
<1> DEFINE v == Stepped(t)
           u == vga_text_putchar(v, Blank)
<1>1. PICK r \in 0 .. Height - 1 : r = t.row
  BY DEF OnScreen
<1>2. PICK c \in 0 .. Width - 1 : c = t.column
  BY DEF OnScreen
<1>3. Index(t) = r * Width + c /\ Index(t) \in Cells
  BY <1>1, <1>2, IndexOn
<1>4. ~ (t.row = 0 /\ t.column = 0)
  <2>1. r = 0 => r * Width = 0
    BY SizeIs
  <2>2. QED
    BY <1>1, <1>2, <1>3, <2>1
<1>5. Moved(t, v) /\ OnScreen(v) /\ Index(v) = Index(t) - 1
  <2>1. CASE t.column # 0
    <3>1. v = [t EXCEPT !.column = @ - 1]
      BY <2>1, SteppedIs
    <3>2. Moved(t, v) /\ v.row = t.row /\ v.column = t.column - 1
      BY <2>1, <3>1, LeftIs
    <3> HIDE DEF v
    <3>3. c - 1 \in 0 .. Width - 1
      BY <1>2, <2>1, SizeIs
    <3>4. OnScreen(v)
      BY <1>1, <1>2, <3>2, <3>3 DEF OnScreen
    <3>5. Index(v) = r * Width + (c - 1)
      BY <1>1, <1>2, <3>2, <3>4, IndexOn DEF Moved
    <3>6. r * Width \in Nat
      BY SizeIs
    <3>7. QED
      BY <1>3, <3>2, <3>4, <3>5, <3>6
  <2>2. CASE t.column = 0
    <3>1. t.row # 0
      BY <1>4, <2>2
    <3> DEFINE a == Above(t, 0)
    <3>2. Moved(t, a) /\ a.row = t.row - 1 /\ a.column = Width - 1
      <4>1. (Width - 1 - 0) % Word = Width - 1
        BY SizeIs
      <4>2. QED
        BY <3>1, <4>1, AboveIs
    <3>3. OnScreen(a)
      BY <1>1, <3>1, <3>2, SizeIs DEF OnScreen
    <3>4. Index(a) = Index(t) - 1 /\ Index(a) \in Cells
      <4>1. Index(a) = (r - 1) * Width + (Width - 1) /\ Index(a) \in Cells
        BY <1>1, <3>2, <3>3, IndexOn DEF Moved
      <4>2. PICK k \in Nat : r = k + 1
        <5>1. r - 1 \in Nat /\ r = (r - 1) + 1
          BY <1>1, <3>1
        <5>2. QED
          BY <5>1
      <4>3. (k + 1) * Width = k * Width + Width /\ k * Width \in Nat /\ (k + 1) - 1 = k
        BY SizeIs
      <4>4. QED
        BY <1>2, <1>3, <2>2, <4>1, <4>2, <4>3, SizeIs
    <3>5. vga_text_getchar(a) # Blank
      BY <2>2, <3>2, <3>4 DEF vga_text_getchar, Moved
    <3>6. Skipped(t) = {}
      <4>1. \A n \in 0 .. Size : 0 \in 0 .. n
        BY SizeIs
      <4>2. QED
        BY <3>5, <4>1 DEF Skipped
    <3>7. Cardinality(Skipped(t)) = 0
      BY <3>6, FS_EmptySet
    <3>8. v = a
      BY <2>2, <3>7, SteppedIs
    <3>9. QED
      BY <3>2, <3>3, <3>4, <3>8
  <2>3. QED
    BY <2>1, <2>2
<1>6. vga_text_backspace(t) = u
  BY <1>4 DEF vga_text_backspace
<1> HIDE DEF v
<1>7. Put(v, u, Blank)
  BY <1>5, PutcharIs DEF Moved
<1> HIDE DEF u
<1>8. Screen(u) /\ OnScreen(u) /\ Index(u) = Index(v)
  BY <1>5, <1>7 DEF Put, OnScreen, Index
<1>9. \A i \in Cells : u.cells[i] = IF i = Index(t) - 1 THEN Blank ELSE t.cells[i]
  BY <1>5, <1>7 DEF Put, Moved
<1>10. QED
  BY <1>5, <1>6, <1>8, <1>9

-----------------------------------------------------------------------------
(* What drivers and kernel print *)

LEMMA EchoTyped ==
  ASSUME NEW t, Screen(t), NEW c
  PROVE  Screen(Echoed(t, c))
<1>1. Screen(vga_text_clear(t)) /\ Screen(vga_text_backspace(t))
  BY ClearIs, BackTyped
<1>2. Len(<<c>>) \in Nat /\ Len(<<Blank, Blank, Blank, Blank>>) \in Nat
  OBVIOUS
<1>3. Screen(vga_text_write(t, <<c>>)) /\ Screen(vga_text_write(t, <<Blank, Blank, Blank, Blank>>))
  BY <1>2, WriteTyped
<1>4. QED
  BY <1>1, <1>3 DEF Echoed

\* A call of the driver in progress; from its second character on, pos is where
\* the string began, and as many cells on.
PrintTyped(p) ==
  /\ DOMAIN p = {"calls", "done", "pos", "from"}
  /\ p.calls \in Seq(VgaCalls) /\ p.done \in Nat /\ p.pos \in Nat
  /\ p.calls # <<>> => p.done <= Len(Head(p.calls).text)

LEMMA PrintingTyped ==
  ASSUME NEW calls \in Seq(VgaCalls) PROVE PrintTyped(Printing(calls))
<1>1. calls # <<>> => Head(calls) \in VgaCalls
  BY HeadTailProperties
<1>2. calls # <<>> => Len(Head(calls).text) \in Nat
  BY <1>1 DEF VgaCalls, Texts
<1>3. QED
  BY <1>2 DEF PrintTyped, Printing

LEMMA PrintedTyped ==
  ASSUME NEW p, PrintTyped(p), p.calls # <<>>, NEW t, Screen(t)
  PROVE  Screen(Printed(p, t).terminal) /\ PrintTyped(Printed(p, t).print)
<1> DEFINE now  == Head(p.calls)
           pos  == IF p.done = 0 THEN Index(t) ELSE p.pos
           from == IF p.done = 0 THEN pos ELSE p.from
           c    == now.text[p.done + 1]
           next == IF now.name = "digits"
                   THEN [terminal |-> Digit(t, now.text, c), pos |-> pos]
                   ELSE WriteChar([terminal |-> t, pos |-> pos], c)
<1>1. now \in VgaCalls /\ Tail(p.calls) \in Seq(VgaCalls) /\ Len(now.text) \in Nat
  <2>1. p.calls \in Seq(VgaCalls)
    BY DEF PrintTyped
  <2>2. now \in VgaCalls /\ Tail(p.calls) \in Seq(VgaCalls)
    BY <2>1, HeadTailProperties
  <2> HIDE DEF now
  <2>3. Len(now.text) \in Nat
    BY <2>2 DEF VgaCalls, Texts
  <2>4. QED
    BY <2>2, <2>3
<1>2. CASE p.done = Len(now.text)
  <2>1. Printed(p, t) = [terminal |-> IF now.name = "writeline" THEN NewLine(t) ELSE t,
                         print |-> Printing(Tail(p.calls))]
    BY <1>2 DEF Printed
  <2>2. Screen(IF now.name = "writeline" THEN NewLine(t) ELSE t)
    BY NewLineIs DEF Moved
  <2>3. PrintTyped(Printing(Tail(p.calls)))
    BY <1>1, PrintingTyped
  <2>4. QED
    BY <2>1, <2>2, <2>3
<1>3. CASE p.done # Len(now.text)
  <2>1. Printed(p, t) = [terminal |-> next.terminal,
                         print |-> [p EXCEPT !.done = @ + 1, !.pos = next.pos, !.from = from]]
    BY <1>3 DEF Printed
  <2>2. pos \in Nat
    BY IndexIs DEF PrintTyped
  <2>3. Screen(next.terminal) /\ next.pos \in Nat
    <3>1. Writer(WriteChar([terminal |-> t, pos |-> pos], c))
      BY <2>2, WriterIs, WriteCharTyped
    <3>2. Screen(Digit(t, now.text, c))
      BY DigitIs
    <3> HIDE DEF pos, c, now
    <3>3. QED
      BY <2>2, <3>1, <3>2 DEF Writer
  <2> HIDE DEF next, from
  <2> DEFINE q == [p EXCEPT !.done = @ + 1, !.pos = next.pos, !.from = from]
  <2>4. /\ q.calls = p.calls /\ q.done = p.done + 1 /\ q.pos = next.pos
        /\ DOMAIN q = {"calls", "done", "pos", "from"}
    BY DEF PrintTyped
  <2>5. p.done + 1 <= Len(now.text)
    BY <1>1, <1>3 DEF PrintTyped
  <2> HIDE DEF q
  <2>6. PrintTyped(q)
    BY <2>3, <2>4, <2>5 DEF PrintTyped
  <2>7. QED
    BY <2>1, <2>3, <2>6 DEF q
<1>4. QED
  BY <1>2, <1>3
-----------------------------------------------------------------------------
(* What the state is made of *)

\* An array of n bytes.
Array(s, n) == DOMAIN s = 1 .. n /\ s = [k \in DOMAIN s |-> s[k]]

\* By whom each call is made.
ShellCalls == {"write", "read", "files", "run"}
ChildCalls == {"exit", "exception"}

\* A call is handled with interrupts off, from the first word its stub pushed.
CallTyped ==
  /\ DOMAIN call = {"name", "print", "bytes"}
  /\ call.name \in {"none"} \cup ShellCalls \cup ChildCalls
  /\ PrintTyped(call.print)
  /\ call.print.calls # <<>> => call.name # "none"
  /\ call.name # "none" => /\ frames # <<>> /\ frames[1].step = "handler"
                           /\ frames[1].vector \notin 32 .. 47
  /\ call.name \in ShellCalls => current = "shell"
  /\ call.name \in ChildCalls => current = "child"
  /\ call.name = "read" => \E n \in {InputSize, DataSize} : Array(call.bytes, n)

\* While a read waits nobody but the kernel's processes is ready.
ReadingTyped ==
  /\ DOMAIN reading = {"blocked", "size", "count", "bytes", "eax"}
  /\ reading.blocked \in BOOLEAN
  /\ reading.size \in {0, InputSize, DataSize} /\ reading.count \in 0 .. reading.size
  /\ reading.size > 0 => /\ reading.count < reading.size /\ Array(reading.bytes, reading.size)
                         /\ reading.blocked /\ ~ shell.child /\ Loaded

ShellTyped ==
  /\ DOMAIN shell = {"pc", "out", "input", "words", "count", "data", "child", "clean"}
  /\ shell.child \in BOOLEAN /\ shell.out \in Seq(Texts)
  /\ Array(shell.input, InputSize)
  /\ shell.child => reading.blocked /\ reading.size = 0

\* The array of the read the shell waits in or comes from.
Line == IF call.name = "read" THEN call.bytes ELSE reading.bytes

LineTyped ==
  /\ call.name = "read" => shell.pc \in {"eval", "datum"}
  /\ shell.pc = "eval" => Array(Line, InputSize)
  /\ shell.pc = "datum" => Array(Line, DataSize)

CurrentReady == current \in Ready(reading, shell)

BootTyped ==
  /\ DOMAIN boot = KernelProcesses
  /\ \A p \in KernelProcesses : PrintTyped(boot[p])

\* The parts the steps keep.
Typed ==
  /\ Screen(terminal) /\ shift \in BOOLEAN /\ raised \subseteq Lines
  /\ BootTyped /\ CallTyped /\ ReadingTyped /\ ShellTyped /\ LineTyped
  /\ CurrentReady

LEMMA SizesAre ==
  InputSize \in Nat \ {0} /\ DataSize \in Nat \ {0} /\ InputSize <= Size /\ DataSize <= Size
  BY ConsoleAssumption, SizeIs

LEMMA ArrayIs ==
  ASSUME NEW s, NEW n \in Nat, Array(s, n)
  PROVE  s \in Seq({s[k] : k \in 1 .. n}) /\ Len(s) = n
<1> DEFINE V == {s[k] : k \in 1 .. n}
<1>1. \A k \in 1 .. n : s[k] \in V
  OBVIOUS
<1> HIDE DEF V
<1>2. s \in [1 .. n -> V]
  BY <1>1 DEF Array
<1>3. s \in Seq(V)
  BY <1>2
<1>4. QED
  BY <1>2, <1>3 DEF V

LEMMA ArrayOf ==
  ASSUME NEW S, NEW s \in Seq(S) PROVE Array(s, Len(s))
  BY DEF Array

\* A print of texts of one character each.
LEMMA PrintfTyped ==
  ASSUME NEW text \in Seq(Chars) PROVE printf(text) \in Seq(Texts)
<1>1. PICK n \in Nat : text \in [1 .. n -> Chars]
  OBVIOUS
<1>2. \A k \in 1 .. n : <<text[k]>> \in Texts
  BY <1>1, SizeIs DEF Texts
<1>3. printf(text) \in [1 .. n -> Texts]
  BY <1>1, <1>2 DEF printf
<1>4. QED
  BY <1>3

\* Nobody is handled while a program runs.
LEMMA NoneCalls == ASSUME CallTyped, frames = <<>> PROVE call.name = "none"
  BY DEF CallTyped

LEMMA NothingTyped ==
  /\ DOMAIN Nothing = {"name", "print", "bytes"} /\ Nothing.name = "none"
  /\ PrintTyped(Nothing.print) /\ Nothing.print.calls = <<>>
<1>1. PrintTyped(Printing(<<>>)) /\ Printing(<<>>).calls = <<>>
  <2>1. <<>> \in Seq(VgaCalls)
    OBVIOUS
  <2>2. QED
    BY <2>1, PrintingTyped DEF Printing
<1>2. QED
  BY <1>1 DEF Nothing, Does

\* A call the shell or the child may make.
Callable(does, p) ==
  /\ DOMAIN does = {"name", "print", "bytes"}
  /\ IF p = "shell" THEN does.name \in ShellCalls ELSE p = "child" /\ does.name \in ChildCalls
  /\ PrintTyped(does.print)
  /\ does.name = "read" => \E n \in {InputSize, DataSize} : Array(does.bytes, n)

LEMMA DoesTyped ==
  ASSUME NEW name, NEW calls \in Seq(VgaCalls), NEW bytes
  PROVE  /\ DOMAIN Does(name, calls, bytes) = {"name", "print", "bytes"}
         /\ Does(name, calls, bytes).name = name /\ Does(name, calls, bytes).bytes = bytes
         /\ PrintTyped(Does(name, calls, bytes).print)
  BY PrintingTyped DEF Does

\* What each Trap of the programs asks for.
LEMMA Calls ==
  ASSUME CallTyped, ShellTyped
  PROVE  /\ shell.out # <<>> => Callable(Write(Head(shell.out)), "shell")
         /\ Callable(Read(shell.input), "shell")
         /\ Callable(Read([k \in 1 .. DataSize |-> NUL]), "shell")
         /\ Callable(Files(<<>>), "shell")
         /\ \A calls \in Listings \cup {<<>>} : Callable(Files(calls), "shell")
         /\ Callable(Does("run", <<>>, <<>>), "shell")
         /\ Callable(Does("exit", <<>>, <<>>), "child")
         /\ Callable(Does("exception", Message, <<>>), "child")
<1>0. <<>> \in Seq(VgaCalls)
  OBVIOUS
<1>1. ASSUME shell.out # <<>> PROVE Callable(Write(Head(shell.out)), "shell")
  <2>1. shell.out \in Seq(Texts)
    BY DEF ShellTyped
  <2>2. Head(shell.out) \in Texts
    BY <1>1, <2>1, HeadTailProperties
  <2>3. Call("write", Head(shell.out)) \in VgaCalls
    BY <2>2 DEF Call, VgaCalls
  <2>4. <<Call("write", Head(shell.out))>> \in Seq(VgaCalls)
    BY <2>3
  <2>5. QED
    BY <2>4, DoesTyped DEF Callable, Write, ShellCalls
<1>2. Array(shell.input, InputSize)
  BY DEF ShellTyped
<1>3. Array([k \in 1 .. DataSize |-> NUL], DataSize)
  BY DEF Array
<1>4. ASSUME NEW calls \in Seq(VgaCalls), NEW bytes, NEW n \in {InputSize, DataSize}, Array(bytes, n)
      PROVE  Callable(Does("read", calls, bytes), "shell")
  <2> DEFINE d == Does("read", calls, bytes)
  <2>1. DOMAIN d = {"name", "print", "bytes"} /\ d.name = "read" /\ d.bytes = bytes /\ PrintTyped(d.print)
    BY DoesTyped
  <2> HIDE DEF d
  <2>2. Callable(d, "shell")
    BY <1>4, <2>1 DEF Callable, ShellCalls
  <2>3. QED
    BY <2>2 DEF d
<1>5. /\ Callable(Read(shell.input), "shell")
      /\ Callable(Read([k \in 1 .. DataSize |-> NUL]), "shell")
  BY <1>0, <1>2, <1>3, <1>4 DEF Read
<1>6. ASSUME NEW calls \in Listings \cup {<<>>} PROVE Callable(Files(calls), "shell")
  <2>1. calls \in Seq(VgaCalls)
    BY <1>0, ConsoleAssumption
  <2>2. QED
    BY <2>1, DoesTyped DEF Callable, Files, ShellCalls
<1>7. Message \in Seq(VgaCalls)
  BY ConsoleAssumption
<1>8. ASSUME NEW name \in {"run", "exit", "exception"}, NEW calls \in Seq(VgaCalls)
      PROVE  Callable(Does(name, calls, <<>>), IF name = "run" THEN "shell" ELSE "child")
  <2> DEFINE d == Does(name, calls, <<>>)
  <2>1. DOMAIN d = {"name", "print", "bytes"} /\ d.name = name /\ PrintTyped(d.print)
    BY DoesTyped
  <2> HIDE DEF d
  <2>2. Callable(d, IF name = "run" THEN "shell" ELSE "child")
    BY <2>1 DEF Callable, ShellCalls, ChildCalls
  <2>3. QED
    BY <2>2 DEF d
<1>9. Callable(Files(<<>>), "shell")
  BY <1>6
<1>10. QED
  <2>1. /\ Callable(Does("run", <<>>, <<>>), "shell") /\ Callable(Does("exit", <<>>, <<>>), "child")
        /\ Callable(Does("exception", Message, <<>>), "child")
    BY <1>0, <1>7, <1>8
  <2>2. QED
    BY <1>1, <1>5, <1>6, <1>9, <2>1

-----------------------------------------------------------------------------
(* What each step keeps *)

LEMMA TrapCall ==
  ASSUME NEW p \in {"shell", "child"}, Runs(p), NEW n \in {0, 14, SyscallVector}, NEW does,
         Trap(n, does), Callable(does, p), UNCHANGED current
  PROVE  CallTyped'
<1>1. frames' = <<Frame(n, Ring(current))>>
  BY DEF Trap, Enter, Runs
<1>2. frames'[1].step = "handler" /\ frames'[1].vector = n /\ frames' # <<>>
  BY <1>1 DEF Frame
<1>3. n \notin 32 .. 47
  BY DEF SyscallVector
<1>4. call' = does /\ current' = p
  BY DEF Trap, Runs
<1>5. does.name # "none"
  BY DEF Callable, ShellCalls, ChildCalls
<1>6. /\ does.name \in ShellCalls => p = "shell"
      /\ does.name \in ChildCalls => p = "child"
      /\ does.name \in ShellCalls \cup ChildCalls
  BY DEF Callable, ShellCalls, ChildCalls
<1>7. QED
  BY <1>2, <1>3, <1>4, <1>5, <1>6 DEF CallTyped, Callable

LEMMA NothingCall == ASSUME call' = Nothing PROVE CallTyped'
<1>1. /\ DOMAIN call' = {"name", "print", "bytes"} /\ call'.name = "none"
      /\ PrintTyped(call'.print) /\ call'.print.calls = <<>>
  BY NothingTyped
<1>2. QED
  BY <1>1 DEF CallTyped, ShellCalls, ChildCalls

LEMMA SameCall == ASSUME CallTyped, call.name = "none", UNCHANGED call PROVE CallTyped'
  BY DEF CallTyped, ShellCalls, ChildCalls

LEMMA NextCall ==
  ASSUME IInv, Typed, [Next]_vars PROVE CallTyped'
<1>0. CallTyped /\ ShellTyped
  BY DEF Typed
<1>1. CASE UNCHANGED <<call, frames, current>>
  BY <1>0, <1>1 DEF CallTyped
<1>2. CASE UNCHANGED vars \/ kernel_prints \/ press \/ tick
  BY <1>1, <1>2 DEF vars, intrVars, kernel_prints, press, tick, raise
<1>3. CASE leave
  <2>1. call.name = "none"
    BY <1>0, <1>3 DEF leave, iret, CallTyped
  <2>2. QED
    BY <1>0, <1>3, <2>1, SameCall DEF leave
<1>4. ASSUME NEW line \in Lines, accept(line) PROVE CallTyped'
  <2>1. call.name = "none"
    BY <1>0, <1>4, NoneCalls DEF accept, interrupt, IInv
  <2>2. QED
    BY <1>0, <1>4, <2>1, SameCall DEF accept
<1>5. CASE irq_timer \/ irq_other \/ irq_keyboard
  <2>1. call.name = "none"
    BY <1>0, <1>5 DEF irq_timer, irq_other, irq_keyboard, Irq, CallTyped
  <2>2. QED
    BY <1>0, <1>5, <2>1, SameCall DEF irq_timer, irq_other, irq_keyboard
<1>6. CASE handler_prints
  <2> DEFINE q == Printed(call.print, terminal).print
  <2>1. /\ DOMAIN call = {"name", "print", "bytes"} /\ call.name # "none"
        /\ PrintTyped(call.print) /\ call.print.calls # <<>>
    BY <1>0, <1>6 DEF CallTyped, handler_prints, Handling, NothingToPrint
  <2>2. PrintTyped(q)
    BY <2>1, PrintedTyped DEF Typed
  <2>3. call' = [call EXCEPT !.print = q]
    BY <1>6 DEF handler_prints
  <2>4. UNCHANGED <<frames, current>>
    BY <1>6 DEF handler_prints, intrVars
  <2> HIDE DEF q
  <2>5. DOMAIN call' = DOMAIN call /\ call'.name = call.name /\ call'.print = q /\ call'.bytes = call.bytes
    BY <2>1, <2>3
  <2>6. QED
    BY <1>0, <2>1, <2>2, <2>4, <2>5 DEF CallTyped
<1>7. CASE syscall_ends \/ syscall_read \/ syscall_run \/ child_ends
  BY <1>7, NothingCall DEF syscall_ends, syscall_read, syscall_run, child_ends
<1>8. CASE child_exits \/ child_faults
  BY <1>0, <1>8, Calls, TrapCall DEF child_exits, child_faults
<1>9. CASE shell_writes \/ shell_reads \/ command_run \/ data_reads
  BY <1>0, <1>9, Calls, TrapCall DEF shell_writes, shell_reads, command_run, data_reads, At, Commanded
<1>10. CASE command_fs_ops
  <2>1. PICK calls \in Listings \cup {<<>>} : Trap(SyscallVector, Files(calls))
    BY <1>10 DEF command_fs_ops
  <2>2. Runs("shell") /\ UNCHANGED current
    BY <1>10 DEF command_fs_ops, Commanded, At
  <2>3. QED
    BY <1>0, <2>1, <2>2, Calls, TrapCall
<1>11. CASE command_opens \/ data_stores
  BY <1>0, <1>11, Calls, TrapCall DEF command_opens, data_stores, At, Commanded
<1>12. CASE shell_evaluates \/ command_fails \/ shell_ran \/ data_appends
  BY <1>1, <1>12 DEF shell_evaluates, command_fails, shell_ran, data_appends, intrVars
<1>13. QED
  BY <1>2, <1>3, <1>4, <1>5, <1>6, <1>7, <1>8, <1>9, <1>10, <1>11, <1>12 DEF Next
LEMMA NextScreen ==
  ASSUME IInv, Typed, [Next]_vars PROVE Screen(terminal')
<1>0. Screen(terminal)
  BY DEF Typed
<1>1. CASE kernel_prints
  <2>1. PICK p \in KernelProcesses : /\ PrintTyped(boot[p]) /\ boot[p].calls # <<>>
                                    /\ terminal' = Printed(boot[p], terminal).terminal
    BY <1>1 DEF Typed, BootTyped, kernel_prints, NothingToPrint
  <2>2. QED
    BY <1>0, <2>1, PrintedTyped
<1>2. CASE handler_prints
  <2>1. PrintTyped(call.print) /\ call.print.calls # <<>> /\ terminal' = Printed(call.print, terminal).terminal
    BY <1>2 DEF Typed, CallTyped, handler_prints, NothingToPrint
  <2>2. QED
    BY <1>0, <2>1, PrintedTyped
<1>3. CASE irq_keyboard
  <2>1. terminal' = terminal \/ \E c : terminal' = Echoed(terminal, c)
    BY <1>3 DEF irq_keyboard, keyboard_key
  <2>2. QED
    BY <1>0, <2>1, EchoTyped
<1>4. CASE UNCHANGED terminal
  BY <1>0, <1>4
<1>5. CASE UNCHANGED vars \/ press \/ tick \/ leave \/ (\E line \in Lines : accept(line)) \/ irq_timer \/ irq_other
  BY <1>4, <1>5 DEF vars, press, tick, leave, accept, irq_timer, irq_other
<1>6. CASE syscall_ends \/ syscall_read \/ syscall_run \/ child_exits \/ child_faults \/ child_ends
  BY <1>4, <1>6 DEF syscall_ends, syscall_read, syscall_run, child_exits, child_faults, child_ends
<1>7. CASE shell_writes \/ shell_reads \/ shell_evaluates \/ command_fails \/ command_fs_ops \/ command_run
  BY <1>4, <1>7 DEF shell_writes, shell_reads, shell_evaluates, command_fails, command_fs_ops, command_run
<1>8. CASE command_opens \/ shell_ran \/ data_reads \/ data_appends \/ data_stores
  BY <1>4, <1>8 DEF command_opens, shell_ran, data_reads, data_appends, data_stores
<1>9. QED
  BY <1>1, <1>2, <1>3, <1>5, <1>6, <1>7, <1>8 DEF Next

\* A kernel process prints a character: what the others print stays.
LEMMA PrintsBoot ==
  ASSUME Typed, kernel_prints
  PROVE  \E p \in KernelProcesses :
           /\ current = p /\ PrintTyped(boot[p]) /\ boot[p].calls # <<>>
           /\ DOMAIN boot' = KernelProcesses
           /\ boot'[p] = Printed(boot[p], terminal).print
           /\ \A q \in KernelProcesses \ {p} : boot'[q] = boot[q]
<1>1. PICK p \in KernelProcesses : /\ Runs(p) /\ ~ NothingToPrint(boot[p])
                                  /\ boot' = [boot EXCEPT ![p] = Printed(boot[p], terminal).print]
  BY DEF kernel_prints
<1>2. DOMAIN boot = KernelProcesses /\ PrintTyped(boot[p])
  BY DEF Typed, BootTyped
<1> DEFINE q == Printed(boot[p], terminal).print
<1>3. boot' = [boot EXCEPT ![p] = q]
  BY <1>1
<1>4. current = p /\ boot[p].calls # <<>>
  BY <1>1 DEF Runs, NothingToPrint
<1> HIDE DEF q
<1>5. /\ DOMAIN boot' = KernelProcesses /\ boot'[p] = q
      /\ \A o \in KernelProcesses \ {p} : boot'[o] = boot[o]
  BY <1>2, <1>3
<1>6. QED
  BY <1>2, <1>4, <1>5 DEF q

LEMMA NextBoot ==
  ASSUME IInv, Typed, [Next]_vars PROVE BootTyped'
<1>1. CASE kernel_prints
  <2>1. PICK p \in KernelProcesses :
           /\ PrintTyped(boot[p]) /\ boot[p].calls # <<>>
           /\ DOMAIN boot' = KernelProcesses
           /\ boot'[p] = Printed(boot[p], terminal).print
           /\ \A q \in KernelProcesses \ {p} : boot'[q] = boot[q]
    BY <1>1, PrintsBoot
  <2>2. PrintTyped(boot'[p])
    BY <2>1, PrintedTyped DEF Typed
  <2>3. QED
    BY <2>1, <2>2 DEF Typed, BootTyped
<1>2. CASE UNCHANGED boot
  BY <1>2 DEF Typed, BootTyped
<1>3. CASE ~ kernel_prints
  <2>1. UNCHANGED boot
    BY <1>3 DEF Next, vars, press, tick, leave, accept, irq_timer, irq_other, irq_keyboard,
       handler_prints, syscall_ends, syscall_read, syscall_run, child_exits, child_faults,
       child_ends, shell_writes, shell_reads, shell_evaluates, command_fails, command_fs_ops,
       command_run, command_opens, shell_ran, data_reads, data_appends, data_stores
  <2>2. QED
    BY <1>2, <2>1
<1>4. QED
  BY <1>1, <1>3

LEMMA NextLines ==
  ASSUME IInv, Typed, [Next]_vars PROVE raised' \subseteq Lines /\ shift' \in BOOLEAN
<1>0. raised \subseteq Lines /\ Lines = {0, 1, 14} /\ shift \in BOOLEAN
  BY ConsoleAssumption DEF Typed
<1>1. raised' \subseteq raised \cup {0, 1, 14}
  <2>1. CASE press \/ tick \/ (\E line \in Lines : accept(line))
    BY <2>1 DEF press, tick, raise, accept, interrupt
  <2>2. CASE irq_timer \/ irq_other \/ irq_keyboard
    BY <2>2 DEF irq_timer, irq_other, irq_keyboard, EndOfIrq
  <2>3. CASE syscall_ends \/ syscall_run
    BY <2>3 DEF syscall_ends, syscall_run
  <2>4. CASE UNCHANGED vars \/ leave \/ kernel_prints \/ handler_prints \/ syscall_read \/ child_ends
    BY <2>4 DEF vars, intrVars, leave, iret, kernel_prints, handler_prints, syscall_read, child_ends
  <2>5. CASE child_exits \/ child_faults \/ shell_writes \/ shell_reads \/ command_fs_ops \/ command_run
    BY <2>5 DEF child_exits, child_faults, shell_writes, shell_reads, command_fs_ops, command_run, Trap
  <2>6. CASE command_opens \/ data_reads \/ data_stores
    BY <2>6 DEF command_opens, data_reads, data_stores, Trap
  <2>7. CASE shell_evaluates \/ command_fails \/ shell_ran \/ data_appends
    BY <2>7 DEF shell_evaluates, command_fails, shell_ran, data_appends, intrVars
  <2>8. QED
    BY <2>1, <2>2, <2>3, <2>4, <2>5, <2>6, <2>7 DEF Next
<1>2. CASE irq_keyboard
  <2>1. shift' = keyboard_modifier_keys(Head(ps2), shift)
    BY <1>2 DEF irq_keyboard
  <2>2. shift' \in BOOLEAN
    BY <1>0, <2>1 DEF keyboard_modifier_keys
  <2>3. QED
    BY <1>0, <1>1, <2>2
<1>3. CASE ~ irq_keyboard
  <2>1. UNCHANGED shift
    BY <1>3 DEF Next, vars, press, tick, leave, accept, irq_timer, irq_other, kernel_prints,
       handler_prints, syscall_ends, syscall_read, syscall_run, child_exits, child_faults,
       child_ends, shell_writes, shell_reads, shell_evaluates, command_fails, command_fs_ops,
       command_run, command_opens, shell_ran, data_reads, data_appends, data_stores
  <2>2. QED
    BY <1>0, <1>1, <2>1
<1>4. QED
  BY <1>2, <1>3

-----------------------------------------------------------------------------
(* The read that waits *)

\* A key leaves the read alone, or wakes its reader, or goes into its array.
LEMMA DeliveredIs ==
  ASSUME ReadingTyped, NEW c
  PROVE  LET r == Delivered(reading, c)
         IN  /\ ~ Reads(reading, c) => r = reading
             /\ Reads(reading, c) =>
                  /\ reading.size > 0
                  /\ DOMAIN r = {"blocked", "size", "count", "bytes", "eax"}
                  /\ Array(r.bytes, reading.size)
                  /\ IF c = "bs"
                     THEN /\ r.count = (IF reading.count > 0 THEN reading.count - 1 ELSE 0)
                          /\ \A k \in 1 .. reading.size :
                               r.bytes[k] = IF k = r.count + 1 THEN NUL ELSE reading.bytes[k]
                          /\ r.size = reading.size /\ r.blocked = TRUE
                     ELSE /\ \A k \in 1 .. reading.size :
                               r.bytes[k] = IF k = reading.count + 1 THEN c ELSE reading.bytes[k]
                          /\ IF reading.count + 1 >= reading.size \/ c = "\n"
                             THEN r.size = 0 /\ r.count = 0 /\ r.blocked = FALSE
                                  /\ r.eax = reading.count + 1
                             ELSE r.size = reading.size /\ r.blocked = TRUE
                                  /\ r.count = reading.count + 1
<1> SUFFICES ASSUME Reads(reading, c)
             PROVE  LET r == Delivered(reading, c)
                    IN  /\ reading.size > 0
                        /\ DOMAIN r = {"blocked", "size", "count", "bytes", "eax"}
                        /\ Array(r.bytes, reading.size)
                        /\ IF c = "bs"
                           THEN /\ r.count = (IF reading.count > 0 THEN reading.count - 1 ELSE 0)
                                /\ \A k \in 1 .. reading.size :
                                     r.bytes[k] = IF k = r.count + 1 THEN NUL ELSE reading.bytes[k]
                                /\ r.size = reading.size /\ r.blocked = TRUE
                           ELSE /\ \A k \in 1 .. reading.size :
                                     r.bytes[k] = IF k = reading.count + 1 THEN c ELSE reading.bytes[k]
                                /\ IF reading.count + 1 >= reading.size \/ c = "\n"
                                   THEN r.size = 0 /\ r.count = 0 /\ r.blocked = FALSE
                                        /\ r.eax = reading.count + 1
                                   ELSE r.size = reading.size /\ r.blocked = TRUE
                                        /\ r.count = reading.count + 1
  BY DEF Delivered
<1>1. PICK n \in Nat : n = reading.size
  BY SizesAre DEF ReadingTyped
<1>2. PICK k \in Nat : k = reading.count /\ k < n
  BY <1>1 DEF ReadingTyped, Reads
<1>3. /\ n > 0 /\ Array(reading.bytes, n) /\ reading.blocked = TRUE
      /\ DOMAIN reading = {"blocked", "size", "count", "bytes", "eax"}
  BY <1>1 DEF ReadingTyped, Reads
<1> DEFINE count == IF ~ (c = "bs") THEN reading.count + 1
                    ELSE IF reading.count > 0 THEN reading.count - 1 ELSE 0
           bytes == IF c = "bs" THEN [reading.bytes EXCEPT ![count + 1] = NUL]
                    ELSE [reading.bytes EXCEPT ![count] = c]
           ends  == count >= reading.size \/ c = "\n"
           r     == Delivered(reading, c)
<1>4. r = IF ends THEN [blocked |-> FALSE, size |-> 0, count |-> 0, bytes |-> bytes, eax |-> count]
          ELSE [reading EXCEPT !.count = count, !.bytes = bytes]
  BY DEF Delivered
<1>5. /\ count = IF c # "bs" THEN k + 1 ELSE IF k > 0 THEN k - 1 ELSE 0
      /\ count \in 0 .. n /\ (c = "bs" => count < n) /\ (c # "bs" => count \in 1 .. n)
  <2>1. count = IF c # "bs" THEN k + 1 ELSE IF k > 0 THEN k - 1 ELSE 0
    <3>1. CASE c # "bs"
      BY <1>2, <3>1
    <3>2. CASE c = "bs" /\ k > 0
      BY <1>2, <3>2
    <3>3. CASE c = "bs" /\ ~ (k > 0)
      BY <1>2, <3>3
    <3>4. QED
      BY <3>1, <3>2, <3>3
  <2> HIDE DEF count
  <2>2. QED
    BY <1>2, <2>1
<1>6. Array(bytes, n) /\ \A j \in 1 .. n : bytes[j] = IF c = "bs" THEN (IF j = count + 1 THEN NUL ELSE reading.bytes[j])
                                           ELSE (IF j = count THEN c ELSE reading.bytes[j])
  <2> HIDE DEF count
  <2>1. QED
    BY <1>3, <1>5 DEF Array
<1> HIDE DEF bytes, count, r
<1>7. CASE ends
  <2>1. /\ r.blocked = FALSE /\ r.size = 0 /\ r.count = 0 /\ r.bytes = bytes /\ r.eax = count
        /\ DOMAIN r = {"blocked", "size", "count", "bytes", "eax"}
    BY <1>4, <1>7
  <2>2. c # "bs" /\ count = k + 1 /\ (k + 1 >= n \/ c = "\n")
    BY <1>1, <1>5, <1>7
  <2>3. QED
    BY <1>1, <1>2, <1>3, <1>6, <2>1, <2>2 DEF r
<1>8. CASE ~ ends
  <2>1. /\ r.blocked = TRUE /\ r.size = n /\ r.count = count /\ r.bytes = bytes
        /\ DOMAIN r = {"blocked", "size", "count", "bytes", "eax"}
    BY <1>1, <1>3, <1>4, <1>8
  <2>2. CASE c = "bs"
    BY <1>1, <1>2, <1>3, <1>5, <1>6, <2>1, <2>2 DEF r
  <2>3. CASE c # "bs"
    <3>1. count = k + 1 /\ ~ (k + 1 >= n \/ c = "\n")
      BY <1>1, <1>5, <1>8, <2>3
    <3>2. QED
      BY <1>1, <1>2, <1>3, <1>6, <2>1, <2>3, <3>1 DEF r
  <2>4. QED
    BY <2>2, <2>3
<1>9. QED
  BY <1>7, <1>8
ReadingFields == {"blocked", "size", "count", "bytes", "eax"}
ShellFields   == {"pc", "out", "input", "words", "count", "data", "child", "clean"}

\* The shell runs only when no read and no child keeps it waiting.
LEMMA ShellRuns ==
  ASSUME Typed, current = "shell"
  PROVE  Loaded /\ reading.blocked = FALSE /\ shell.child = FALSE /\ reading.size = 0
<1>1. Loaded /\ ~ reading.blocked
  BY DEF Typed, CurrentReady, Ready
<1>2. reading.blocked \in BOOLEAN /\ reading.size \in Nat /\ (reading.size > 0 => reading.blocked)
  BY SizesAre DEF Typed, ReadingTyped
<1>3. QED
  BY <1>1, <1>2 DEF Typed, ShellTyped

LEMMA ChildRuns ==
  ASSUME Typed, current = "child"
  PROVE  shell.child = TRUE /\ reading.blocked = TRUE /\ reading.size = 0
<1>1. shell.child
  BY DEF Typed, CurrentReady, Ready
<1>2. QED
  BY <1>1 DEF Typed, ShellTyped, ReadingTyped

\* While a read waits a kernel process runs, and kernel_main has nothing to print.
LEMMA ReadingRuns ==
  ASSUME Typed, reading.size > 0
  PROVE  current \in KernelProcesses /\ Loaded
  BY DEF Typed, CurrentReady, ReadingTyped, Ready, KernelProcesses

Evaluated(words, count, input) ==
  [shell EXCEPT !.pc = "command", !.words = words, !.count = count, !.input = input, !.data = <<>>]

\* What the steps that do not end a wait do to the shell.
LEMMA NextShellKept ==
  ASSUME Typed, [Next]_vars, ~ syscall_run, ~ child_ends
  PROVE  /\ DOMAIN shell' = ShellFields /\ shell'.child = shell.child
         /\ shell'.out \in Seq(Texts) /\ Array(shell'.input, InputSize)
<1>0. /\ DOMAIN shell = ShellFields /\ shell.out \in Seq(Texts) /\ Array(shell.input, InputSize)
  BY DEF Typed, ShellTyped, ShellFields
<1> DEFINE Fit(s) == /\ DOMAIN s = ShellFields /\ s.child = shell.child
                     /\ s.out \in Seq(Texts) /\ Array(s.input, InputSize)
<1>1. Fit(shell)
  BY <1>0
<1>2. ASSUME NEW text \in Seq(Texts) PROVE Fit(Again(text))
  <2>1. printf(Prompt) \in Seq(Texts)
    BY PrintfTyped, ConsoleAssumption
  <2>2. text \o printf(Prompt) \in Seq(Texts)
    BY <2>1
  <2> DEFINE out == text \o printf(Prompt)
             s == [shell EXCEPT !.pc = "read", !.out = out]
  <2>3. Again(text) = s
    BY DEF Again
  <2>4. out \in Seq(Texts)
    BY <2>2
  <2> HIDE DEF out
  <2>5. DOMAIN s = ShellFields /\ s.child = shell.child /\ s.out = out /\ s.input = shell.input
    BY <1>0 DEF ShellFields
  <2> HIDE DEF s
  <2>6. Fit(s)
    BY <1>0, <2>4, <2>5
  <2> HIDE DEF Fit
  <2>7. QED
    BY <2>3, <2>6
<1>3. Fit(Again(<<>>)) /\ Fit(Fails)
  <2>1. <<>> \in Seq(Texts) /\ printf(Failed) \in Seq(Texts)
    BY PrintfTyped, ConsoleAssumption
  <2> HIDE DEF Fit
  <2>2. QED
    BY <1>2, <2>1 DEF Fails
<1>4. ASSUME NEW pc PROVE Fit([shell EXCEPT !.pc = pc])
  BY <1>0 DEF ShellFields
<1>5. ASSUME NEW pc, NEW data PROVE Fit([shell EXCEPT !.pc = pc, !.data = data])
  BY <1>0 DEF ShellFields
<1>6. CASE shell_writes
  <2>1. shell.out # <<>> /\ shell' = [shell EXCEPT !.out = Tail(@)]
    BY <1>6 DEF shell_writes
  <2> DEFINE out == Tail(shell.out)
  <2>2. out \in Seq(Texts)
    BY <1>0, <2>1, HeadTailProperties
  <2>3. shell' = [shell EXCEPT !.out = out]
    BY <2>1
  <2> HIDE DEF out
  <2>4. DOMAIN shell' = ShellFields /\ shell'.child = shell.child /\ shell'.out = out /\ shell'.input = shell.input
    BY <1>0, <2>3 DEF ShellFields
  <2>5. QED
    BY <1>0, <2>2, <2>4
<1>7. CASE shell_evaluates
  <2>1. Array(reading.bytes, InputSize)
    <3>1. call.name = "none" /\ shell.pc = "eval"
      BY <1>7, NoneCalls DEF Typed, shell_evaluates, At, Runs
    <3>2. QED
      BY <3>1 DEF Typed, LineTyped, Line
  <2>2. \/ shell' = [shell EXCEPT !.pc = "lost"]
        \/ shell' = [shell EXCEPT !.pc = "spilled"]
        \/ \E words, count, n :
             shell' = Evaluated(words, count, memset(Terminated(reading.bytes, n), n - 1))
    BY <1>7, Zenon DEF shell_evaluates, Evaluated
  <2>3. ASSUME NEW words, NEW count, NEW input, Array(input, InputSize)
        PROVE  Fit(Evaluated(words, count, input))
    BY <1>0, <2>3 DEF Evaluated, ShellFields
  <2>4. ASSUME NEW n PROVE Array(memset(Terminated(reading.bytes, n), n - 1), InputSize)
    BY <2>1 DEF Array, memset, Terminated
  <2> HIDE DEF Fit
  <2>5. Fit(shell')
    BY <1>4, <2>2, <2>3, <2>4
  <2>6. QED
    BY <2>5 DEF Fit
<1>8. CASE command_opens
  <2>0. \E name \in {"cat", "write"}, opened \in BOOLEAN : \E pieces \in FileTexts :
          shell' = IF ~ opened THEN Fails
                   ELSE IF name = "cat" THEN Again(pieces \o printf(<<"\n">>))
                   ELSE [shell EXCEPT !.pc = "data"]
    BY <1>8, Zenon DEF command_opens
  <2>1. PICK pieces \in FileTexts : \/ shell' = Fails
                                    \/ shell' = Again(pieces \o printf(<<"\n">>))
                                    \/ shell' = [shell EXCEPT !.pc = "data"]
    BY <2>0
  <2>2. pieces \o printf(<<"\n">>) \in Seq(Texts)
    <3>1. <<"\n">> \in Seq(Chars)
      BY ConsoleAssumption
    <3>2. pieces \in Seq(Texts) /\ printf(<<"\n">>) \in Seq(Texts)
      BY <3>1, PrintfTyped, ConsoleAssumption
    <3>3. QED
      BY <3>2
  <2> HIDE DEF Fit
  <2>3. Fit(shell')
    BY <1>2, <1>3, <1>4, <2>1, <2>2
  <2>4. QED
    BY <2>3 DEF Fit
<1>9. CASE UNCHANGED shell
  BY <1>0, <1>9
<1>10. CASE UNCHANGED vars \/ kernel_prints \/ press \/ tick \/ leave
            \/ (\E line \in Lines : accept(line)) \/ irq_timer \/ irq_other \/ irq_keyboard
  BY <1>9, <1>10 DEF vars, kernel_prints, press, tick, leave, accept, irq_timer, irq_other, irq_keyboard
<1>11. CASE handler_prints \/ syscall_ends \/ syscall_read \/ child_exits \/ child_faults
  BY <1>9, <1>11 DEF handler_prints, syscall_ends, syscall_read, child_exits, child_faults
<1>12. CASE shell_reads \/ command_run \/ data_reads
  <2>1. \E pc : shell' = [shell EXCEPT !.pc = pc]
    BY <1>12 DEF shell_reads, command_run, data_reads
  <2> HIDE DEF Fit
  <2>2. Fit(shell')
    BY <1>4, <2>1
  <2>3. QED
    BY <2>2 DEF Fit
<1>13. CASE command_fails \/ command_fs_ops \/ shell_ran \/ data_stores
  <2>1. shell' = Fails \/ shell' = Again(<<>>)
    BY <1>13 DEF command_fails, command_fs_ops, shell_ran, data_stores
  <2> HIDE DEF Fit
  <2>2. Fit(shell')
    BY <1>3, <2>1
  <2>3. QED
    BY <2>2 DEF Fit
<1>14. CASE data_appends
  <2> DEFINE data == shell.data \o SubSeq(reading.bytes, 1, reading.eax)
  <2>1. shell' = IF reading.bytes[reading.eax] = "\n"
                 THEN [shell EXCEPT !.pc = "store", !.data = Front(data)]
                 ELSE [shell EXCEPT !.pc = "data", !.data = data]
    BY <1>14 DEF data_appends
  <2> HIDE DEF data
  <2> HIDE DEF Fit
  <2>2. Fit(shell')
    BY <1>5, <2>1
  <2>3. QED
    BY <2>2 DEF Fit
<1>15. QED
  BY <1>6, <1>7, <1>8, <1>10, <1>11, <1>12, <1>13, <1>14 DEF Next
LEMMA SameBoot ==
  ASSUME boot'["kernel_main"] = boot["kernel_main"] PROVE Loaded' = Loaded /\ Created' = Created
  BY DEF Loaded, Created, NothingToPrint

LEMMA LoadedKept ==
  ASSUME [Next]_vars, ~ kernel_prints
  PROVE  UNCHANGED boot /\ Loaded' = Loaded /\ Created' = Created
<1>1. UNCHANGED boot
  BY DEF Next, vars, press, tick, leave, accept, irq_timer, irq_other, irq_keyboard,
     handler_prints, syscall_ends, syscall_read, syscall_run, child_exits, child_faults,
     child_ends, shell_writes, shell_reads, shell_evaluates, command_fails, command_fs_ops,
     command_run, command_opens, shell_ran, data_reads, data_appends, data_stores
<1>2. QED
  BY <1>1, SameBoot

\* kernel_main prints no more once it has printed all; test_process leaves it alone.
LEMMA LoadedStays == ASSUME Typed, kernel_prints, Loaded PROVE Loaded'
<1>1. PICK p \in KernelProcesses : /\ boot[p].calls # <<>>
                                  /\ \A q \in KernelProcesses \ {p} : boot'[q] = boot[q]
  BY PrintsBoot
<1>2. p # "kernel_main" /\ "kernel_main" \in KernelProcesses
  BY <1>1 DEF Loaded, NothingToPrint, KernelProcesses
<1>3. QED
  BY <1>1, <1>2, SameBoot

LEMMA NoneRead == ASSUME Typed, reading.size = 0 PROVE reading.count = 0
<1>1. reading.count \in 0 .. 0
  BY DEF Typed, ReadingTyped
<1>2. QED
  BY <1>1

\* The steps that leave the read alone.
LEMMA ReadingKept ==
  ASSUME [Next]_vars, ~ syscall_read, ~ syscall_run, ~ child_ends, ~ irq_keyboard
  PROVE  UNCHANGED reading
  BY DEF Next, vars, press, tick, leave, accept, irq_timer, irq_other, kernel_prints,
     handler_prints, syscall_ends, child_exits, child_faults,
     shell_writes, shell_reads, shell_evaluates, command_fails, command_fs_ops,
     command_run, command_opens, shell_ran, data_reads, data_appends, data_stores

\* SYSCALL_READ makes the shell wait.
LEMMA ReadStep ==
  ASSUME IInv, Typed, syscall_read
  PROVE  /\ DOMAIN reading' = ReadingFields /\ reading'.blocked = TRUE
         /\ reading'.size \in {InputSize, DataSize} /\ Array(reading'.bytes, reading'.size)
         /\ reading'.count = 0 /\ reading'.bytes = call.bytes
         /\ current = "shell"
<1>1. call.name = "read" /\ current = "shell"
  BY DEF syscall_read, Handling, Typed, CallTyped, ShellCalls
<1>2. PICK n \in {InputSize, DataSize} : Array(call.bytes, n)
  BY <1>1 DEF Typed, CallTyped
<1>3. Len(call.bytes) = n
  BY <1>2, ArrayIs, SizesAre
<1>4. DOMAIN reading = ReadingFields
  BY DEF Typed, ReadingTyped, ReadingFields
<1>5. reading' = [reading EXCEPT !.blocked = TRUE, !.size = n, !.count = 0, !.bytes = call.bytes]
  BY <1>3 DEF syscall_read
<1>6. /\ DOMAIN reading' = ReadingFields /\ reading'.blocked = TRUE /\ reading'.size = n
      /\ reading'.count = 0 /\ reading'.bytes = call.bytes
  BY <1>4, <1>5 DEF ReadingFields
<1>7. QED
  BY <1>1, <1>2, <1>6

\* FS_RUN and the end of a child let the shell wait for a child, or not.
LEMMA RunStep ==
  ASSUME IInv, Typed, syscall_run
  PROVE  \E loads \in BOOLEAN :
           /\ DOMAIN reading' = ReadingFields /\ reading'.blocked = loads
           /\ reading'.size = 0 /\ reading'.count = 0 /\ reading'.bytes = reading.bytes
           /\ DOMAIN shell' = ShellFields /\ shell'.child = loads /\ shell'.out = shell.out
           /\ shell'.input = shell.input /\ shell'.pc = shell.pc
           /\ current = "shell" /\ call.name = "run"
<1>1. call.name = "run" /\ current = "shell"
  BY DEF syscall_run, Handling, Typed, CallTyped, ShellCalls
<1>2. reading.size = 0 /\ reading.count = 0
  <2>1. reading.size = 0
    BY <1>1, ShellRuns
  <2>2. QED
    BY <2>1, NoneRead
<1>3. DOMAIN reading = ReadingFields /\ DOMAIN shell = ShellFields
  BY DEF Typed, ReadingTyped, ReadingFields, ShellTyped, ShellFields
<1>4. PICK loads \in BOOLEAN :
        /\ reading' = [reading EXCEPT !.blocked = loads, !.eax = IF loads THEN 0 ELSE -1]
        /\ shell' = [shell EXCEPT !.child = loads]
  BY DEF syscall_run
<1>5. /\ DOMAIN reading' = ReadingFields /\ reading'.blocked = loads /\ reading'.size = 0
      /\ reading'.count = 0 /\ reading'.bytes = reading.bytes
  BY <1>2, <1>3, <1>4 DEF ReadingFields
<1>6. /\ DOMAIN shell' = ShellFields /\ shell'.child = loads /\ shell'.out = shell.out
      /\ shell'.input = shell.input /\ shell'.pc = shell.pc
  BY <1>3, <1>4 DEF ShellFields
<1>7. QED
  BY <1>1, <1>5, <1>6

LEMMA EndStep ==
  ASSUME IInv, Typed, child_ends
  PROVE  /\ DOMAIN reading' = ReadingFields /\ reading'.blocked \in BOOLEAN
         /\ reading'.size = 0 /\ reading'.count = 0 /\ reading'.bytes = reading.bytes
         /\ DOMAIN shell' = ShellFields /\ shell'.child = FALSE /\ shell'.out = shell.out
         /\ shell'.input = shell.input /\ shell'.pc = shell.pc
         /\ call.name # "read" /\ call.name # "none"
<1>1. call.name \in {"exit", "exception"} /\ current = "child"
  BY DEF child_ends, Handling, Typed, CallTyped, ChildCalls
<1>2. reading.size = 0 /\ reading.count = 0 /\ reading.blocked = TRUE
  BY <1>1, ChildRuns, NoneRead
<1>3. DOMAIN reading = ReadingFields /\ DOMAIN shell = ShellFields
  BY DEF Typed, ReadingTyped, ReadingFields, ShellTyped, ShellFields
<1> DEFINE b == reading.blocked /\ call.name # "exit"
<1>4. /\ reading' = [reading EXCEPT !.blocked = b]
      /\ shell' = [shell EXCEPT !.child = FALSE]
  BY DEF child_ends
<1>5. b \in BOOLEAN
  OBVIOUS
<1> HIDE DEF b
<1>6. /\ DOMAIN reading' = ReadingFields /\ reading'.blocked = b /\ reading'.size = 0
      /\ reading'.count = 0 /\ reading'.bytes = reading.bytes
  BY <1>2, <1>3, <1>4 DEF ReadingFields
<1>7. /\ DOMAIN shell' = ShellFields /\ shell'.child = FALSE /\ shell'.out = shell.out
      /\ shell'.input = shell.input /\ shell'.pc = shell.pc
  BY <1>3, <1>4 DEF ShellFields
<1>8. QED
  BY <1>1, <1>5, <1>6, <1>7

\* A key leaves the read alone, or is one for the read that waits.
LEMMA KeyStep ==
  ASSUME IInv, Typed, irq_keyboard
  PROVE  \/ UNCHANGED reading
         \/ \E c : reading' = Delivered(reading, c) /\ Reads(reading, c) /\ reading.size > 0
<1>1. \/ UNCHANGED reading
      \/ \E c : reading' = Delivered(reading, c)
  BY DEF irq_keyboard, keyboard_key
<1>2. ASSUME NEW c, reading' = Delivered(reading, c)
      PROVE  UNCHANGED reading \/ (Reads(reading, c) /\ reading.size > 0)
  BY <1>2 DEF Delivered, Reads
<1>3. QED
  BY <1>1, <1>2

LEMMA NextReading ==
  ASSUME IInv, Typed, [Next]_vars PROVE ReadingTyped'
<1>0. ReadingTyped /\ ShellTyped
  BY DEF Typed
<1>1. CASE syscall_read
  <2>1. Loaded /\ shell.child = FALSE
    BY <1>1, ReadStep, ShellRuns
  <2>2. shell' = shell /\ Loaded' = Loaded
    BY <1>1 DEF syscall_read, Loaded, NothingToPrint
  <2>3. /\ DOMAIN reading' = ReadingFields /\ reading'.blocked = TRUE
        /\ reading'.size \in {InputSize, DataSize} /\ Array(reading'.bytes, reading'.size)
        /\ reading'.count = 0
    BY <1>1, ReadStep
  <2>4. reading'.count \in 0 .. reading'.size /\ reading'.count < reading'.size
    BY <2>3, SizesAre
  <2>5. QED
    BY <2>1, <2>2, <2>3, <2>4 DEF ReadingTyped, ReadingFields
<1>2. CASE syscall_run
  BY <1>2, RunStep, SizesAre DEF ReadingTyped, ReadingFields
<1>3. CASE child_ends
  BY <1>3, EndStep, SizesAre DEF ReadingTyped, ReadingFields
<1>4. CASE irq_keyboard
  <2>1. shell' = shell /\ Loaded' = Loaded
    BY <1>4 DEF irq_keyboard, Loaded, NothingToPrint
  <2>2. CASE UNCHANGED reading
    BY <1>0, <2>1, <2>2 DEF ReadingTyped
  <2>3. ASSUME NEW c, reading' = Delivered(reading, c), Reads(reading, c), reading.size > 0
        PROVE  ReadingTyped'
    <3>1. /\ DOMAIN reading' = ReadingFields /\ Array(reading'.bytes, reading.size)
          /\ IF c = "bs"
             THEN /\ reading'.count = (IF reading.count > 0 THEN reading.count - 1 ELSE 0)
                  /\ reading'.size = reading.size /\ reading'.blocked = TRUE
             ELSE IF reading.count + 1 >= reading.size \/ c = "\n"
             THEN reading'.size = 0 /\ reading'.count = 0 /\ reading'.blocked = FALSE
             ELSE reading'.size = reading.size /\ reading'.blocked = TRUE /\ reading'.count = reading.count + 1
      BY <1>0, <2>3, DeliveredIs DEF ReadingFields
    <3>2. PICK n \in Nat, k \in Nat : n = reading.size /\ k = reading.count /\ k < n
      BY <1>0, <2>3, SizesAre DEF ReadingTyped
    <3>3. /\ DOMAIN reading' = ReadingFields /\ reading'.blocked \in BOOLEAN
          /\ \/ reading'.size = 0 /\ reading'.count = 0
             \/ reading'.size = n /\ reading'.count \in 0 .. n - 1 /\ reading'.blocked = TRUE
          /\ Array(reading'.bytes, n)
      <4>1. CASE c = "bs"
        <5>1. IF k > 0 THEN reading'.count = k - 1 ELSE reading'.count = 0
          BY <3>1, <3>2, <4>1
        <5>2. reading'.count \in 0 .. n - 1
          BY <3>2, <5>1
        <5>3. QED
          BY <3>1, <3>2, <4>1, <5>2
      <4>2. CASE c # "bs"
        <5>1. CASE k + 1 >= n \/ c = "\n"
          BY <3>1, <3>2, <4>2, <5>1
        <5>2. CASE ~ (k + 1 >= n \/ c = "\n")
          <6>1. reading'.count = k + 1 /\ reading'.size = n /\ reading'.blocked = TRUE
            BY <3>1, <3>2, <4>2, <5>2
          <6>2. k + 1 \in 0 .. n - 1
            BY <3>2, <5>2
          <6>3. QED
            BY <3>1, <3>2, <6>1, <6>2
        <5>3. QED
          BY <5>1, <5>2
      <4>3. QED
        BY <4>1, <4>2
    <3>4. n \in {InputSize, DataSize} /\ ~ shell'.child /\ Loaded'
      BY <1>0, <2>1, <2>3, <3>2, SizesAre DEF ReadingTyped
    <3>5. QED
      BY <3>2, <3>3, <3>4, SizesAre DEF ReadingTyped, ReadingFields
  <2>4. QED
    BY <1>4, <2>2, <2>3, KeyStep
<1>5. CASE kernel_prints
  <2>1. shell' = shell /\ reading' = reading
    BY <1>5 DEF kernel_prints
  <2>2. Loaded => Loaded'
    BY <1>5, LoadedStays
  <2>3. QED
    BY <1>0, <2>1, <2>2 DEF ReadingTyped
<1>6. CASE ~ syscall_read /\ ~ syscall_run /\ ~ child_ends /\ ~ irq_keyboard /\ ~ kernel_prints
  <2>1. UNCHANGED reading /\ Loaded' = Loaded /\ shell'.child = shell.child
    BY <1>6, ReadingKept, LoadedKept, NextShellKept
  <2>2. QED
    BY <1>0, <2>1 DEF ReadingTyped
<1>7. QED
  BY <1>1, <1>2, <1>3, <1>4, <1>5, <1>6

LEMMA NextShellTyped ==
  ASSUME IInv, Typed, [Next]_vars PROVE ShellTyped'
<1>0. ShellTyped /\ ReadingTyped
  BY DEF Typed
<1>1. CASE syscall_run
  BY <1>0, <1>1, RunStep DEF ShellTyped, ShellFields
<1>2. CASE child_ends
  BY <1>0, <1>2, EndStep DEF ShellTyped, ShellFields
<1>3. CASE ~ syscall_run /\ ~ child_ends
  <2>1. /\ DOMAIN shell' = ShellFields /\ shell'.child = shell.child
        /\ shell'.out \in Seq(Texts) /\ Array(shell'.input, InputSize)
    BY <1>3, NextShellKept
  <2>2. shell.child => UNCHANGED reading
    <3>1. CASE syscall_read
      BY <3>1, ReadStep, ShellRuns
    <3>2. CASE irq_keyboard
      <4>1. shell.child => reading.size = 0
        BY <1>0 DEF ShellTyped
      <4>2. QED
        BY <3>2, <4>1, KeyStep
    <3>3. QED
      BY <1>3, <3>1, <3>2, ReadingKept
  <2>3. QED
    BY <1>0, <2>1, <2>2 DEF ShellTyped, ShellFields
<1>4. QED
  BY <1>1, <1>2, <1>3
LEMMA NextCurrent ==
  ASSUME IInv, Typed, [Next]_vars PROVE CurrentReady'
<1>0. CurrentReady /\ ReadingTyped /\ ShellTyped
  BY DEF Typed
<1>1. CASE syscall_read \/ child_ends
  <2>1. current' \in Ready(reading', shell')
    BY <1>1 DEF syscall_read, child_ends
  <2>2. Loaded' = Loaded /\ Created' = Created
    BY <1>1, SameBoot DEF syscall_read, child_ends
  <2>3. QED
    BY <2>1, <2>2 DEF CurrentReady, Ready
<1>2. CASE syscall_run
  <2>1. PICK loads \in BOOLEAN : reading'.blocked = loads /\ current = "shell"
    BY <1>2, RunStep
  <2>2. Loaded' = Loaded /\ Created' = Created /\ Loaded
    BY <1>2, <2>1, ShellRuns, SameBoot DEF syscall_run
  <2>3. CASE reading'.blocked
    <3>1. current' \in Ready(reading', shell')
      BY <1>2, <2>3 DEF syscall_run
    <3>2. QED
      BY <2>2, <3>1 DEF CurrentReady, Ready
  <2>4. CASE ~ reading'.blocked
    <3>1. current' = "shell"
      BY <1>2, <2>1, <2>4 DEF syscall_run
    <3>2. QED
      BY <2>2, <2>4, <3>1 DEF CurrentReady, Ready
  <2>5. QED
    BY <2>3, <2>4
<1>3. CASE irq_timer
  BY <1>3, SameBoot DEF irq_timer, CurrentReady, Ready
<1>4. CASE irq_keyboard
  <2>1. current' = current /\ shell' = shell /\ Loaded' = Loaded /\ Created' = Created
    BY <1>4, SameBoot DEF irq_keyboard
  <2>2. CASE UNCHANGED reading
    BY <1>0, <2>1, <2>2 DEF CurrentReady, Ready
  <2>3. CASE reading.size > 0
    <3>1. current \in KernelProcesses
      BY <2>3, ReadingRuns
    <3>2. QED
      BY <1>0, <2>1, <3>1 DEF CurrentReady, Ready, KernelProcesses
  <2>4. QED
    BY <1>4, <2>2, <2>3, KeyStep
<1>5. CASE kernel_prints
  <2>1. PICK p \in KernelProcesses : current = p /\ \A q \in KernelProcesses \ {p} : boot'[q] = boot[q]
    BY <1>5, PrintsBoot
  <2>2. current' = current
    BY <1>5 DEF kernel_prints
  <2>3. CASE p = "kernel_main"
    BY <2>1, <2>2, <2>3 DEF CurrentReady, Ready
  <2>4. CASE p # "kernel_main"
    <3>1. p = "test_process" /\ Created' = Created
      BY <2>1, <2>4, SameBoot DEF KernelProcesses
    <3>2. Created
      BY <1>0, <2>1, <3>1 DEF CurrentReady, Ready
    <3>3. QED
      BY <2>1, <2>2, <3>1, <3>2 DEF CurrentReady, Ready
  <2>5. QED
    BY <2>3, <2>4
<1>6. CASE /\ ~ syscall_read /\ ~ syscall_run /\ ~ child_ends /\ ~ irq_keyboard /\ ~ kernel_prints
           /\ ~ irq_timer
  <2>1. UNCHANGED reading /\ Loaded' = Loaded /\ Created' = Created /\ shell'.child = shell.child
    BY <1>6, ReadingKept, LoadedKept, NextShellKept
  <2>2. UNCHANGED current
    BY <1>6 DEF Next, vars, press, tick, leave, accept, irq_other,
       handler_prints, syscall_ends, child_exits, child_faults,
       shell_writes, shell_reads, shell_evaluates, command_fails, command_fs_ops,
       command_run, command_opens, shell_ran, data_reads, data_appends, data_stores
  <2>3. QED
    BY <1>0, <2>1, <2>2 DEF CurrentReady, Ready
<1>7. QED
  BY <1>1, <1>2, <1>3, <1>4, <1>5, <1>6

-----------------------------------------------------------------------------
(* Where the shell is *)

\* What the steps of the shell, by name, do to its place in the program.
LEMMA PlaceKept ==
  ASSUME Typed, NEW pc, NEW out, NEW data
  PROVE  /\ [shell EXCEPT !.pc = pc].pc = pc
         /\ [shell EXCEPT !.pc = pc, !.out = out].pc = pc
         /\ [shell EXCEPT !.pc = pc, !.data = data].pc = pc
         /\ [shell EXCEPT !.out = out].pc = shell.pc
  BY DEF Typed, ShellTyped

LEMMA AgainPlace ==
  ASSUME Typed PROVE (\A text : Again(text).pc = "read") /\ Fails.pc = "read"
<1>1. \A text : Again(text).pc = "read"
  BY DEF Again, Typed, ShellTyped
<1>2. QED
  BY <1>1 DEF Fails

\* The shell's place after each step of the shell.
LEMMA OpensPlace ==
  ASSUME Typed, command_opens PROVE shell'.pc \in {"read", "data"}
<1>1. \E name \in {"cat", "write"}, opened \in BOOLEAN : \E pieces \in FileTexts :
        shell' = IF ~ opened THEN Fails
                 ELSE IF name = "cat" THEN Again(pieces \o printf(<<"\n">>))
                 ELSE [shell EXCEPT !.pc = "data"]
  BY Zenon DEF command_opens
<1>2. PICK pieces \in FileTexts : \/ shell' = Fails
                                  \/ shell' = Again(pieces \o printf(<<"\n">>))
                                  \/ shell' = [shell EXCEPT !.pc = "data"]
  BY <1>1
<1>3. [shell EXCEPT !.pc = "data"].pc = "data"
  BY PlaceKept
<1>4. Fails.pc = "read" /\ Again(pieces \o printf(<<"\n">>)).pc = "read"
  BY AgainPlace
<1>5. QED
  BY <1>2, <1>3, <1>4, Zenon

LEMMA EvaluatesIs ==
  ASSUME Typed, shell_evaluates
  PROVE  \/ shell' = [shell EXCEPT !.pc = "lost"]
         \/ shell' = [shell EXCEPT !.pc = "spilled"]
         \/ \E words, count, n :
              shell' = Evaluated(words, count, memset(Terminated(reading.bytes, n), n - 1))
  BY Zenon DEF shell_evaluates, Evaluated

LEMMA EvaluatedIs ==
  ASSUME Typed, NEW words, NEW count, NEW input
  PROVE  LET s == Evaluated(words, count, input)
         IN  s.pc = "command" /\ s.words = words /\ s.input = input /\ s.data = <<>>
             /\ s.count = count /\ s.clean = shell.clean
  BY DEF Evaluated, Typed, ShellTyped

LEMMA EvaluatesPlace ==
  ASSUME Typed, shell_evaluates PROVE shell'.pc \in {"lost", "spilled", "command"}
<1>1. /\ [shell EXCEPT !.pc = "lost"].pc = "lost"
      /\ [shell EXCEPT !.pc = "spilled"].pc = "spilled"
  BY PlaceKept
<1>2. \A words, count, input : Evaluated(words, count, input).pc = "command"
  BY EvaluatedIs
<1>3. QED
  BY <1>1, <1>2, EvaluatesIs, Zenon

LEMMA AppendsIs ==
  ASSUME Typed, data_appends
  PROVE  LET data == shell.data \o SubSeq(reading.bytes, 1, reading.eax)
         IN  shell' = IF reading.bytes[reading.eax] = "\n"
                      THEN [shell EXCEPT !.pc = "store", !.data = Front(data)]
                      ELSE [shell EXCEPT !.pc = "data", !.data = data]
  BY DEF data_appends

LEMMA AppendsPlace ==
  ASSUME Typed, data_appends PROVE shell'.pc \in {"store", "data"}
<1> DEFINE data == shell.data \o SubSeq(reading.bytes, 1, reading.eax)
           rest == Front(data)
<1>1. shell' = IF reading.bytes[reading.eax] = "\n"
               THEN [shell EXCEPT !.pc = "store", !.data = rest]
               ELSE [shell EXCEPT !.pc = "data", !.data = data]
  BY AppendsIs
<1> HIDE DEF data, rest
<1>2. QED
  BY <1>1, PlaceKept

\* Steps of the shell that read nothing leave it elsewhere.
LEMMA ElsewherePlace ==
  ASSUME Typed, \/ shell_evaluates \/ command_fails \/ command_fs_ops \/ command_run
                \/ command_opens \/ shell_ran \/ data_appends \/ data_stores
  PROVE  shell'.pc \notin {"eval", "datum"}
<1>1. CASE shell_evaluates \/ command_opens \/ data_appends
  BY <1>1, EvaluatesPlace, OpensPlace, AppendsPlace
<1>2. CASE command_fails \/ command_fs_ops \/ shell_ran \/ data_stores
  <2>1. shell' = Fails \/ shell' = Again(<<>>)
    BY <1>2 DEF command_fails, command_fs_ops, shell_ran, data_stores
  <2>2. QED
    BY <2>1, AgainPlace
<1>3. CASE command_run
  BY <1>3, PlaceKept DEF command_run
<1>4. QED
  BY <1>1, <1>2, <1>3

\* The call each of them makes is no read.
LEMMA ElsewhereCall ==
  ASSUME Typed, \/ shell_evaluates \/ command_fails \/ command_fs_ops \/ command_run
                \/ command_opens \/ shell_ran \/ data_appends \/ data_stores
  PROVE  call'.name # "read"
<1>1. CASE shell_evaluates \/ command_fails \/ shell_ran \/ data_appends
  <2>1. frames = <<>> /\ call' = call
    BY <1>1 DEF shell_evaluates, command_fails, shell_ran, data_appends, At, Runs
  <2>2. call.name = "none"
    BY <2>1, NoneCalls DEF Typed
  <2>3. QED
    BY <2>1, <2>2
<1>2. CASE command_fs_ops \/ command_opens \/ data_stores
  <2>1. \E calls : call' = Files(calls)
    BY <1>2 DEF command_fs_ops, command_opens, data_stores, Trap
  <2>2. QED
    BY <2>1 DEF Files, Does
<1>3. CASE command_run
  BY <1>3 DEF command_run, Trap, Does
<1>4. QED
  BY <1>1, <1>2, <1>3

LEMMA NextLine ==
  ASSUME IInv, Typed, [Next]_vars PROVE LineTyped'
<1>0. LineTyped /\ ReadingTyped /\ CallTyped /\ ShellTyped
  BY DEF Typed
<1>1. CASE shell_reads
  <2>1. call' = Read(shell.input) /\ shell' = [shell EXCEPT !.pc = "eval"]
    BY <1>1 DEF shell_reads, Trap
  <2>2. call'.name = "read" /\ call'.bytes = shell.input /\ shell'.pc = "eval"
    BY <2>1, PlaceKept DEF Read, Does
  <2>3. QED
    BY <1>0, <2>2 DEF LineTyped, Line, ShellTyped
<1>2. CASE data_reads
  <2> DEFINE bytes == [k \in 1 .. DataSize |-> NUL]
  <2>1. call' = Read(bytes) /\ shell' = [shell EXCEPT !.pc = "datum"]
    BY <1>2 DEF data_reads, Trap
  <2>2. Array(bytes, DataSize)
    BY DEF Array
  <2> HIDE DEF bytes
  <2>3. call'.name = "read" /\ call'.bytes = bytes /\ shell'.pc = "datum"
    BY <2>1, PlaceKept DEF Read, Does
  <2>4. QED
    BY <2>2, <2>3 DEF LineTyped, Line
<1>3. CASE \/ shell_evaluates \/ command_fails \/ command_fs_ops \/ command_run
           \/ command_opens \/ shell_ran \/ data_appends \/ data_stores
  BY <1>3, ElsewherePlace, ElsewhereCall DEF LineTyped
<1>4. ASSUME call.name # "read", call'.name # "read", UNCHANGED <<reading, shell>>
      PROVE  LineTyped'
  BY <1>0, <1>4 DEF LineTyped, Line
<1>5. CASE shell_writes
  <2>1. call.name = "none" /\ UNCHANGED reading /\ shell' = [shell EXCEPT !.out = Tail(@)]
    BY <1>0, <1>5, NoneCalls DEF shell_writes, Runs
  <2>2. call'.name = "write"
    BY <1>5 DEF shell_writes, Trap, Write, Does
  <2>3. shell'.pc = shell.pc
    BY <2>1, PlaceKept
  <2>4. QED
    BY <1>0, <2>1, <2>2, <2>3 DEF LineTyped, Line
<1>6. CASE syscall_read
  <2>1. call' = Nothing /\ shell' = shell /\ reading'.bytes = call.bytes /\ call.name = "read"
    BY <1>6, ReadStep DEF syscall_read, Handling
  <2>2. call'.name = "none"
    BY <2>1, NothingTyped
  <2>3. QED
    BY <1>0, <2>1, <2>2 DEF LineTyped, Line
<1>7. CASE syscall_run \/ child_ends
  <2>1. call' = Nothing /\ shell'.pc = shell.pc /\ reading'.bytes = reading.bytes /\ call.name # "read"
    BY <1>7, RunStep, EndStep DEF syscall_run, child_ends
  <2>2. call'.name = "none"
    BY <2>1, NothingTyped
  <2>3. QED
    BY <1>0, <2>1, <2>2 DEF LineTyped, Line
<1>8. CASE syscall_ends
  <2>1. call' = Nothing /\ UNCHANGED <<reading, shell>> /\ call.name # "read"
    BY <1>8 DEF syscall_ends, Handling
  <2>2. QED
    BY <1>4, <2>1, NothingTyped
<1>9. CASE child_exits \/ child_faults
  <2>1. call.name = "none" /\ UNCHANGED <<reading, shell>>
    BY <1>0, <1>9, NoneCalls DEF child_exits, child_faults, Runs
  <2>2. call'.name \in {"exit", "exception"}
    BY <1>9 DEF child_exits, child_faults, Trap, Does
  <2>3. QED
    BY <1>4, <2>1, <2>2
<1>10. CASE handler_prints
  <2>1. UNCHANGED <<reading, shell>> /\ call.name \in {"write", "files", "exception"}
        /\ \E q : call' = [call EXCEPT !.print = q]
    BY <1>10 DEF handler_prints, Handling
  <2>2. call'.name = call.name
    BY <1>0, <2>1 DEF CallTyped
  <2>3. QED
    BY <1>4, <2>1, <2>2
<1>11. CASE irq_keyboard
  <2>1. call.name = "none" /\ UNCHANGED <<shell, call>>
    BY <1>0, <1>11 DEF irq_keyboard, Irq, CallTyped
  <2>2. CASE UNCHANGED reading
    BY <1>4, <2>1, <2>2
  <2>3. ASSUME NEW c, reading' = Delivered(reading, c), Reads(reading, c), reading.size > 0
        PROVE  LineTyped'
    <3>1. Array(reading'.bytes, reading.size) /\ Array(reading.bytes, reading.size)
      BY <1>0, <2>3, DeliveredIs DEF ReadingTyped
    <3>2. DOMAIN reading'.bytes = DOMAIN reading.bytes /\ reading'.bytes = [k \in DOMAIN reading'.bytes |-> reading'.bytes[k]]
      BY <3>1 DEF Array
    <3>3. Line = reading.bytes /\ Line' = reading'.bytes
      BY <2>1 DEF Line
    <3>4. QED
      BY <1>0, <2>1, <3>2, <3>3 DEF LineTyped, Array
  <2>4. QED
    BY <1>11, <2>2, <2>3, KeyStep
<1>12. ASSUME UNCHANGED <<call, reading, shell>> PROVE LineTyped'
  BY <1>0, <1>12 DEF LineTyped, Line
<1>13. CASE UNCHANGED vars \/ kernel_prints \/ press \/ tick \/ leave
            \/ (\E line \in Lines : accept(line)) \/ irq_timer \/ irq_other
  BY <1>12, <1>13 DEF vars, kernel_prints, press, tick, leave, accept, irq_timer, irq_other
<1>14. QED
  BY <1>1, <1>2, <1>3, <1>5, <1>6, <1>7, <1>8, <1>9, <1>10, <1>11, <1>13 DEF Next

-----------------------------------------------------------------------------
LEMMA InitTyped == Init => Typed
<1> SUFFICES ASSUME Init PROVE Typed
  OBVIOUS
<1>1. /\ terminal = vga_text_clear([row |-> 0, column |-> 0, cells |-> <<>>])
      /\ shift = FALSE /\ raised = {} /\ current = "kernel_main"
      /\ boot = [p \in KernelProcesses |->
                   Printing(IF p = "kernel_main" THEN BootCalls
                            ELSE IF keys.test THEN TestCalls ELSE <<>>)]
      /\ call = Nothing /\ reading = Idle
  BY DEF Init, InterruptsOn
<1>2. Screen(terminal)
  BY <1>1, ClearIs
<1>3. BootTyped
  <2>1. ASSUME NEW p \in KernelProcesses PROVE PrintTyped(boot[p])
    <3> DEFINE calls == IF p = "kernel_main" THEN BootCalls
                        ELSE IF keys.test THEN TestCalls ELSE <<>>
    <3>1. boot[p] = Printing(calls)
      BY <1>1
    <3>2. calls \in Seq(VgaCalls)
      BY ConsoleAssumption
    <3> HIDE DEF calls
    <3>3. QED
      BY <3>1, <3>2, PrintingTyped
  <2>2. QED
    BY <1>1, <2>1 DEF BootTyped
<1>4. CallTyped /\ call.name = "none"
  BY <1>1, NothingTyped DEF CallTyped, ShellCalls, ChildCalls
<1>5. PICK bytes \in StackBytes :
        shell = [pc |-> "read", out |-> printf(Prompt), input |-> bytes, words |-> <<>>,
                 count |-> 0, data |-> <<>>, child |-> FALSE,
                 clean |-> \A k \in DOMAIN bytes : bytes[k] = NUL]
  BY DEF Init
<1>6. /\ shell.pc = "read" /\ shell.out = printf(Prompt) /\ shell.input = bytes /\ shell.child = FALSE
      /\ DOMAIN shell = ShellFields
  BY <1>5 DEF ShellFields
<1>7. Array(bytes, InputSize)
  BY ArrayOf, ConsoleAssumption
<1>8. ShellTyped
  <2>1. printf(Prompt) \in Seq(Texts)
    BY PrintfTyped, ConsoleAssumption
  <2>2. QED
    BY <1>6, <1>7, <2>1 DEF ShellTyped, ShellFields
<1>9. ReadingTyped
  BY <1>1 DEF ReadingTyped, Idle
<1>10. LineTyped
  BY <1>4, <1>6 DEF LineTyped
<1>11. CurrentReady
  BY <1>1 DEF CurrentReady, Ready
<1>12. QED
  BY <1>1, <1>2, <1>3, <1>4, <1>8, <1>9, <1>10, <1>11 DEF Typed

LEMMA NextTyped == ASSUME IInv, Typed, [Next]_vars PROVE Typed'
<1>1. Screen(terminal)' /\ BootTyped' /\ CallTyped' /\ ReadingTyped' /\ ShellTyped' /\ LineTyped'
  BY NextScreen, NextBoot, NextCall, NextReading, NextShellTyped, NextLine DEF Screen, PrintTyped
<1>2. raised' \subseteq Lines /\ shift' \in BOOLEAN
  BY NextLines
<1>3. CurrentReady'
  BY NextCurrent
<1>4. QED
  BY <1>1, <1>2, <1>3 DEF Typed

LEMMA TypedIsOK == ASSUME IInv, Typed PROVE TypeOK
<1>1. served \subseteq Lines \cup {2}
  <2>1. CASE frames = <<>>
    <3>1. served = {}
      BY <2>1, ServedByNone DEF IInv
    <3>2. QED
      BY <3>1
  <2>2. CASE frames # <<>>
    <3>1. PICK n \in Vectors, step \in {"handler", "iret"} :
            served = IF n \in 32 .. 47 /\ step = "handler" THEN {n - 32, Through(n - 32)} ELSE {}
      BY <2>2, FromOneFrame
    <3>2. CASE n \in 32 .. 47 /\ step = "handler"
      <4>1. n \in {32, 33, 46}
        BY <3>2 DEF Vectors, SyscallVector
      <4>2. n - 32 \in {0, 1, 14} /\ Through(n - 32) \in {0, 1, 2}
        BY <4>1 DEF Through
      <4>3. QED
        BY <3>1, <3>2, <4>2, ConsoleAssumption
    <3>3. QED
      BY <3>1, <3>2
  <2>3. QED
    BY <2>1, <2>2
<1>2. InterruptsTypeOK
  BY <1>1 DEF InterruptsTypeOK, IInv, Typed
<1>3. Len(shell.input) = InputSize
  BY ArrayIs, SizesAre DEF Typed, ShellTyped
<1>4. terminal.row \in Nat /\ terminal.column \in 0 .. Word - 1 /\ DOMAIN terminal.cells = Cells
  BY DEF Typed, Screen
<1>5. reading.count \in 0 .. reading.size
  BY DEF Typed, ReadingTyped
<1>6. QED
  BY <1>2, <1>3, <1>4, <1>5 DEF TypeOK, Typed, CurrentReady, IInv

\* The types of the whole console: the screen keeps its cells, the cursor is two
\* numbers (neither need lie on the screen), only a ready process runs, and a read
\* never counts more than its array holds.
THEOREM ConsoleTypes == Spec => []TypeOK
<1>1. Init => IInv /\ Typed
  BY InitIInv, InitTyped
<1>2. (IInv /\ Typed) /\ [Next]_vars => (IInv /\ Typed)'
  BY NextIInv, NextTyped
<1>3. IInv /\ Typed => TypeOK
  BY TypedIsOK
<1>4. QED
  BY <1>1, <1>2, <1>3, PTL DEF Spec
-----------------------------------------------------------------------------
(* What a call prints *)

\* The call in progress has written its characters one cell after another.
Intact(p, t) ==
  LET now == Head(p.calls)
  IN  /\ p.calls # <<>> /\ now.name # "digits" /\ p.done > 0 /\ p.from \in Cells
      /\ "\n" \notin ToSet(now.text)
      => /\ p.pos = p.from + p.done /\ Index(t) = (p.from + p.done) % Size
         /\ \A k \in 1 .. p.done : t.cells[(p.from + k - 1) % Size] = now.text[k]

LEMMA FreshIntact == ASSUME NEW calls, NEW t PROVE Intact(Printing(calls), t)
  BY DEF Intact, Printing

LEMMA IntactStep ==
  ASSUME NEW p, PrintTyped(p), p.calls # <<>>, NEW t, Screen(t), Intact(p, t)
  PROVE  Intact(Printed(p, t).print, Printed(p, t).terminal)
<1> DEFINE now  == Head(p.calls)
           pos  == IF p.done = 0 THEN Index(t) ELSE p.pos
           from == IF p.done = 0 THEN pos ELSE p.from
           c    == now.text[p.done + 1]
           next == IF now.name = "digits"
                   THEN [terminal |-> Digit(t, now.text, c), pos |-> pos]
                   ELSE WriteChar([terminal |-> t, pos |-> pos], c)
           q    == [p EXCEPT !.done = @ + 1, !.pos = next.pos, !.from = from]
<1>1. now.text \in Seq(Chars) /\ Len(now.text) <= Size /\ p.done \in Nat /\ p.done <= Len(now.text)
  <2>1. p.calls \in Seq(VgaCalls)
    BY DEF PrintTyped
  <2>2. now \in VgaCalls
    BY <2>1, HeadTailProperties
  <2>3. p.done \in Nat /\ p.done <= Len(now.text)
    BY DEF PrintTyped
  <2> HIDE DEF now
  <2>4. QED
    BY <2>2, <2>3 DEF VgaCalls, Texts
<1>2. CASE p.done = Len(now.text)
  <2>1. Printed(p, t).print = Printing(Tail(p.calls))
    BY <1>2 DEF Printed
  <2>2. QED
    BY <2>1, FreshIntact
<1>3. CASE p.done # Len(now.text)
  <2>1. Printed(p, t).terminal = next.terminal /\ Printed(p, t).print = q
    BY <1>3 DEF Printed
  <2>2. q.calls = p.calls /\ q.done = p.done + 1 /\ q.pos = next.pos /\ q.from = from
    BY DEF PrintTyped
  <2> HIDE DEF q
  <2>3. SUFFICES ASSUME now.name # "digits", from \in Cells, "\n" \notin ToSet(now.text)
                 PROVE  LET u == next.terminal
                        IN  /\ next.pos = from + (p.done + 1) /\ Index(u) = (from + (p.done + 1)) % Size
                            /\ \A k \in 1 .. p.done + 1 : u.cells[(from + k - 1) % Size] = now.text[k]
    BY <2>1, <2>2 DEF Intact, now
  <2> DEFINE u == next.terminal
  <2>4. PICK d \in Nat : d = p.done /\ d + 1 <= Size /\ d + 1 <= Len(now.text)
    BY <1>1, <1>3, SizeIs
  <2>5. PICK f \in 0 .. Size - 1 : f = from
    BY <2>3, SizeIs
  <2>6. /\ pos = f + d /\ Index(t) = (f + d) % Size
        /\ \A k \in 1 .. d : t.cells[(f + k - 1) % Size] = now.text[k]
    <3>1. CASE p.done = 0
      <4>1. d = 0 /\ pos = f /\ Index(t) = f
        BY <2>4, <2>5, <3>1
      <4>2. f % Size = f /\ f + 0 = f
        BY SizeIs
      <4>3. QED
        BY <4>1, <4>2
    <3>2. CASE p.done # 0
      <4>1. p.done > 0 /\ from = p.from /\ pos = p.pos
        BY <1>1, <3>2
      <4>2. /\ p.pos = p.from + p.done /\ Index(t) = (p.from + p.done) % Size
            /\ \A k \in 1 .. p.done : t.cells[(p.from + k - 1) % Size] = now.text[k]
        BY <2>3, <4>1 DEF Intact
      <4> HIDE DEF now
      <4>3. QED
        BY <2>4, <2>5, <4>1, <4>2
    <3>3. QED
      BY <3>1, <3>2
  <2>7. c = now.text[d + 1] /\ c # "\n"
    <3>1. d + 1 \in DOMAIN now.text
      BY <1>1, <2>4
    <3>2. QED
      BY <2>3, <2>4, <3>1 DEF ToSet
  <2>8. next.pos = f + d + 1 /\ Wrote(t, u, c, f + d + 1)
    <3>1. next = WriteChar([terminal |-> t, pos |-> f + d], c)
      BY <2>3, <2>6
    <3>2. f + d \in Nat /\ (f + d) + 1 < 2 * Size
      BY <2>4, SizeIs
    <3> HIDE DEF next, c
    <3>3. QED
      BY <2>7, <3>1, <3>2, WriteCharIs
  <2> HIDE DEF u, next, c, from, pos
  <2>9. Index(u) = (f + d + 1) % Size /\ \A i \in Cells : u.cells[i] = IF i = Index(t) THEN c ELSE t.cells[i]
    BY <2>8, Zenon DEF Wrote
  <2>10. ASSUME NEW k \in 1 .. d + 1 PROVE u.cells[(f + k - 1) % Size] = now.text[k]
    <3>1. PICK j \in 0 .. Size - 1 : j = k - 1
      BY <2>4, SizeIs
    <3>2. (f + j) % Size \in Cells /\ f + k - 1 = f + j
      BY <3>1, SizeIs
    <3>3. CASE k = d + 1
      <4>1. f + k - 1 = f + d
        BY <3>3
      <4>2. u.cells[(f + d) % Size] = c
        BY <2>6, <2>9, <3>2, <4>1
      <4>3. QED
        BY <2>7, <3>3, <4>1, <4>2
    <3>4. CASE k # d + 1
      <4>1. k \in 1 .. d /\ d \in 0 .. Size - 1 /\ j # d
        BY <2>4, <3>1, <3>4, SizeIs
      <4>2. (f + j) % Size # (f + d) % Size
        BY <4>1, Apart, SizeIs
      <4> HIDE DEF now
      <4>3. QED
        BY <2>6, <2>9, <3>2, <4>1, <4>2
    <3>5. QED
      BY <3>3, <3>4
  <2>11. from + (p.done + 1) = f + d + 1
    BY <2>4, <2>5
  <2> HIDE DEF now
  <2>12. \A k \in 1 .. p.done + 1 : u.cells[(from + k - 1) % Size] = now.text[k]
    BY <2>4, <2>5, <2>10
  <2>13. next.pos = from + (p.done + 1) /\ Index(u) = (from + (p.done + 1)) % Size
    BY <2>8, <2>9, <2>11
  <2>14. QED
    BY <2>12, <2>13 DEF u
<1>4. QED
  BY <1>2, <1>3

\* While a call prints, only its handler writes to the screen.
LEMMA NextIntact ==
  ASSUME IInv, Typed, Intact(call.print, terminal), [Next]_vars
  PROVE  Intact(call'.print, terminal')
<1>0. CallTyped /\ Screen(terminal)
  BY DEF Typed
<1>1. CASE handler_prints
  <2> DEFINE q == Printed(call.print, terminal)
  <2>1. PrintTyped(call.print) /\ call.print.calls # <<>>
    BY <1>0, <1>1 DEF CallTyped, handler_prints, NothingToPrint
  <2>2. Intact(q.print, q.terminal)
    BY <1>0, <2>1, IntactStep
  <2>3. terminal' = q.terminal /\ call' = [call EXCEPT !.print = q.print]
    BY <1>1 DEF handler_prints
  <2> HIDE DEF q
  <2>4. call'.print = q.print
    BY <1>0, <2>3 DEF CallTyped
  <2>5. QED
    BY <2>2, <2>3, <2>4
<1>2. ASSUME UNCHANGED call, call.name = "none" PROVE Intact(call'.print, terminal')
  <2>1. call.print.calls = <<>>
    BY <1>0, <1>2 DEF CallTyped
  <2>2. QED
    BY <1>2, <2>1 DEF Intact
<1>3. CASE irq_keyboard
  BY <1>0, <1>2, <1>3 DEF irq_keyboard, Irq, CallTyped
<1>4. CASE kernel_prints
  <2>1. call' = call /\ frames = <<>>
    BY <1>4 DEF kernel_prints, Runs
  <2>2. QED
    BY <1>0, <1>2, <2>1, NoneCalls
<1>5. ASSUME NEW name, NEW calls, NEW bytes, call' = Does(name, calls, bytes)
      PROVE  Intact(call'.print, terminal')
  BY <1>5, FreshIntact DEF Does
<1>6. CASE syscall_ends \/ syscall_read \/ syscall_run \/ child_ends
  BY <1>5, <1>6 DEF syscall_ends, syscall_read, syscall_run, child_ends, Nothing
<1>7. CASE child_exits \/ child_faults \/ shell_writes \/ shell_reads
  BY <1>5, <1>7 DEF child_exits, child_faults, shell_writes, shell_reads, Trap, Write, Read
<1>8. CASE command_fs_ops \/ command_run \/ command_opens \/ data_reads \/ data_stores
  BY <1>5, <1>8 DEF command_fs_ops, command_run, command_opens, data_reads, data_stores, Trap, Read, Files
<1>9. ASSUME UNCHANGED <<call, terminal>> PROVE Intact(call'.print, terminal')
  BY <1>9
<1>10. CASE UNCHANGED vars \/ press \/ tick \/ leave \/ (\E line \in Lines : accept(line))
            \/ irq_timer \/ irq_other
  BY <1>9, <1>10 DEF vars, press, tick, leave, accept, irq_timer, irq_other
<1>11. CASE shell_evaluates \/ command_fails \/ shell_ran \/ data_appends
  BY <1>9, <1>11 DEF shell_evaluates, command_fails, shell_ran, data_appends
<1>12. QED
  BY <1>1, <1>3, <1>4, <1>6, <1>7, <1>8, <1>10, <1>11 DEF Next

LEMMA IntactIsWhole == ASSUME Typed, Intact(call.print, terminal) PROVE OutputIntact
<1> DEFINE p == call.print
           now == Head(p.calls)
<1> SUFFICES ASSUME p.calls # <<>>, now.name # "digits", p.done = Len(now.text),
                    p.done > 0, p.from \in Cells, "\n" \notin ToSet(now.text)
             PROVE  Shows(p.from, now.text)
  BY DEF OutputIntact
<1>1. \A k \in 1 .. p.done : terminal.cells[(p.from + k - 1) % Size] = now.text[k]
  BY DEF Intact
<1>2. now.text \in Seq(Chars)
  <2>1. p.calls \in Seq(VgaCalls)
    BY DEF Typed, CallTyped, PrintTyped
  <2>2. now \in VgaCalls
    BY <2>1, HeadTailProperties
  <2> HIDE DEF now
  <2>3. QED
    BY <2>2 DEF VgaCalls, Texts
<1>3. DOMAIN now.text = 1 .. p.done
  BY <1>2
<1> HIDE DEF now, p
<1>4. QED
  BY <1>1, <1>3 DEF Shows

\* Whatever is printed and whoever else runs: what a system call or an
\* exception prints stands on the screen whole when the driver returns.
THEOREM OutputStaysIntact == Spec => []OutputIntact
<1> DEFINE Inv == IInv /\ Typed /\ Intact(call.print, terminal)
<1>1. Init => Inv
  <2>1. ASSUME Init PROVE Intact(call.print, terminal)
    BY <2>1, FreshIntact DEF Init, Nothing, Does
  <2>2. QED
    BY <2>1, InitIInv, InitTyped
<1>2. Inv /\ [Next]_vars => Inv'
  BY NextIInv, NextTyped, NextIntact DEF Intact
<1>3. Inv => OutputIntact
  BY IntactIsWhole
<1>4. QED
  BY <1>1, <1>2, <1>3, PTL DEF Spec
-----------------------------------------------------------------------------
(* What a read shows *)

\* The n characters of a line that starts at cell f stand in its cells, and the
\* cursor behind them.
Stands(t, f, n, bytes) ==
  /\ Index(t) = (f + n) % Size
  /\ \A k \in 1 .. n : t.cells[(f + k - 1) % Size] = bytes[k]
  /\ n > 0 => OnScreen(t)

EchoInv ==
  /\ DOMAIN echo = {"from", "inStep"}
  /\ reading.size > 0 /\ echo.inStep =>
       echo.from \in Cells /\ Stands(terminal, echo.from, reading.count, reading.bytes)

\* The cell after a cell of the line.
LEMMA NextCell ==
  ASSUME NEW p \in Nat, p + 1 < 2 * Size
  PROVE  /\ ((p % Size) + 1) % Size = (p + 1) % Size
         /\ (p + 1) % Size # 0 => ((p + 1) % Size) - 1 = p % Size
         /\ p % Size \in Cells
<1>1. PICK z \in Nat \ {0} : z = Size
  BY SizeIs
<1>2. PICK p1 \in Nat : p1 = p + 1 /\ p1 < 2 * z
  BY <1>1
<1>3. p % z = IF p < z THEN p ELSE p - z
  <2>1. p < 2 * z
    BY <1>2
  <2>2. QED
    BY <2>1, Around
<1>4. p1 % z = IF p1 < z THEN p1 ELSE p1 - z
  BY <1>2, Around
<1>5. PICK q \in 0 .. z - 1 : q = p % z
  OBVIOUS
<1>6. PICK q1 \in Nat : q1 = q + 1 /\ q1 < 2 * z
  BY <1>5
<1>7. q1 % z = IF q1 < z THEN q1 ELSE q1 - z
  BY <1>6, Around
<1>8. q1 % z = p1 % z /\ (p1 % z # 0 => (p1 % z) - 1 = q)
  BY <1>2, <1>3, <1>4, <1>5, <1>6, <1>7
<1>9. q \in Cells
  BY <1>1, <1>5, SizeIs
<1>10. QED
  BY <1>1, <1>2, <1>5, <1>6, <1>8, <1>9

\* One more character.
LEMMA StandsTyped ==
  ASSUME NEW t, Screen(t), NEW f \in Cells, NEW n \in Nat, n + 1 < Size, NEW bytes, Stands(t, f, n, bytes),
         NEW c, c # "\n", NEW more, \A k \in 1 .. n + 1 : more[k] = IF k = n + 1 THEN c ELSE bytes[k]
  PROVE  Stands(vga_text_write(t, <<c>>), f, n + 1, more)
<1> DEFINE u == vga_text_write(t, <<c>>)
<1>1. f \in 0 .. Size - 1 /\ f + n + 1 < 2 * Size /\ f + n < 2 * Size
  BY SizeIs
<1>2. Index(t) = (f + n) % Size /\ Index(t) \in Cells
  BY <1>1, SizeIs DEF Stands
<1>3. Wrote(t, u, c, Index(t) + 1)
  BY <1>2, WriteOne
<1> HIDE DEF u
<1>4. OnScreen(u) /\ Index(u) = (Index(t) + 1) % Size
      /\ \A i \in Cells : u.cells[i] = IF i = Index(t) THEN c ELSE t.cells[i]
  BY <1>3 DEF Wrote
<1>5. (Index(t) + 1) % Size = (f + (n + 1)) % Size
  <2>1. PICK p \in Nat : p = f + n /\ p + 1 < 2 * Size /\ p < 2 * Size /\ f + (n + 1) = p + 1
    BY <1>1
  <2>2. ((p % Size) + 1) % Size = (p + 1) % Size
    BY <2>1, NextCell
  <2>3. QED
    BY <1>2, <2>1, <2>2
<1>6. ASSUME NEW k \in 1 .. n + 1 PROVE u.cells[(f + k - 1) % Size] = more[k]
  <2>1. PICK j \in 0 .. Size - 1 : j = k - 1 /\ f + k - 1 = f + j
    BY <1>1, SizeIs
  <2>2. (f + j) % Size \in Cells
    BY <1>1, SizeIs
  <2>3. CASE k = n + 1
    <3>1. f + j = f + n
      BY <2>1, <2>3
    <3>2. u.cells[(f + n) % Size] = c
      BY <1>2, <1>4
    <3>3. QED
      BY <2>1, <2>3, <3>1, <3>2
  <2>4. CASE k # n + 1
    <3>1. k \in 1 .. n /\ n \in 0 .. Size - 1 /\ j # n
      BY <2>1, <2>4, SizeIs
    <3>2. (f + j) % Size # (f + n) % Size
      BY <1>1, <3>1, Apart, SizeIs
    <3>3. t.cells[(f + k - 1) % Size] = bytes[k]
      BY <3>1 DEF Stands
    <3>4. u.cells[(f + j) % Size] = t.cells[(f + j) % Size]
      BY <1>2, <1>4, <2>2, <3>2
    <3>5. QED
      BY <2>1, <2>4, <3>3, <3>4
  <2>5. QED
    BY <2>3, <2>4
<1>7. QED
  BY <1>4, <1>5, <1>6 DEF Stands, u

\* One character less.
LEMMA StandsBack ==
  ASSUME NEW t, Screen(t), NEW f \in Cells, NEW n \in Nat, n + 1 <= Size, NEW bytes, Stands(t, f, n + 1, bytes),
         t.column = 0 => t.row > 0 /\ bytes[n + 1] # Blank,
         NEW less, \A k \in 1 .. n : less[k] = bytes[k]
  PROVE  Stands(vga_text_backspace(t), f, n, less)
<1> DEFINE u == vga_text_backspace(t)
<1>1. f \in 0 .. Size - 1 /\ f + n + 1 < 2 * Size /\ f + n < 2 * Size
  BY SizeIs
<1>2. OnScreen(t) /\ Index(t) = (f + (n + 1)) % Size
  BY DEF Stands
<1>3. Index(t) # 0
  <2>1. PICK r \in Nat : r = t.row
    BY DEF Screen
  <2>2. PICK c \in Nat : c = t.column
    BY SizeIs DEF Screen
  <2>3. Index(t) = r * Width + c
    BY <1>2, <2>1, <2>2, IndexOn
  <2>4. CASE c = 0
    <3>1. PICK h \in Nat : r = h + 1
      <4>1. r - 1 \in Nat /\ r = (r - 1) + 1
        BY <2>1, <2>2, <2>4
      <4>2. QED
        BY <4>1
    <3>2. (h + 1) * Width = h * Width + Width /\ h * Width \in Nat
      BY SizeIs
    <3>3. QED
      BY <2>3, <2>4, <3>1, <3>2, SizeIs
  <2>5. CASE c # 0
    <3>1. r * Width \in Nat
      BY SizeIs
    <3>2. QED
      BY <2>3, <2>5, <3>1
  <2>6. QED
    BY <2>4, <2>5
<1>4. Index(t) - 1 = (f + n) % Size /\ (f + n) % Size \in Cells
  <2>1. PICK p \in Nat : p = f + n /\ p + 1 < 2 * Size /\ p < 2 * Size /\ f + (n + 1) = p + 1
    BY <1>1
  <2>2. Index(t) = (p + 1) % Size
    BY <1>2, <2>1
  <2>3. Index(t) - 1 = p % Size /\ p % Size \in Cells
    BY <1>3, <2>1, <2>2, NextCell
  <2>4. QED
    BY <2>1, <2>3
<1>5. t.column = 0 => t.cells[Index(t) - 1] # Blank
  <2>1. n + 1 \in 1 .. n + 1 /\ f + (n + 1) - 1 = f + n
    BY <1>1
  <2>2. t.cells[(f + (n + 1) - 1) % Size] = bytes[n + 1]
    BY <2>1 DEF Stands
  <2>3. QED
    BY <1>4, <2>1, <2>2
<1>6. OnScreen(u) /\ Index(u) = Index(t) - 1
      /\ \A i \in Cells : u.cells[i] = IF i = Index(t) - 1 THEN Blank ELSE t.cells[i]
  BY <1>2, <1>3, <1>5, BackIs
<1> HIDE DEF u
<1>7. ASSUME NEW k \in 1 .. n PROVE u.cells[(f + k - 1) % Size] = less[k]
  <2>1. PICK j \in 0 .. Size - 1 : j = k - 1 /\ f + k - 1 = f + j
    BY <1>1, SizeIs
  <2>2. (f + j) % Size \in Cells
    BY <1>1, SizeIs
  <2>3. k \in 1 .. n + 1 /\ n \in 0 .. Size - 1 /\ j # n
    BY <2>1, SizeIs
  <2>4. (f + j) % Size # (f + n) % Size
    BY <1>1, <2>3, Apart, SizeIs
  <2>5. t.cells[(f + k - 1) % Size] = bytes[k]
    BY <2>3 DEF Stands
  <2>6. u.cells[(f + j) % Size] = t.cells[(f + j) % Size]
    BY <1>4, <1>6, <2>2, <2>4
  <2>7. QED
    BY <2>1, <2>5, <2>6
<1>8. QED
  BY <1>4, <1>6, <1>7 DEF Stands, u

LEMMA EchoedIs ==
  ASSUME NEW t, NEW c, c \notin {"esc", "\t", NUL}
  PROVE  Echoed(t, c) = IF c = "bs" THEN vga_text_backspace(t) ELSE vga_text_write(t, <<c>>)
<1>1. NUL # "esc" /\ NUL # "\t" /\ NUL # "bs"
  BY DEF NUL
<1>2. QED
  BY <1>1 DEF Echoed

\* A key that takes one cell.
LEMMA KeyEcho ==
  ASSUME Typed, EchoInv, irq_keyboard, NEW c, keyboard_key(c)
  PROVE  EchoInv'
<1> SUFFICES ASSUME reading'.size > 0, echo'.inStep
             PROVE  echo'.from \in Cells /\ Stands(terminal', echo'.from, reading'.count, reading'.bytes)
  BY DEF EchoInv, keyboard_key
<1>1. echo'.from = echo.from /\ echo.inStep /\ InStep(c)
  BY DEF EchoInv, keyboard_key
<1>2. terminal' = Echoed(terminal, c) /\ reading' = Delivered(reading, c)
  BY DEF keyboard_key
<1>3. ReadingTyped /\ Screen(terminal)
  BY DEF Typed
<1>4. reading.size > 0 /\ (~ Reads(reading, c) => reading' = reading)
  BY <1>2 DEF Delivered, Reads
<1>5. echo.from \in Cells /\ Stands(terminal, echo.from, reading.count, reading.bytes)
  BY <1>1, <1>4 DEF EchoInv
<1>6. CASE c = NUL
  <2>1. ~ Reads(reading, c) /\ NUL # "esc" /\ NUL # "\t" /\ NUL # "bs"
    BY <1>6 DEF Reads, NUL
  <2>2. terminal' = terminal
    BY <1>2, <1>6, <2>1 DEF Echoed
  <2>3. QED
    BY <1>1, <1>4, <1>5, <2>1, <2>2
<1>7. CASE c # NUL
  <2>1. c \notin {"esc", "\t", NUL}
    BY <1>1, <1>7 DEF InStep
  <2>2. Reads(reading, c)
    BY <1>3, <1>4, <2>1 DEF Reads, ReadingTyped
  <2>3. PICK n \in Nat, k \in Nat : n = reading.size /\ k = reading.count /\ k < n /\ n <= Size
    BY <1>3, <1>4, SizesAre DEF ReadingTyped
  <2>4. terminal' = IF c = "bs" THEN vga_text_backspace(terminal) ELSE vga_text_write(terminal, <<c>>)
    BY <1>2, <2>1, EchoedIs
  <2>5. CASE c = "bs"
    <3>1. k > 0 /\ (terminal.column = 0 => terminal.row > 0 /\ reading.bytes[k] # Blank)
      BY <1>1, <2>3, <2>5 DEF InStep
    <3>2. PICK m \in Nat : k = m + 1
      <4>1. k - 1 \in Nat /\ k = (k - 1) + 1
        BY <3>1
      <4>2. QED
        BY <4>1
    <3>3. reading'.count = m /\ \A i \in 1 .. m : reading'.bytes[i] = reading.bytes[i]
      <4>1. /\ reading'.count = (IF reading.count > 0 THEN reading.count - 1 ELSE 0)
            /\ \A i \in 1 .. reading.size :
                 reading'.bytes[i] = IF i = reading'.count + 1 THEN NUL ELSE reading.bytes[i]
        <5> DEFINE r == Delivered(reading, c)
        <5>1. /\ r.count = (IF reading.count > 0 THEN reading.count - 1 ELSE 0)
              /\ \A i \in 1 .. reading.size :
                   r.bytes[i] = IF i = r.count + 1 THEN NUL ELSE reading.bytes[i]
          BY <1>3, <2>2, <2>5, DeliveredIs
        <5> HIDE DEF r
        <5>2. reading' = r
          BY <1>2 DEF r
        <5>3. QED
          BY <5>1, <5>2
      <4>2. reading'.count = m
        <5>1. reading'.count = (IF reading.count > 0 THEN reading.count - 1 ELSE 0)
          BY <4>1
        <5>2. reading'.count = k - 1
          BY <2>3, <3>1, <5>1
        <5>3. QED
          BY <3>2, <5>2
      <4>3. \A i \in 1 .. m : i \in 1 .. reading.size /\ i # m + 1
        BY <2>3, <3>2
      <4>4. QED
        BY <4>1, <4>2, <4>3
    <3>4. m + 1 <= Size
      BY <2>3, <3>2, SizeIs
    <3>5. Stands(terminal, echo.from, m + 1, reading.bytes)
      BY <1>5, <2>3, <3>2
    <3>6. Stands(vga_text_backspace(terminal), echo.from, m, reading'.bytes)
      BY <1>3, <1>5, <3>1, <3>2, <3>3, <3>4, <3>5, StandsBack
    <3>7. QED
      BY <1>1, <1>5, <2>4, <2>5, <3>3, <3>6
  <2>6. CASE c # "bs"
    <3>1. /\ \A i \in 1 .. reading.size :
               reading'.bytes[i] = IF i = reading.count + 1 THEN c ELSE reading.bytes[i]
          /\ IF reading.count + 1 >= reading.size \/ c = "\n"
             THEN reading'.size = 0
             ELSE reading'.count = reading.count + 1
      BY <1>2, <1>3, <2>2, <2>6, DeliveredIs
    <3>2. ~ (k + 1 >= n) /\ c # "\n" /\ reading'.count = k + 1
      BY <2>3, <3>1
    <3>3. k + 1 < Size
      BY <2>3, <3>2, SizeIs
    <3>4. \A i \in 1 .. k + 1 : reading'.bytes[i] = IF i = k + 1 THEN c ELSE reading.bytes[i]
      BY <2>3, <3>1
    <3>5. Stands(terminal, echo.from, k, reading.bytes)
      BY <1>5, <2>3
    <3>6. Stands(vga_text_write(terminal, <<c>>), echo.from, k + 1, reading'.bytes)
      BY <1>3, <1>5, <3>2, <3>3, <3>4, <3>5, StandsTyped
    <3>7. QED
      BY <1>1, <1>5, <2>4, <2>6, <3>2, <3>6
  <2>7. QED
    BY <2>5, <2>6
<1>8. QED
  BY <1>6, <1>7

LEMMA NextEcho ==
  ASSUME IInv, Typed, EchoInv, [Next]_vars PROVE EchoInv'
<1>1. CASE syscall_read
  <2>1. echo' = [from |-> Index(terminal), inStep |-> Index(terminal) \in Cells]
        /\ terminal' = terminal /\ reading'.count = 0
    BY <1>1, ReadStep DEF syscall_read
  <2>2. ASSUME echo'.inStep
        PROVE  echo'.from \in Cells /\ Stands(terminal', echo'.from, reading'.count, reading'.bytes)
    <3>1. PICK f \in 0 .. Size - 1 : f = Index(terminal) /\ echo'.from = f
      BY <2>1, <2>2, SizeIs
    <3>2. (f + 0) % Size = f
      BY SizeIs
    <3>3. \A k \in 1 .. 0 : FALSE
      OBVIOUS
    <3>4. QED
      BY <2>1, <3>1, <3>2, <3>3, SizeIs DEF Stands
  <2>3. DOMAIN echo' = {"from", "inStep"}
    BY <2>1
  <2>4. QED
    BY <2>2, <2>3 DEF EchoInv
<1>2. CASE syscall_run \/ child_ends
  <2>1. reading'.size = 0 /\ echo' = echo
    BY <1>2, RunStep, EndStep DEF syscall_run, child_ends
  <2>2. QED
    BY <2>1 DEF EchoInv
<1>3. CASE irq_keyboard
  <2>1. CASE UNCHANGED <<terminal, reading, echo>>
    BY <2>1 DEF EchoInv, Stands, OnScreen, Index
  <2>2. CASE \E c : keyboard_key(c)
    BY <1>3, <2>2, KeyEcho
  <2>3. QED
    BY <1>3, <2>1, <2>2 DEF irq_keyboard
<1>4. CASE kernel_prints
  <2>1. reading' = reading /\ echo' = [echo EXCEPT !.inStep = @ /\ reading.size = 0]
    BY <1>4 DEF kernel_prints
  <2> DEFINE step == echo.inStep /\ reading.size = 0
  <2>2. DOMAIN echo = {"from", "inStep"} /\ echo' = [echo EXCEPT !.inStep = step]
    BY <2>1 DEF EchoInv
  <2> HIDE DEF step
  <2>3. DOMAIN echo' = {"from", "inStep"} /\ echo'.inStep = step
    BY <2>2
  <2>4. reading.size \in Nat
    BY SizesAre DEF Typed, ReadingTyped
  <2>5. reading'.size > 0 => ~ step
    BY <2>1, <2>4 DEF step
  <2>6. QED
    BY <2>3, <2>5 DEF EchoInv
<1>5. CASE handler_prints
  <2>1. reading' = reading /\ echo' = echo /\ call.name \in {"write", "files", "exception"}
    BY <1>5 DEF handler_prints, Handling
  <2>2. current \in {"shell", "child"}
    BY <2>1 DEF Typed, CallTyped, ShellCalls, ChildCalls
  <2>3. ~ (reading.size > 0)
    BY <2>2, ReadingRuns DEF KernelProcesses
  <2>4. QED
    BY <2>1, <2>3 DEF EchoInv
<1>6. ASSUME UNCHANGED <<terminal, reading, echo>> PROVE EchoInv'
  BY <1>6 DEF EchoInv, Stands, OnScreen, Index
<1>7. CASE UNCHANGED vars \/ press \/ tick \/ leave \/ (\E line \in Lines : accept(line))
           \/ irq_timer \/ irq_other
  BY <1>6, <1>7 DEF vars, press, tick, leave, accept, irq_timer, irq_other
<1>8. CASE syscall_ends \/ child_exits \/ child_faults \/ shell_writes \/ shell_reads
  BY <1>6, <1>8 DEF syscall_ends, child_exits, child_faults, shell_writes, shell_reads
<1>9. CASE command_fs_ops \/ command_run \/ command_opens \/ data_reads \/ data_stores
  BY <1>6, <1>9 DEF command_fs_ops, command_run, command_opens, data_reads, data_stores
<1>10. CASE shell_evaluates \/ command_fails \/ shell_ran \/ data_appends
  BY <1>6, <1>10 DEF shell_evaluates, command_fails, shell_ran, data_appends
<1>11. QED
  BY <1>1, <1>2, <1>3, <1>4, <1>5, <1>7, <1>8, <1>9, <1>10 DEF Next

LEMMA EchoIsShown == ASSUME Typed, EchoInv PROVE EchoIsBuffer
<1> SUFFICES ASSUME reading.size > 0, echo.inStep
             PROVE  Shows(echo.from, SubSeq(reading.bytes, 1, reading.count))
  BY DEF EchoIsBuffer
<1>1. PICK n \in Nat, m \in Nat : n = reading.size /\ m = reading.count /\ m <= n
  BY SizesAre DEF Typed, ReadingTyped
<1>2. Array(reading.bytes, n)
  BY <1>1 DEF Typed, ReadingTyped
<1>3. reading.bytes \in Seq({reading.bytes[k] : k \in 1 .. n}) /\ Len(reading.bytes) = n
  BY <1>2, ArrayIs
<1>4. /\ DOMAIN SubSeq(reading.bytes, 1, m) = 1 .. m
      /\ \A k \in 1 .. m : SubSeq(reading.bytes, 1, m)[k] = reading.bytes[k]
  <2> DEFINE S == {reading.bytes[k] : k \in 1 .. n}
  <2>1. PICK b \in Seq(S) : b = reading.bytes /\ Len(b) = n
    BY <1>3
  <2> HIDE DEF S
  <2>2. /\ DOMAIN SubSeq(b, 1, m) = 1 .. m
        /\ \A k \in 1 .. m : SubSeq(b, 1, m)[k] = b[k]
    BY <1>1, <2>1
  <2>3. QED
    BY <2>1, <2>2
<1>5. \A k \in 1 .. m : terminal.cells[(echo.from + k - 1) % Size] = reading.bytes[k]
  BY <1>1 DEF EchoInv, Stands
<1>6. QED
  BY <1>1, <1>4, <1>5 DEF Shows

\* While the shell reads, the screen shows what it has in its buffer, wherever
\* on the screen the line starts and however often it is corrected.
THEOREM EchoStaysBuffer == Spec => []EchoIsBuffer
<1> DEFINE Inv == IInv /\ Typed /\ EchoInv
<1>1. Init => Inv
  <2>1. ASSUME Init PROVE EchoInv
    BY <2>1 DEF Init, EchoInv
  <2>2. QED
    BY <2>1, InitIInv, InitTyped
<1>2. Inv /\ [Next]_vars => Inv'
  BY NextIInv, NextTyped, NextEcho
<1>3. Inv => EchoIsBuffer
  BY EchoIsShown
<1>4. QED
  BY <1>1, <1>2, <1>3, PTL DEF Spec
-----------------------------------------------------------------------------
(* Sequences as arrays *)

LEMMA ArrayOn ==
  ASSUME NEW s, NEW n \in Nat, Array(s, n), NEW S, \A k \in 1 .. n : s[k] \in S
  PROVE  s \in Seq(S) /\ Len(s) = n
<1>1. s \in [1 .. n -> S]
  BY DEF Array
<1>2. QED
  BY <1>1

LEMMA SameArray ==
  ASSUME NEW s, NEW u, NEW n \in Nat, Array(s, n), Array(u, n), \A k \in 1 .. n : s[k] = u[k]
  PROVE  s = u
  BY DEF Array

LEMMA EmptyArray == Array(<<>>, 0)
<1>1. <<>> \in Seq({})
  OBVIOUS
<1>2. Len(<<>>) = 0
  OBVIOUS
<1>3. QED
  BY <1>1, <1>2, ArrayOf

LEMMA OneArray == ASSUME NEW e PROVE Array(<<e>>, 1) /\ <<e>>[1] = e
<1>1. <<e>> \in Seq({e}) /\ Len(<<e>>) = 1 /\ <<e>>[1] = e
  OBVIOUS
<1>2. QED
  BY <1>1, ArrayOf

Glued(c, a, b) == c = a \o b

LEMMA JoinedArray ==
  ASSUME NEW a, NEW b, NEW m \in Nat, NEW n \in Nat, Array(a, m), Array(b, n), NEW c, Glued(c, a, b)
  PROVE  /\ Array(c, m + n)
         /\ \A k \in 1 .. m : c[k] = a[k]
         /\ \A k \in 1 .. n : c[m + k] = b[k]
<1> DEFINE S == {a[k] : k \in 1 .. m} \cup {b[k] : k \in 1 .. n}
<1>1. (\A k \in 1 .. m : a[k] \in S) /\ (\A k \in 1 .. n : b[k] \in S)
  OBVIOUS
<1> HIDE DEF S
<1>2. a \in Seq(S) /\ Len(a) = m /\ b \in Seq(S) /\ Len(b) = n
  BY <1>1, ArrayOn
<1>3. /\ a \o b \in Seq(S) /\ Len(a \o b) = m + n
      /\ \A i \in 1 .. m + n : (a \o b)[i] = IF i <= m THEN a[i] ELSE b[i - m]
  BY <1>2, ConcatProperties
<1>4. Array(c, m + n)
  <2>1. Array(a \o b, m + n)
    BY <1>3, ArrayOf
  <2>2. QED
    BY <2>1 DEF Glued
<1>0. c = a \o b
  BY DEF Glued
<1>5. ASSUME NEW k \in 1 .. m PROVE c[k] = a[k]
  <2>1. k \in 1 .. m + n /\ k <= m
    OBVIOUS
  <2>2. QED
    BY <1>0, <1>3, <2>1
<1>6. ASSUME NEW k \in 1 .. n PROVE c[m + k] = b[k]
  <2>1. m + k \in 1 .. m + n /\ ~ (m + k <= m) /\ (m + k) - m = k
    OBVIOUS
  <2>2. QED
    BY <1>0, <1>3, <2>1
<1>7. QED
  BY <1>4, <1>5, <1>6

LEMMA PartArray ==
  ASSUME NEW a, NEW m \in Nat, Array(a, m), NEW n \in 0 .. m
  PROVE  /\ Array(SubSeq(a, 1, n), n)
         /\ \A k \in 1 .. n : SubSeq(a, 1, n)[k] = a[k]
<1> DEFINE S == {a[k] : k \in 1 .. m}
<1>1. \A k \in 1 .. m : a[k] \in S
  OBVIOUS
<1> HIDE DEF S
<1>2. a \in Seq(S) /\ Len(a) = m
  BY <1>1, ArrayOn
<1>3. PICK b \in Seq(S) : b = a /\ Len(b) = m
  BY <1>2
<1>4. SubSeq(b, 1, n) \in Seq(S) /\ Len(SubSeq(b, 1, n)) = n /\ \A k \in 1 .. n : SubSeq(b, 1, n)[k] = b[k]
  BY <1>3
<1>5. Array(SubSeq(b, 1, n), n)
  BY <1>4, ArrayOf
<1>6. QED
  BY <1>3, <1>4, <1>5

LEMMA FrontArray ==
  ASSUME NEW a, NEW m \in Nat, Array(a, m + 1)
  PROVE  Array(Front(a), m) /\ \A k \in 1 .. m : Front(a)[k] = a[k]
<1>1. Len(a) = m + 1
  <2>1. m + 1 \in Nat
    OBVIOUS
  <2>2. QED
    BY <2>1, ArrayIs
<1>2. Front(a) = SubSeq(a, 1, m)
  BY <1>1 DEF Front
<1>3. m \in 0 .. m + 1
  OBVIOUS
<1>4. QED
  BY <1>2, <1>3, PartArray

-----------------------------------------------------------------------------
(* The tokenizer *)

LEMMA NextWordIs ==
  ASSUME NEW line, NEW end \in Nat, Len(line) + 1 = end, NEW p \in 1 .. end
  PROVE  LET q == NextWord(line, p)
         IN  /\ q \in p .. end /\ (q = end \/ ~ isspace(line[q]))
             /\ \A r \in p .. q - 1 : isspace(line[r])
<1> DEFINE T == {q \in p .. end : q = end \/ ~ isspace(line[q])}
<1>1. end \in T /\ T \subseteq Nat
  OBVIOUS
<1>2. PICK q \in T : \A k \in T : q <= k
  BY <1>1, LeastNumber
<1>3. \A r \in p .. q - 1 : isspace(line[r])
  BY <1>2
<1>4. \E x \in p .. Len(line) + 1 : /\ x = Len(line) + 1 \/ ~ isspace(line[x])
                                    /\ \A r \in p .. x - 1 : isspace(line[r])
  BY <1>2, <1>3
<1>5. QED
  BY <1>4, Zenon DEF NextWord

LEMMA NextBlankIs ==
  ASSUME NEW line, NEW end \in Nat, Len(line) + 1 = end, NEW p \in 1 .. end
  PROVE  LET q == NextBlank(line, p)
         IN  /\ q \in p .. end /\ (q = end \/ isspace(line[q]))
             /\ \A r \in p .. q - 1 : ~ isspace(line[r])
<1> DEFINE T == {q \in p .. end : q = end \/ isspace(line[q])}
<1>1. end \in T /\ T \subseteq Nat
  OBVIOUS
<1>2. PICK q \in T : \A k \in T : q <= k
  BY <1>1, LeastNumber
<1>3. \A r \in p .. q - 1 : ~ isspace(line[r])
  BY <1>2
<1>4. \E x \in p .. Len(line) + 1 : /\ x = Len(line) + 1 \/ isspace(line[x])
                                    /\ \A r \in p .. x - 1 : ~ isspace(line[r])
  BY <1>2, <1>3
<1>5. QED
  BY <1>4, Zenon DEF NextBlank

\* Where the next word from p on starts, and where it stops.
Start(line, p) == NextWord(line, p)
Stop(line, p)  == NextBlank(line, NextWord(line, p))

LEMMA WordIs ==
  ASSUME NEW line, NEW end \in Nat, Len(line) + 1 = end, NEW p \in 1 .. end, Start(line, p) # end
  PROVE  Stop(line, p) \in p + 1 .. end /\ Start(line, p) < Stop(line, p)
<1> DEFINE s == NextWord(line, p)
<1>1. s \in p .. end /\ ~ isspace(line[s])
  BY NextWordIs DEF Start
<1>2. s \in 1 .. end /\ s # end
  BY <1>1 DEF Start
<1> HIDE DEF s
<1> DEFINE q == NextBlank(line, s)
<1>3. q \in s .. end /\ (q = end \/ isspace(line[q]))
  BY <1>2, NextBlankIs
<1>4. q # s
  BY <1>1, <1>2, <1>3
<1>5. q = Stop(line, p) /\ s = Start(line, p)
  BY DEF Stop, Start, s
<1> HIDE DEF q
<1>6. QED
  BY <1>1, <1>3, <1>4, <1>5

\* What tokenize_line finds from p on, given what it finds from the next word on.
Token(line, p, rest) ==
  IF p = Len(line) + 1 THEN [words |-> <<>>, count |-> 0]
  ELSE IF Start(line, p) = Len(line) + 1 THEN [words |-> <<>>, count |-> 1]
  ELSE [words |-> <<SubSeq(line, Start(line, p), Stop(line, p) - 1)>> \o rest.words,
        count |-> rest.count + 1]

Tokens(line, from) ==
  from = [p \in 1 .. Len(line) + 1 |-> Token(line, p, from[Stop(line, p)])]

LEMMA TokensExist ==
  ASSUME NEW line, Len(line) \in Nat PROVE \E from : Tokens(line, from)
<1> DEFINE end == Len(line) + 1
<1>0. PICK e \in Nat : e = end
  OBVIOUS
<1> DEFINE Steps(k, g) == g = [p \in e - k .. e |-> Token(line, p, g[Stop(line, p)])]
           T == {k \in 0 .. e - 1 : \E g : Steps(k, g)}
<1>1. 0 \in T
  <2> DEFINE g == [p \in e - 0 .. e |-> [words |-> <<>>, count |-> 0]]
  <2>1. \A p \in e - 0 .. e : p = Len(line) + 1
    BY <1>0
  <2>2. \A p \in e - 0 .. e : Token(line, p, g[Stop(line, p)]) = [words |-> <<>>, count |-> 0]
    BY <2>1 DEF Token
  <2>3. Steps(0, g)
    BY <2>2
  <2>4. 0 \in 0 .. e - 1
    BY <1>0
  <2>5. QED
    BY <2>3, <2>4
<1>2. ASSUME NEW k \in 0 .. (e - 1) - 1, k \in T PROVE k + 1 \in T
  <2>1. PICK g : Steps(k, g)
    BY <1>2
  <2> DEFINE m == e - (k + 1)
             h == [p \in m .. e |-> IF p = m THEN Token(line, m, g[Stop(line, m)]) ELSE g[p]]
  <2>2. m \in 1 .. e /\ e - k = m + 1
    BY <1>0
  <2> HIDE DEF m
  <2>3. ASSUME NEW p \in m .. e PROVE h[p] = Token(line, p, h[Stop(line, p)])
    <3>1. h[p] = Token(line, p, g[Stop(line, p)])
      <4>1. CASE p = m
        BY <4>1
      <4>2. CASE p # m
        <5>1. p \in e - k .. e /\ h[p] = g[p]
          BY <2>2, <4>2
        <5> HIDE DEF h
        <5>2. g[p] = Token(line, p, g[Stop(line, p)])
          BY <2>1, <5>1
        <5>3. QED
          BY <5>1, <5>2
      <4>3. QED
        BY <4>1, <4>2
    <3>2. CASE p = e
      BY <1>0, <3>1, <3>2 DEF Token
    <3>3. CASE Start(line, p) = e
      BY <1>0, <3>1, <3>3 DEF Token
    <3>4. CASE p # e /\ Start(line, p) # e
      <4>1. p \in 1 .. e
        BY <2>2
      <4>2. Stop(line, p) \in p + 1 .. e
        BY <1>0, <3>4, <4>1, WordIs
      <4>3. Stop(line, p) \in m .. e /\ Stop(line, p) # m
        BY <2>2, <4>2
      <4>4. h[Stop(line, p)] = g[Stop(line, p)]
        BY <4>3
      <4>5. QED
        BY <3>1, <4>4
    <3>5. QED
      BY <3>2, <3>3, <3>4
  <2>4. Steps(k + 1, h)
    <3>1. h = [p \in m .. e |-> h[p]]
      OBVIOUS
    <3> HIDE DEF h
    <3>2. h = [p \in m .. e |-> Token(line, p, h[Stop(line, p)])]
      BY <2>3, <3>1
    <3>3. QED
      BY <3>2 DEF m
  <2> HIDE DEF h, Steps
  <2>5. k + 1 \in 0 .. e - 1
    BY <1>0
  <2>6. QED
    BY <2>4, <2>5
<1> HIDE DEF T
<1>3. e - 1 \in Nat /\ e - 1 \in 0 .. e - 1
  BY <1>0
<1>4. e - 1 \in T
  BY <1>1, <1>2, <1>3, UpTo
<1>5. PICK g : g = [p \in e - (e - 1) .. e |-> Token(line, p, g[Stop(line, p)])]
  BY <1>4 DEF T
<1>6. e - (e - 1) = 1
  BY <1>0
<1>7. Tokens(line, g)
  BY <1>0, <1>5, <1>6 DEF Tokens
<1>8. QED
  BY <1>7

LEMMA TokenizeIs ==
  ASSUME NEW line, Len(line) \in Nat, NEW capacity
  PROVE  \E from : Tokens(line, from) /\ tokenize_line(line, capacity).words = from[1].words
<1> DEFINE from == CHOOSE g : Tokens(line, g)
<1>1. Tokens(line, from)
  BY TokensExist
<1>2. tokenize_line(line, capacity).words = from[1].words
  BY DEF tokenize_line, Tokens, Token, Start, Stop
<1> HIDE DEF from
<1>3. QED
  BY <1>1, <1>2
BlankAt(line, k) == k \notin DOMAIN line \/ isspace(line[k])

IsSpan(line, i, j) ==
  /\ i \in DOMAIN line /\ j \in DOMAIN line /\ i <= j
  /\ BlankAt(line, i - 1) /\ BlankAt(line, j + 1)
  /\ \A k \in i .. j : ~ BlankAt(line, k)

LEMMA SpanIs ==
  ASSUME NEW line, NEW r
  PROVE  r \in Spans(line) <=> \E i, j : r = <<i, j>> /\ IsSpan(line, i, j)
  BY DEF Spans, IsSpan, BlankAt

\* A place where no word goes on.
Boundary(line, p) == p = 1 \/ p = Len(line) + 1 \/ isspace(line[p])

\* words are the spans of the line from p on, in order, at starts and ends.
WordsFrom(words, line, p, n, starts, stops) ==
  /\ Array(words, n) /\ Array(starts, n) /\ Array(stops, n)
  /\ \A i \in 1 .. n : /\ IsSpan(line, starts[i], stops[i]) /\ starts[i] >= p
                       /\ words[i] = SubSeq(line, starts[i], stops[i])
  /\ \A i, j \in 1 .. n : i < j => starts[i] < starts[j]
  /\ \A a, b : IsSpan(line, a, b) /\ a >= p => \E i \in 1 .. n : starts[i] = a /\ stops[i] = b

\* Past the last word.
LEMMA NoWords ==
  ASSUME NEW line, NEW n \in Nat, Array(line, n), NEW p \in 1 .. n + 1,
         p = n + 1 \/ Start(line, p) = n + 1
  PROVE  WordsFrom(<<>>, line, p, 0, <<>>, <<>>)
<1>1. \A r \in p .. n : isspace(line[r])
  <2>1. CASE p = n + 1
    BY <2>1
  <2>2. CASE Start(line, p) = n + 1
    <3>1. Len(line) + 1 = n + 1 /\ n + 1 \in Nat
      <4>1. Len(line) = n
        BY ArrayIs
      <4>2. QED
        BY <4>1
    <3>2. \A r \in p .. NextWord(line, p) - 1 : isspace(line[r])
      BY <3>1, NextWordIs
    <3>3. (n + 1) - 1 = n
      OBVIOUS
    <3>4. QED
      BY <2>2, <3>2, <3>3 DEF Start
  <2>3. QED
    BY <2>1, <2>2
<1>2. ASSUME NEW a, NEW b, IsSpan(line, a, b), a >= p PROVE FALSE
  <2>1. a \in 1 .. n /\ b \in 1 .. n /\ a <= b /\ \A k \in a .. b : ~ isspace(line[k])
    BY <1>2 DEF IsSpan, BlankAt, Array
  <2>2. a \in p .. n /\ a \in a .. b
    BY <1>2, <2>1
  <2>3. QED
    BY <1>1, <2>1, <2>2
<1>3. Array(<<>>, 0)
  BY EmptyArray
<1>4. 1 .. 0 = {}
  OBVIOUS
<1>5. QED
  BY <1>2, <1>3, <1>4 DEF WordsFrom

\* The first word from p on, and those behind it.
LEMMA OneWord ==
  ASSUME NEW line, NEW n \in Nat, Array(line, n), NEW p \in 1 .. n, Boundary(line, p),
         Start(line, p) # n + 1
  PROVE  /\ IsSpan(line, Start(line, p), Stop(line, p) - 1)
         /\ Start(line, p) >= p /\ Stop(line, p) \in p + 1 .. n + 1 /\ Start(line, p) < Stop(line, p)
         /\ Boundary(line, Stop(line, p))
         /\ \A a, b : IsSpan(line, a, b) /\ a >= p =>
              (a = Start(line, p) /\ b = Stop(line, p) - 1) \/ a >= Stop(line, p)
<1>0. Len(line) = n /\ n + 1 \in Nat /\ p \in 1 .. n + 1 /\ DOMAIN line = 1 .. n
  BY ArrayIs DEF Array
<1>1. Stop(line, p) \in p + 1 .. n + 1 /\ Start(line, p) < Stop(line, p)
  BY <1>0, WordIs
<1>2. PICK s \in p .. n : /\ s = Start(line, p) /\ ~ isspace(line[s])
                          /\ \A r \in p .. s - 1 : isspace(line[r])
  <2> DEFINE q == NextWord(line, p)
  <2>1. /\ q \in p .. n + 1 /\ (q = n + 1 \/ ~ isspace(line[q]))
        /\ \A r \in p .. q - 1 : isspace(line[r])
    BY <1>0, NextWordIs
  <2>2. q = Start(line, p)
    BY DEF Start
  <2> HIDE DEF q
  <2>3. QED
    BY <2>1, <2>2
<1>3. PICK t \in s + 1 .. n + 1 : /\ t = Stop(line, p) /\ (t = n + 1 \/ isspace(line[t]))
                                  /\ \A r \in s .. t - 1 : ~ isspace(line[r])
  <2> DEFINE q == NextBlank(line, s)
  <2>1. s \in 1 .. n + 1
    OBVIOUS
  <2>2. /\ q \in s .. n + 1 /\ (q = n + 1 \/ isspace(line[q]))
        /\ \A r \in s .. q - 1 : ~ isspace(line[r])
    BY <1>0, <2>1, NextBlankIs
  <2>3. q = Stop(line, p)
    BY <1>2 DEF Start, Stop
  <2> HIDE DEF q
  <2>4. QED
    BY <1>1, <1>2, <2>2, <2>3
<1>4. IsSpan(line, s, t - 1)
  <2>1. s \in 1 .. n /\ t - 1 \in 1 .. n /\ s <= t - 1
    OBVIOUS
  <2>2. BlankAt(line, s - 1)
    <3>1. CASE s = p
      <4>1. p = 1
        BY <1>0, <1>2, <3>1 DEF Boundary
      <4>2. s - 1 \notin 1 .. n
        BY <3>1, <4>1
      <4>3. QED
        BY <1>0, <4>2 DEF BlankAt
    <3>2. CASE s # p
      <4>1. s - 1 \in p .. s - 1
        BY <3>2
      <4>2. QED
        BY <1>2, <4>1 DEF BlankAt
    <3>3. QED
      BY <3>1, <3>2
  <2>3. BlankAt(line, t)
    <3>1. t = n + 1 => t \notin 1 .. n
      OBVIOUS
    <3>2. QED
      BY <1>0, <1>3, <3>1 DEF BlankAt
  <2>4. (t - 1) + 1 = t
    OBVIOUS
  <2>5. \A k \in s .. t - 1 : k \in 1 .. n /\ ~ isspace(line[k])
    BY <1>3
  <2>6. QED
    BY <1>0, <2>1, <2>2, <2>3, <2>4, <2>5 DEF IsSpan, BlankAt
<1>5. Boundary(line, t)
  BY <1>0, <1>3 DEF Boundary
<1>6. ASSUME NEW a, NEW b, IsSpan(line, a, b), a >= p PROVE (a = s /\ b = t - 1) \/ a >= t
  <2>1. /\ a \in 1 .. n /\ b \in 1 .. n /\ a <= b
        /\ BlankAt(line, a - 1) /\ BlankAt(line, b + 1)
        /\ \A k \in a .. b : ~ isspace(line[k])
    BY <1>0, <1>6 DEF IsSpan, BlankAt
  <2>2. a >= s
    <3>1. SUFFICES ASSUME a < s PROVE FALSE
      BY <2>1
    <3>2. a \in p .. s - 1 /\ a \in a .. b
      BY <1>6, <2>1, <3>1
    <3>3. QED
      BY <1>2, <2>1, <3>2
  <2>3. SUFFICES ASSUME a < t PROVE a = s /\ b = t - 1
    BY <2>1
  <2>4. a = s
    <3>1. SUFFICES ASSUME a # s PROVE FALSE
      OBVIOUS
    <3>2. a - 1 \in s .. t - 1 /\ a - 1 \in 1 .. n
      BY <2>1, <2>2, <2>3, <3>1
    <3>3. ~ isspace(line[a - 1]) /\ ~ BlankAt(line, a - 1)
      BY <1>0, <1>3, <3>2 DEF BlankAt
    <3>4. QED
      BY <2>1, <3>3
  <2>5. b < t
    <3>1. SUFFICES ASSUME b >= t PROVE FALSE
      BY <2>1
    <3>2. t \in a .. b /\ t # n + 1
      BY <2>1, <2>3, <3>1
    <3>3. QED
      BY <1>3, <2>1, <3>2
  <2>6. b = t - 1
    <3>1. SUFFICES ASSUME b # t - 1 PROVE FALSE
      OBVIOUS
    <3>2. b + 1 \in s .. t - 1 /\ b + 1 \in 1 .. n
      BY <2>1, <2>4, <2>5, <3>1
    <3>3. ~ BlankAt(line, b + 1)
      BY <1>0, <1>3, <3>2 DEF BlankAt
    <3>4. QED
      BY <2>1, <3>3
  <2>7. QED
    BY <2>4, <2>6
<1>7. QED
  BY <1>1, <1>2, <1>3, <1>4, <1>5, <1>6

LEMMA PrependedArray ==
  ASSUME NEW e, NEW b, NEW n \in Nat, Array(b, n), NEW c, Glued(c, <<e>>, b)
  PROVE  /\ Array(c, 1 + n) /\ c[1] = e
         /\ \A k \in 1 .. n : c[1 + k] = b[k]
<1>1. PICK a : a = <<e>>
  OBVIOUS
<1>2. Array(a, 1) /\ a[1] = e
  BY <1>1, OneArray
<1>3. 1 \in Nat /\ 1 \in 1 .. 1
  OBVIOUS
<1>7. PICK one \in Nat : one = 1
  BY <1>3
<1>8. Array(a, one)
  BY <1>2, <1>7
<1>10. Glued(c, a, b)
  BY <1>1 DEF Glued
<1>9. /\ Array(c, one + n)
      /\ \A k \in 1 .. one : c[k] = a[k]
      /\ \A k \in 1 .. n : c[one + k] = b[k]
  BY <1>8, <1>10, JoinedArray
<1>4. /\ Array(c, 1 + n)
      /\ \A k \in 1 .. 1 : c[k] = a[k]
      /\ \A k \in 1 .. n : c[1 + k] = b[k]
  BY <1>7, <1>9
<1>5. c[1] = e
  BY <1>2, <1>3, <1>4
<1>6. QED
  BY <1>4, <1>5

\* One word more, at the front.
LEMMA MoreWords ==
  ASSUME NEW line, NEW n \in Nat, Array(line, n), NEW p \in 1 .. n, Boundary(line, p),
         Start(line, p) # n + 1,
         NEW words, NEW m \in Nat, NEW starts, NEW stops,
         WordsFrom(words, line, Stop(line, p), m, starts, stops)
  PROVE  WordsFrom(<<SubSeq(line, Start(line, p), Stop(line, p) - 1)>> \o words, line, p, 1 + m,
                   <<Start(line, p)>> \o starts, <<Stop(line, p) - 1>> \o stops)
<1>1. PICK s, t : s = Start(line, p) /\ t = Stop(line, p)
  OBVIOUS
<1>2. /\ IsSpan(line, s, t - 1) /\ s >= p /\ t \in p + 1 .. n + 1 /\ s < t /\ s \in Int
      /\ \A a, b : IsSpan(line, a, b) /\ a >= p => (a = s /\ b = t - 1) \/ a >= t
  <2>1. DOMAIN line = 1 .. n
    BY DEF Array
  <2>2. /\ IsSpan(line, s, t - 1) /\ s >= p /\ t \in p + 1 .. n + 1 /\ s < t
        /\ \A a, b : IsSpan(line, a, b) /\ a >= p => (a = s /\ b = t - 1) \/ a >= t
    BY <1>1, OneWord
  <2>3. s \in Int
    BY <2>1, <2>2 DEF IsSpan
  <2>4. QED
    BY <2>2, <2>3
<1> DEFINE word == SubSeq(line, s, t - 1)
           w == <<word>> \o words
           u == <<s>> \o starts
           v == <<t - 1>> \o stops
<1>3. /\ Array(words, m) /\ Array(starts, m) /\ Array(stops, m)
      /\ \A i \in 1 .. m : /\ IsSpan(line, starts[i], stops[i]) /\ starts[i] >= t
                           /\ words[i] = SubSeq(line, starts[i], stops[i])
      /\ \A i, j \in 1 .. m : i < j => starts[i] < starts[j]
      /\ \A a, b : IsSpan(line, a, b) /\ a >= t => \E i \in 1 .. m : starts[i] = a /\ stops[i] = b
  BY <1>1 DEF WordsFrom
<1>4. /\ Array(w, 1 + m) /\ w[1] = word /\ \A i \in 1 .. m : w[1 + i] = words[i]
      /\ Array(u, 1 + m) /\ u[1] = s /\ \A i \in 1 .. m : u[1 + i] = starts[i]
      /\ Array(v, 1 + m) /\ v[1] = t - 1 /\ \A i \in 1 .. m : v[1 + i] = stops[i]
  <2> HIDE DEF word
  <2>5. Array(words, m) /\ Array(starts, m) /\ Array(stops, m)
    BY <1>3
  <2>6. Glued(w, <<word>>, words) /\ Glued(u, <<s>>, starts) /\ Glued(v, <<t - 1>>, stops)
    BY DEF Glued
  <2> HIDE DEF w, u, v
  <2>1. Array(w, 1 + m) /\ w[1] = word /\ \A i \in 1 .. m : w[1 + i] = words[i]
    BY <2>5, <2>6, PrependedArray
  <2>2. Array(u, 1 + m) /\ u[1] = s /\ \A i \in 1 .. m : u[1 + i] = starts[i]
    BY <2>5, <2>6, PrependedArray
  <2>3. Array(v, 1 + m) /\ v[1] = t - 1 /\ \A i \in 1 .. m : v[1 + i] = stops[i]
    BY <2>5, <2>6, PrependedArray
  <2>4. QED
    BY <2>1, <2>2, <2>3
<1> HIDE DEF w, u, v
<1>5. \A i \in 1 .. 1 + m : i = 1 \/ \E j \in 1 .. m : i = 1 + j
  <2>1. ASSUME NEW i \in 1 .. 1 + m, i # 1 PROVE i - 1 \in 1 .. m /\ i = 1 + (i - 1)
    BY <2>1
  <2>2. QED
    BY <2>1
<1>6. ASSUME NEW i \in 1 .. 1 + m
      PROVE  IsSpan(line, u[i], v[i]) /\ u[i] >= p /\ w[i] = SubSeq(line, u[i], v[i])
  <2>1. CASE i = 1
    BY <1>2, <1>4, <2>1
  <2>2. ASSUME NEW j \in 1 .. m, i = 1 + j
        PROVE  IsSpan(line, u[i], v[i]) /\ u[i] >= p /\ w[i] = SubSeq(line, u[i], v[i])
    <3>1. u[i] = starts[j] /\ v[i] = stops[j] /\ w[i] = words[j]
      BY <1>4, <2>2
    <3>2. IsSpan(line, starts[j], stops[j]) /\ starts[j] >= t /\ words[j] = SubSeq(line, starts[j], stops[j])
      BY <1>3
    <3>3. starts[j] \in 1 .. n
      BY <3>2 DEF IsSpan, Array
    <3>4. starts[j] >= p
      BY <1>2, <3>2, <3>3
    <3>5. QED
      BY <3>1, <3>2, <3>4
  <2>3. QED
    BY <1>5, <2>1, <2>2
<1>7. ASSUME NEW i \in 1 .. 1 + m, NEW j \in 1 .. 1 + m, i < j PROVE u[i] < u[j]
  <2>1. PICK k \in 1 .. m : j = 1 + k
    BY <1>5, <1>7
  <2>2. u[j] = starts[k] /\ IsSpan(line, starts[k], stops[k]) /\ starts[k] >= t
    BY <1>3, <1>4, <2>1
  <2>3. starts[k] \in 1 .. n
    BY <2>2 DEF IsSpan, Array
  <2>4. CASE i = 1
    BY <1>2, <1>4, <2>2, <2>3, <2>4
  <2>5. CASE i # 1
    <3>1. PICK h \in 1 .. m : i = 1 + h
      BY <1>5, <2>5
    <3>2. h < k
      BY <1>7, <2>1, <3>1
    <3>3. QED
      BY <1>3, <1>4, <2>1, <3>1, <3>2
  <2>6. QED
    BY <2>4, <2>5
<1>8. ASSUME NEW a, NEW b, IsSpan(line, a, b), a >= p PROVE \E i \in 1 .. 1 + m : u[i] = a /\ v[i] = b
  <2>1. CASE a = s /\ b = t - 1
    <3>1. 1 \in 1 .. 1 + m
      OBVIOUS
    <3>2. QED
      BY <1>4, <2>1, <3>1
  <2>2. CASE a >= t
    <3>1. PICK i \in 1 .. m : starts[i] = a /\ stops[i] = b
      BY <1>3, <1>8, <2>2
    <3>2. 1 + i \in 1 .. 1 + m
      OBVIOUS
    <3>3. QED
      BY <1>4, <3>1, <3>2
  <2>3. QED
    BY <1>2, <1>8, <2>1, <2>2
<1>9. WordsFrom(w, line, p, 1 + m, u, v)
  BY <1>4, <1>6, <1>7, <1>8 DEF WordsFrom
<1>10. QED
  BY <1>1, <1>9 DEF w, u, v, word

\* The words of a line are its spans in order, each whole.
LEMMA TokensAreWords ==
  ASSUME NEW line, NEW n \in Nat, Array(line, n), NEW capacity
  PROVE  AreWords(tokenize_line(line, capacity).words, line)
<1>0. Len(line) = n /\ DOMAIN line = 1 .. n
  BY ArrayIs DEF Array
<1>1. PICK from : Tokens(line, from) /\ tokenize_line(line, capacity).words = from[1].words
  BY <1>0, TokenizeIs
<1>2. ASSUME NEW p \in 1 .. n + 1 PROVE from[p] = Token(line, p, from[Stop(line, p)])
  BY <1>0, <1>1 DEF Tokens
<1> DEFINE Good(p) == \E m \in Nat : \E starts, stops :
                        WordsFrom(from[p].words, line, p, m, starts, stops)
           T == {k \in 0 .. n : \A p \in n + 1 - k .. n + 1 : Boundary(line, p) => Good(p)}
<1>3. ASSUME NEW p \in 1 .. n + 1, p = n + 1 \/ Start(line, p) = n + 1 PROVE Good(p)
  <2>1. from[p] = Token(line, p, from[Stop(line, p)]) /\ (p = Len(line) + 1 \/ Start(line, p) = Len(line) + 1)
    BY <1>0, <1>2, <1>3
  <2>4. from[p].words = <<>>
    <3>1. CASE p = Len(line) + 1
      BY <2>1, <3>1 DEF Token
    <3>2. CASE p # Len(line) + 1
      BY <2>1, <3>2 DEF Token
    <3>3. QED
      BY <3>1, <3>2
  <2>2. WordsFrom(<<>>, line, p, 0, <<>>, <<>>)
    BY <1>3, NoWords
  <2>5. 0 \in Nat
    OBVIOUS
  <2>3. QED
    BY <2>2, <2>4, <2>5
<1>4. ASSUME NEW p \in 1 .. n, Boundary(line, p), Start(line, p) # n + 1,
             Boundary(line, Stop(line, p)) => Good(Stop(line, p))
      PROVE  Good(p)
  <2>1. Boundary(line, Stop(line, p))
    BY <1>4, OneWord
  <2>9. PICK m \in Nat : \E starts, stops :
          WordsFrom(from[Stop(line, p)].words, line, Stop(line, p), m, starts, stops)
    BY <1>4, <2>1
  <2>2. PICK starts, stops :
          WordsFrom(from[Stop(line, p)].words, line, Stop(line, p), m, starts, stops)
    BY <2>9
  <2>3. p \in 1 .. n + 1 /\ p # n + 1
    OBVIOUS
  <2>8. from[p] = Token(line, p, from[Stop(line, p)]) /\ p # Len(line) + 1 /\ Start(line, p) # Len(line) + 1
    BY <1>0, <1>2, <1>4, <2>3
  <2>4. from[p].words = <<SubSeq(line, Start(line, p), Stop(line, p) - 1)>> \o from[Stop(line, p)].words
    BY <2>8 DEF Token
  <2>5. WordsFrom(from[p].words, line, p, 1 + m, <<Start(line, p)>> \o starts, <<Stop(line, p) - 1>> \o stops)
    BY <1>4, <2>2, <2>4, MoreWords
  <2>6. 1 + m \in Nat
    OBVIOUS
  <2>7. QED
    BY <2>5, <2>6
<1>5. 0 \in T
  <2>1. \A p \in n + 1 - 0 .. n + 1 : p = n + 1 /\ p \in 1 .. n + 1
    OBVIOUS
  <2> HIDE DEF Good
  <2>2. QED
    BY <1>3, <2>1
<1>6. ASSUME NEW k \in 0 .. n - 1, k \in T PROVE k + 1 \in T
  <2>1. ASSUME NEW p \in n + 1 - (k + 1) .. n + 1, Boundary(line, p) PROVE Good(p)
    <3> HIDE DEF Good
    <3>1. CASE p \in n + 1 - k .. n + 1
      BY <1>6, <2>1, <3>1
    <3>2. CASE p \notin n + 1 - k .. n + 1
      <4>1. p \in 1 .. n /\ p \in 1 .. n + 1
        BY <3>2
      <4>2. CASE Start(line, p) = n + 1
        BY <1>3, <4>1, <4>2
      <4>3. CASE Start(line, p) # n + 1
        <5>1. Stop(line, p) \in p + 1 .. n + 1
          BY <2>1, <4>1, <4>3, OneWord
        <5>2. Stop(line, p) \in n + 1 - k .. n + 1
          BY <5>1
        <5>3. QED
          BY <1>4, <1>6, <2>1, <4>1, <4>3, <5>2
      <4>4. QED
        BY <4>2, <4>3
    <3>3. QED
      BY <3>1, <3>2
  <2> HIDE DEF Good
  <2>2. k + 1 \in 0 .. n
    OBVIOUS
  <2>3. QED
    BY <2>1, <2>2
<1> HIDE DEF T
<1>7. n \in T
  <2>1. \A k \in 0 .. n : k \in T
    BY <1>5, <1>6, UpTo
  <2>2. QED
    BY <2>1
<1>8. Good(1)
  <2>1. 1 \in n + 1 - n .. n + 1 /\ Boundary(line, 1)
    BY DEF Boundary
  <2> HIDE DEF Good
  <2>2. QED
    BY <1>7, <2>1 DEF T
<1>16. PICK m \in Nat : \E starts, stops : WordsFrom(from[1].words, line, 1, m, starts, stops)
  BY <1>8
<1>9. PICK starts, stops : WordsFrom(from[1].words, line, 1, m, starts, stops)
  BY <1>16
<1> DEFINE words == from[1].words
<1>10. /\ DOMAIN words = 1 .. m
       /\ \A i \in 1 .. m : IsSpan(line, starts[i], stops[i]) /\ words[i] = SubSeq(line, starts[i], stops[i])
       /\ \A i, j \in 1 .. m : i < j => starts[i] < starts[j]
       /\ \A a, b : IsSpan(line, a, b) /\ a >= 1 => \E i \in 1 .. m : starts[i] = a /\ stops[i] = b
  BY <1>9 DEF WordsFrom, Array
<1> HIDE DEF words
<1> DEFINE span == [i \in 1 .. m |-> <<starts[i], stops[i]>>]
<1>11. \A i \in 1 .. m : span[i][1] = starts[i] /\ span[i][2] = stops[i] /\ span[i] \in Spans(line)
  BY <1>10, SpanIs
<1>12. span \in [DOMAIN words -> Spans(line)]
  BY <1>10, <1>11
<1>13. ASSUME NEW r \in Spans(line) PROVE \E i \in 1 .. m : span[i] = r
  <2>1. PICK a, b : r = <<a, b>> /\ IsSpan(line, a, b)
    BY SpanIs
  <2>2. a >= 1
    BY <1>0, <2>1 DEF IsSpan
  <2>3. PICK i \in 1 .. m : starts[i] = a /\ stops[i] = b
    BY <1>10, <2>1, <2>2
  <2>4. QED
    BY <2>1, <2>3
<1> HIDE DEF span
<1>14. AreWords(words, line)
  <2>1. \A i, j \in DOMAIN words : i < j => span[i][1] < span[j][1]
    BY <1>10, <1>11
  <2>2. \A r \in Spans(line) : \E i \in DOMAIN words : span[i] = r
    BY <1>10, <1>13
  <2>3. \A i \in DOMAIN words : words[i] = SubSeq(line, span[i][1], span[i][2])
    BY <1>10, <1>11
  <2>4. QED
    BY <1>12, <2>1, <2>2, <2>3, Zenon DEF AreWords
<1>15. QED
  BY <1>1, <1>14 DEF words
-----------------------------------------------------------------------------
(* What was typed *)

\* t is b, of m elements, and behind it the first n of bytes.
JoinedAt(t, b, m, bytes, n) ==
  /\ Array(b, m) /\ Array(t, m + n)
  /\ \A k \in 1 .. m : t[k] = b[k]
  /\ \A k \in 1 .. n : t[m + k] = bytes[k]

Joined(t, b, bytes, n) == \E m \in Nat : JoinedAt(t, b, m, bytes, n)

LEMMA JoinedNone ==
  ASSUME NEW b, NEW m \in Nat, Array(b, m), NEW bytes PROVE Joined(b, b, bytes, 0)
<1>1. m + 0 = m /\ 1 .. 0 = {}
  OBVIOUS
<1>2. JoinedAt(b, b, m, bytes, 0)
  BY <1>1 DEF JoinedAt
<1>3. QED
  BY <1>2 DEF Joined

LEMMA JoinedSame ==
  ASSUME NEW t, NEW b, NEW bytes, NEW n \in Nat, Joined(t, b, bytes, n),
         NEW more, \A k \in 1 .. n : more[k] = bytes[k]
  PROVE  Joined(t, b, more, n)
  BY DEF Joined, JoinedAt

Longer(t, u, c) == u = Append(t, c)

LEMMA LongerArray ==
  ASSUME NEW a, NEW m \in Nat, Array(a, m), NEW e, NEW u, Longer(a, u, e)
  PROVE  /\ Array(u, m + 1) /\ u[m + 1] = e
         /\ \A k \in 1 .. m : u[k] = a[k]
<1> DEFINE S == {a[k] : k \in 1 .. m} \cup {e}
<1>1. (\A k \in 1 .. m : a[k] \in S) /\ e \in S
  OBVIOUS
<1> HIDE DEF S
<1>2. a \in Seq(S) /\ Len(a) = m
  BY <1>1, ArrayOn
<1>3. /\ Append(a, e) \in Seq(S) /\ Len(Append(a, e)) = m + 1
      /\ \A i \in 1 .. m : Append(a, e)[i] = a[i]
      /\ Append(a, e)[m + 1] = e
  BY <1>1, <1>2, AppendProperties
<1>4. u = Append(a, e)
  BY DEF Longer
<1>5. QED
  BY <1>3, <1>4, ArrayOf

LEMMA JoinedMore ==
  ASSUME NEW t, NEW b, NEW bytes, NEW n \in Nat, Joined(t, b, bytes, n),
         NEW more, \A k \in 1 .. n : more[k] = bytes[k], NEW u, Longer(t, u, more[n + 1])
  PROVE  Joined(u, b, more, n + 1)
<1>1. PICK m \in Nat : JoinedAt(t, b, m, bytes, n)
  BY DEF Joined
<1>2. PICK c : c = more[n + 1] /\ Longer(t, u, c)
  OBVIOUS
<1>3. PICK l \in Nat : l = m + n
  OBVIOUS
<1>4. Array(t, l) /\ Array(b, m)
  BY <1>1, <1>3 DEF JoinedAt
<1>5. Array(u, l + 1) /\ u[l + 1] = c /\ \A k \in 1 .. l : u[k] = t[k]
  BY <1>2, <1>4, LongerArray
<1>6. l + 1 = m + (n + 1)
  BY <1>3
<1>7. ASSUME NEW k \in 1 .. m PROVE u[k] = b[k]
  <2>1. k \in 1 .. l
    BY <1>3
  <2>2. QED
    BY <1>1, <1>5, <2>1 DEF JoinedAt
<1>8. ASSUME NEW k \in 1 .. n + 1 PROVE u[m + k] = more[k]
  <2>1. CASE k = n + 1
    BY <1>2, <1>5, <1>6, <2>1
  <2>2. CASE k # n + 1
    <3>1. k \in 1 .. n /\ m + k \in 1 .. l
      BY <1>3, <2>2
    <3>2. u[m + k] = t[m + k] /\ t[m + k] = bytes[k]
      BY <1>1, <1>5, <3>1 DEF JoinedAt
    <3>3. QED
      BY <3>1, <3>2
  <2>3. QED
    BY <2>1, <2>2
<1>9. JoinedAt(u, b, m, more, n + 1)
  BY <1>4, <1>5, <1>6, <1>7, <1>8 DEF JoinedAt
<1>10. QED
  BY <1>9 DEF Joined

LEMMA JoinedLess ==
  ASSUME NEW t, NEW b, NEW bytes, NEW n \in Nat, Joined(t, b, bytes, n + 1),
         NEW less, \A k \in 1 .. n : less[k] = bytes[k]
  PROVE  Joined(Front(t), b, less, n)
<1>1. PICK m \in Nat : JoinedAt(t, b, m, bytes, n + 1)
  BY DEF Joined
<1>2. PICK l \in Nat : l = m + n
  OBVIOUS
<1>3. m + (n + 1) = l + 1
  BY <1>2
<1>4. Array(t, l + 1) /\ Array(b, m)
  BY <1>1, <1>3 DEF JoinedAt
<1>5. Array(Front(t), l) /\ \A k \in 1 .. l : Front(t)[k] = t[k]
  BY <1>4, FrontArray
<1>6. ASSUME NEW k \in 1 .. m PROVE Front(t)[k] = b[k]
  <2>1. k \in 1 .. l
    BY <1>2
  <2>2. QED
    BY <1>1, <1>5, <2>1 DEF JoinedAt
<1>7. ASSUME NEW k \in 1 .. n PROVE Front(t)[m + k] = less[k]
  <2>1. m + k \in 1 .. l /\ k \in 1 .. n + 1
    BY <1>2
  <2>2. Front(t)[m + k] = t[m + k] /\ t[m + k] = bytes[k]
    BY <1>1, <1>5, <2>1 DEF JoinedAt
  <2>3. QED
    BY <2>2
<1>8. JoinedAt(Front(t), b, m, less, n)
  BY <1>2, <1>4, <1>5, <1>6, <1>7 DEF JoinedAt
<1>9. QED
  BY <1>8 DEF Joined

\* What a line is that follows nothing.
LEMMA JoinedToNone ==
  ASSUME NEW t, NEW bytes, NEW n \in Nat, Joined(t, <<>>, bytes, n)
  PROVE  Array(t, n) /\ \A k \in 1 .. n : t[k] = bytes[k]
<1>1. PICK m \in Nat : JoinedAt(t, <<>>, m, bytes, n)
  BY DEF Joined
<1>2. m = 0
  <2>1. DOMAIN <<>> = {}
    OBVIOUS
  <2>2. 1 .. m = {}
    BY <1>1, <2>1 DEF JoinedAt, Array
  <2>3. QED
    BY <2>2
<1>3. Array(t, 0 + n) /\ \A k \in 1 .. n : t[0 + k] = bytes[k]
  BY <1>1, <1>2 DEF JoinedAt
<1>4. 0 + n = n /\ \A k \in 1 .. n : 0 + k = k
  OBVIOUS
<1>5. QED
  BY <1>3, <1>4

-----------------------------------------------------------------------------
\* How many characters of its array the read has, or has had.
Entered == IF call.name = "read" THEN 0 ELSE IF reading.size > 0 THEN reading.count ELSE reading.eax

\* What the write command has of its text before the read.
Base == IF shell.pc = "datum" THEN shell.data ELSE <<>>

ReadInv ==
  /\ reading.size > 0 => shell.pc \in {"eval", "datum"}
  /\ call.name = "run" => shell.pc = "ran"
  /\ shell.pc \in {"eval", "datum"} =>
       /\ Joined(typed, Base, Line, Entered)
       /\ call.name # "read" /\ reading.size = 0 => reading.eax \in DOMAIN Line
  /\ shell.clean /\ shell.pc = "eval" => \A k \in DOMAIN Line : Line[k] = NUL <=> k > Entered

ShellInv ==
  /\ shell.pc = "command" => shell.data = <<>>
  /\ shell.pc = "data" => typed = shell.data /\ \E m \in Nat : Array(shell.data, m)
  /\ shell.pc = "store" => shell.data = Front(typed)
  /\ shell.clean => \A k \in DOMAIN shell.input : shell.input[k] = NUL
  /\ shell.clean /\ shell.pc = "command" => AreWords(shell.words, Front(typed))

\* What the steps leave of the shell's fields.
LEMMA FieldsKept ==
  ASSUME Typed, NEW pc, NEW out, NEW data
  PROVE  /\ [shell EXCEPT !.pc = pc].input = shell.input
         /\ [shell EXCEPT !.pc = pc].clean = shell.clean
         /\ [shell EXCEPT !.pc = pc].data = shell.data
         /\ [shell EXCEPT !.pc = pc, !.out = out].input = shell.input
         /\ [shell EXCEPT !.pc = pc, !.out = out].clean = shell.clean
         /\ [shell EXCEPT !.pc = pc, !.data = data].input = shell.input
         /\ [shell EXCEPT !.pc = pc, !.data = data].clean = shell.clean
         /\ [shell EXCEPT !.pc = pc, !.data = data].data = data
         /\ [shell EXCEPT !.out = out].input = shell.input
         /\ [shell EXCEPT !.out = out].clean = shell.clean
         /\ [shell EXCEPT !.out = out].data = shell.data
         /\ [shell EXCEPT !.out = out].words = shell.words
  BY DEF Typed, ShellTyped

LEMMA AgainFields ==
  ASSUME Typed
  PROVE  /\ \A text : Again(text).input = shell.input /\ Again(text).clean = shell.clean
         /\ Fails.input = shell.input /\ Fails.clean = shell.clean
<1>1. \A text : Again(text).input = shell.input /\ Again(text).clean = shell.clean
  BY FieldsKept DEF Again
<1>2. QED
  BY <1>1 DEF Fails

\* Steps that change nothing of what the line is made of.
LEMMA SameTyping ==
  ASSUME ReadInv, ShellInv, UNCHANGED typed,
         call'.name = call.name \/ (call.name # "read" /\ call'.name \notin {"read", "run"}),
         call.name = "read" => call'.bytes = call.bytes,
         reading'.size = reading.size, reading'.count = reading.count,
         reading'.bytes = reading.bytes, reading'.eax = reading.eax,
         shell'.pc = shell.pc, shell'.data = shell.data, shell'.input = shell.input,
         shell'.clean = shell.clean, shell'.words = shell.words
  PROVE  ReadInv' /\ ShellInv'
<1>1. Line' = Line /\ Entered' = Entered /\ Base' = Base
  BY DEF Line, Entered, Base
<1>2. ReadInv'
  BY <1>1 DEF ReadInv
<1>3. ShellInv'
  BY DEF ShellInv
<1>4. QED
  BY <1>2, <1>3

\* Steps to where the line is not looked at.
LEMMA LeftTyping ==
  ASSUME ShellInv, shell'.pc \in {"read", "lost", "spilled", "ran"}, reading'.size = 0,
         call'.name = "run" => shell'.pc = "ran",
         shell'.input = shell.input, shell'.clean = shell.clean
  PROVE  ReadInv' /\ ShellInv'
<1>1. ReadInv'
  BY DEF ReadInv
<1>2. ShellInv'
  BY DEF ShellInv
<1>3. QED
  BY <1>1, <1>2

-----------------------------------------------------------------------------
(* Keys *)

\* What a key leaves for the read, given what it makes of the line.
LEMMA KeyLeaves ==
  ASSUME ReadInv, UNCHANGED <<shell, call>>, call.name = "none", shell.pc \in {"eval", "datum"},
         Joined(typed', Base, reading'.bytes, Entered'),
         reading'.size = 0 => reading'.eax \in DOMAIN reading'.bytes,
         shell.clean /\ shell.pc = "eval" =>
           \A k \in DOMAIN reading'.bytes : reading'.bytes[k] = NUL <=> k > Entered'
  PROVE  ReadInv'
<1>1. Line' = reading'.bytes /\ Base' = Base
  BY DEF Line, Base
<1>2. QED
  BY <1>1 DEF ReadInv

LEMMA KeyTyping ==
  ASSUME IInv, Typed, ReadInv, irq_keyboard, NEW c, keyboard_key(c)
  PROVE  ReadInv'
<1>0. call.name = "none" /\ UNCHANGED <<shell, call>> /\ ReadingTyped
  BY DEF irq_keyboard, Irq, Typed, CallTyped
<1>1. typed' = Edited(c) /\ reading' = Delivered(reading, c)
  BY DEF keyboard_key
<1>2. CASE ~ Reads(reading, c)
  <2>1. reading' = reading /\ typed' = typed
    BY <1>1, <1>2 DEF Delivered, Edited
  <2>2. Line' = Line /\ Entered' = Entered /\ Base' = Base
    BY <1>0, <2>1 DEF Line, Entered, Base
  <2>3. QED
    BY <1>0, <2>1, <2>2 DEF ReadInv
<1>3. CASE Reads(reading, c)
  <2>1. reading.size > 0 /\ c \notin {"esc", "\t", NUL} /\ reading.blocked
    BY <1>3 DEF Reads
  <2>2. PICK n \in Nat, size \in Nat : n = reading.count /\ size = reading.size /\ n < size
    BY <1>0, <2>1, SizesAre DEF ReadingTyped
  <2>3. shell.pc \in {"eval", "datum"} /\ Line = reading.bytes /\ Entered = n
    BY <1>0, <2>1, <2>2 DEF ReadInv, Line, Entered
  <2>4. Joined(typed, Base, reading.bytes, n)
    BY <2>3 DEF ReadInv
  <2>5. DOMAIN reading.bytes = 1 .. size
    BY <1>0, <2>1, <2>2 DEF ReadingTyped, Array
  <2>6. shell.clean /\ shell.pc = "eval" => \A k \in 1 .. size : reading.bytes[k] = NUL <=> k > n
    BY <2>3, <2>5 DEF ReadInv
  <2> DEFINE r == Delivered(reading, c)
  <2>7. /\ Array(r.bytes, reading.size)
        /\ IF c = "bs"
           THEN /\ r.count = (IF reading.count > 0 THEN reading.count - 1 ELSE 0)
                /\ \A k \in 1 .. reading.size :
                     r.bytes[k] = IF k = r.count + 1 THEN NUL ELSE reading.bytes[k]
                /\ r.size = reading.size
           ELSE /\ \A k \in 1 .. reading.size :
                     r.bytes[k] = IF k = reading.count + 1 THEN c ELSE reading.bytes[k]
                /\ IF reading.count + 1 >= reading.size \/ c = "\n"
                   THEN r.size = 0 /\ r.eax = reading.count + 1
                   ELSE r.size = reading.size /\ r.count = reading.count + 1
    BY <1>0, <1>3, DeliveredIs
  <2> HIDE DEF r
  <2>8. reading' = r
    BY <1>1 DEF r
  <2>9. DOMAIN reading'.bytes = 1 .. size
    BY <2>2, <2>7, <2>8 DEF Array
  <2>10. CASE c = "bs"
    <3>1. PICK h \in Nat : h = r.count /\ h = IF n > 0 THEN n - 1 ELSE 0
      BY <2>2, <2>7, <2>10
    <3>2. reading'.count = h /\ reading'.size = size /\ size > 0 /\ Entered' = h
      BY <1>0, <2>1, <2>2, <2>7, <2>8, <2>10, <3>1 DEF Entered
    <3>3. \A k \in 1 .. size : reading'.bytes[k] = IF k = h + 1 THEN NUL ELSE reading.bytes[k]
      BY <2>2, <2>7, <2>8, <2>10, <3>1
    <3>4. Joined(typed', Base, reading'.bytes, h)
      <4>1. CASE n = 0
        <5>1. typed' = typed /\ h = 0
          BY <1>1, <1>3, <2>2, <2>10, <3>1, <4>1 DEF Edited
        <5>2. \A k \in 1 .. 0 : FALSE
          OBVIOUS
        <5>3. QED
          BY <2>4, <4>1, <5>1, <5>2, JoinedSame
      <4>2. CASE n # 0
        <5>1. n = h + 1 /\ n > 0
          BY <3>1, <4>2
        <5>2. typed' = Front(typed)
          BY <1>1, <1>3, <2>2, <2>10, <5>1 DEF Edited
        <5>3. \A k \in 1 .. h : k \in 1 .. size /\ k # h + 1
          BY <2>2, <5>1
        <5>4. \A k \in 1 .. h : reading'.bytes[k] = reading.bytes[k]
          BY <3>3, <5>3
        <5>5. Joined(typed, Base, reading.bytes, h + 1)
          BY <2>4, <5>1
        <5>6. QED
          BY <5>2, <5>4, <5>5, JoinedLess
      <4>3. QED
        BY <4>1, <4>2
    <3>5. ASSUME shell.clean, shell.pc = "eval", NEW k \in 1 .. size
          PROVE  reading'.bytes[k] = NUL <=> k > h
      <4>1. reading.bytes[k] = NUL <=> k > n
        BY <2>6, <3>5
      <4>2. CASE k = h + 1
        BY <3>3, <4>2
      <4>3. CASE k # h + 1
        <5>1. reading'.bytes[k] = reading.bytes[k]
          BY <3>3, <4>3
        <5>2. k > h <=> k > n
          BY <3>1, <4>3
        <5>3. QED
          BY <4>1, <5>1, <5>2
      <4>4. QED
        BY <4>2, <4>3
    <3>6. QED
      BY <1>0, <2>3, <2>9, <3>2, <3>4, <3>5, KeyLeaves
  <2>11. CASE c # "bs"
    <3>1. \A k \in 1 .. size : reading'.bytes[k] = IF k = n + 1 THEN c ELSE reading.bytes[k]
      BY <2>2, <2>7, <2>8, <2>11
    <3>2. IF n + 1 >= size \/ c = "\n"
          THEN reading'.size = 0 /\ reading'.eax = n + 1
          ELSE reading'.size = size /\ reading'.count = n + 1
      BY <2>2, <2>7, <2>8, <2>11
    <3>3. Entered' = n + 1
      <4>1. call'.name # "read"
        BY <1>0
      <4>2. CASE n + 1 >= size \/ c = "\n"
        BY <3>2, <4>1, <4>2 DEF Entered
      <4>3. CASE ~ (n + 1 >= size \/ c = "\n")
        BY <2>2, <3>2, <4>1, <4>3 DEF Entered
      <4>4. QED
        BY <4>2, <4>3
    <3>4. n + 1 \in 1 .. size /\ \A k \in 1 .. n : k \in 1 .. size /\ k # n + 1
      BY <2>2
    <3>5. reading'.size = 0 => reading'.eax \in DOMAIN reading'.bytes
      BY <2>2, <2>9, <3>2, <3>4
    <3>6. Longer(typed, typed', reading'.bytes[n + 1])
      <4>1. typed' = Append(typed, c)
        BY <1>1, <1>3, <2>11 DEF Edited
      <4>2. reading'.bytes[n + 1] = c
        BY <3>1, <3>4
      <4>3. QED
        BY <4>1, <4>2 DEF Longer
    <3>7. \A k \in 1 .. n : reading'.bytes[k] = reading.bytes[k]
      BY <3>1, <3>4
    <3>8. Joined(typed', Base, reading'.bytes, n + 1)
      BY <2>4, <3>6, <3>7, JoinedMore
    <3>9. ASSUME shell.clean, shell.pc = "eval", NEW k \in 1 .. size
          PROVE  reading'.bytes[k] = NUL <=> k > n + 1
      <4>1. reading.bytes[k] = NUL <=> k > n
        BY <2>6, <3>9
      <4>2. CASE k = n + 1
        <5>1. reading'.bytes[k] = c /\ ~ (k > n + 1)
          BY <3>1, <4>2
        <5>2. QED
          BY <2>1, <5>1
      <4>3. CASE k # n + 1
        <5>1. reading'.bytes[k] = reading.bytes[k]
          BY <3>1, <4>3
        <5>2. k > n + 1 <=> k > n
          BY <4>3
        <5>3. QED
          BY <4>1, <5>1, <5>2
      <4>4. QED
        BY <4>2, <4>3
    <3>10. QED
      BY <1>0, <2>3, <2>9, <3>3, <3>5, <3>8, <3>9, KeyLeaves
  <2>12. QED
    BY <2>10, <2>11
<1>4. QED
  BY <1>2, <1>3
-----------------------------------------------------------------------------
(* The shell's steps *)

\* shell_evaluates, by what it takes for the length of the line.
LineOf(length) == SubSeq(Terminated(reading.bytes, length), 1, length - 1)
CutAt(length)  == memset(Terminated(reading.bytes, length), length - 1)

LEMMA EvaluatesAt ==
  ASSUME Typed, shell_evaluates
  PROVE  \E length : /\ length \in IF Overruns(reading.bytes) THEN {InputSize, InputSize + 1}
                                   ELSE {strlen(reading.bytes)}
                     /\ \/ shell' = [shell EXCEPT !.pc = "lost"]
                        \/ shell' = [shell EXCEPT !.pc = "spilled"]
                        \/ /\ ~ (length > InputSize)
                           /\ \E count : shell' = Evaluated(tokenize_line(LineOf(length), WordLimit).words, count, CutAt(length))
  BY Zenon DEF shell_evaluates, Evaluated, LineOf, CutAt

\* The length of a line whose array was clean is what was typed.
LEMMA LengthIs ==
  ASSUME NEW bytes, NEW size \in Nat, Array(bytes, size), NEW n \in 1 .. size,
         \A k \in 1 .. size : bytes[k] = NUL <=> k > n
  PROVE  IF Overruns(bytes) THEN n = size ELSE strlen(bytes) = n
<1>0. DOMAIN bytes = 1 .. size
  BY DEF Array
<1>1. CASE Overruns(bytes)
  <2>1. SUFFICES ASSUME n # size PROVE FALSE
    BY <1>1
  <2>2. n + 1 \in 1 .. size /\ n + 1 > n
    BY <2>1
  <2>3. QED
    BY <1>0, <1>1, <2>2 DEF Overruns
<1>2. CASE ~ Overruns(bytes)
  <2> DEFINE Foremost(k) == bytes[k] = NUL /\ \A j \in 1 .. k - 1 : bytes[j] # NUL
  <2>1. PICK k \in 1 .. size : bytes[k] = NUL
    BY <1>0, <1>2 DEF Overruns
  <2>2. n + 1 \in 1 .. size /\ n + 1 > n /\ \A j \in 1 .. (n + 1) - 1 : j \in 1 .. size /\ ~ (j > n)
    BY <2>1
  <2>3. Foremost(n + 1)
    BY <2>2
  <2>4. ASSUME NEW h \in 1 .. size, Foremost(h) PROVE h = n + 1
    <3>1. h > n
      BY <2>4
    <3>2. SUFFICES ASSUME h # n + 1 PROVE FALSE
      OBVIOUS
    <3>3. n + 1 \in 1 .. h - 1
      BY <3>1, <3>2
    <3>4. QED
      BY <2>2, <2>4, <3>3
  <2> DEFINE found == CHOOSE h \in DOMAIN bytes : Foremost(h)
  <2>5. found \in 1 .. size /\ Foremost(found)
    BY <1>0, <2>2, <2>3, Zenon
  <2>6. strlen(bytes) = found - 1
    BY DEF strlen
  <2> HIDE DEF found, First
  <2>7. found = n + 1
    BY <2>4, <2>5
  <2>8. (n + 1) - 1 = n
    OBVIOUS
  <2>9. QED
    BY <1>2, <2>6, <2>7, <2>8
<1>3. QED
  BY <1>1, <1>2

\* The line handed to the tokenizer is all that was typed, less the last key,
\* and the array is left clean.
LEMMA LineCut ==
  ASSUME NEW n \in Nat, NEW size \in Nat, n \in 1 .. size, Array(reading.bytes, size),
         Array(typed, n), \A k \in 1 .. n : typed[k] = reading.bytes[k]
  PROVE  /\ LineOf(n) = Front(typed) /\ Array(Front(typed), n - 1)
         /\ (\A k \in 1 .. size : k > n => reading.bytes[k] = NUL) =>
              \A k \in DOMAIN CutAt(n) : CutAt(n)[k] = NUL
<1>1. PICK m \in Nat : n = m + 1 /\ n - 1 = m
  <2>1. n - 1 \in Nat /\ n = (n - 1) + 1
    OBVIOUS
  <2>2. QED
    BY <2>1
<1> DEFINE line == Terminated(reading.bytes, n)
<1>2. /\ Array(line, size) /\ DOMAIN line = 1 .. size
      /\ \A k \in 1 .. size : line[k] = IF k = n THEN NUL ELSE reading.bytes[k]
  BY DEF Array, Terminated
<1>3. CutAt(n) = memset(line, m) /\ LineOf(n) = SubSeq(line, 1, m)
  BY <1>1 DEF CutAt, LineOf
<1> HIDE DEF line
<1>4. Array(typed, m + 1) /\ \A k \in 1 .. m : k \in 1 .. n /\ k # n /\ k \in 1 .. size
  BY <1>1
<1>5. Array(Front(typed), m) /\ \A k \in 1 .. m : Front(typed)[k] = typed[k]
  BY <1>4, FrontArray
<1>6. Array(SubSeq(line, 1, m), m) /\ \A k \in 1 .. m : SubSeq(line, 1, m)[k] = line[k]
  <2>1. m \in 0 .. size
    BY <1>1
  <2>2. QED
    BY <1>2, <2>1, PartArray
<1>7. PICK part : part = SubSeq(line, 1, m) /\ Array(part, m) /\ \A k \in 1 .. m : part[k] = line[k]
  BY <1>6
<1>8. part = Front(typed)
  <2>1. \A k \in 1 .. m : part[k] = Front(typed)[k]
    BY <1>2, <1>4, <1>5, <1>7
  <2>2. QED
    BY <1>5, <1>7, <2>1, SameArray
<1>9. ASSUME \A k \in 1 .. size : k > n => reading.bytes[k] = NUL
      PROVE  \A k \in DOMAIN CutAt(n) : CutAt(n)[k] = NUL
  <2>1. DOMAIN memset(line, m) = 1 .. size /\ \A k \in 1 .. size : memset(line, m)[k] = IF k <= m THEN NUL ELSE line[k]
    BY <1>2 DEF memset
  <2>2. ASSUME NEW k \in 1 .. size PROVE memset(line, m)[k] = NUL
    <3>1. k <= m \/ k = n \/ k > n
      BY <1>1
    <3>2. ~ (k <= m) => line[k] = NUL
      BY <1>2, <1>9, <3>1
    <3>3. QED
      BY <2>1, <3>2
  <2>3. QED
    BY <1>3, <2>1, <2>2
<1>10. QED
  BY <1>1, <1>3, <1>5, <1>7, <1>8, <1>9

LEMMA EvaluatesTyping ==
  ASSUME IInv, Typed, ReadInv, ShellInv, shell_evaluates PROVE ReadInv' /\ ShellInv'
<1>1. /\ UNCHANGED <<call, reading, typed>> /\ current = "shell" /\ shell.pc = "eval"
      /\ call.name = "none"
  BY NoneCalls DEF shell_evaluates, At, Runs, Typed
<1>2. reading.size = 0
  BY <1>1, ShellRuns
<1>3. PICK length : /\ length \in IF Overruns(reading.bytes) THEN {InputSize, InputSize + 1}
                                  ELSE {strlen(reading.bytes)}
                    /\ \/ shell' = [shell EXCEPT !.pc = "lost"]
                       \/ shell' = [shell EXCEPT !.pc = "spilled"]
                       \/ /\ ~ (length > InputSize)
                          /\ \E count : shell' = Evaluated(tokenize_line(LineOf(length), WordLimit).words, count, CutAt(length))
  BY EvaluatesAt
<1>4. CASE shell' = [shell EXCEPT !.pc = "lost"] \/ shell' = [shell EXCEPT !.pc = "spilled"]
  <2>1. PICK pc \in {"lost", "spilled"} : shell' = [shell EXCEPT !.pc = pc]
    BY <1>4
  <2>3. shell'.pc \in {"lost", "spilled"} /\ shell'.input = shell.input /\ shell'.clean = shell.clean
    BY <2>1, PlaceKept, FieldsKept
  <2>2. QED
    BY <1>1, <1>2, <2>3, LeftTyping
<1>5. ASSUME ~ (length > InputSize),
             NEW count, shell' = Evaluated(tokenize_line(LineOf(length), WordLimit).words, count, CutAt(length))
      PROVE  ReadInv' /\ ShellInv'
  <2>1. /\ shell'.pc = "command" /\ shell'.words = tokenize_line(LineOf(length), WordLimit).words
        /\ shell'.input = CutAt(length) /\ shell'.data = <<>> /\ shell'.clean = shell.clean
    BY <1>5, EvaluatedIs
  <2>2. ReadInv'
    BY <1>1, <1>2, <2>1 DEF ReadInv
  <2>3. ASSUME shell.clean
        PROVE  /\ \A k \in DOMAIN CutAt(length) : CutAt(length)[k] = NUL
               /\ AreWords(tokenize_line(LineOf(length), WordLimit).words, Front(typed))
    <3>1. PICK size \in Nat : size = InputSize
      BY SizesAre
    <3>2. Line = reading.bytes /\ Array(reading.bytes, size) /\ Entered = reading.eax /\ Base = <<>>
      BY <1>1, <1>2, <3>1 DEF Typed, LineTyped, Line, Entered, Base
    <3>3. PICK n \in 1 .. size : n = reading.eax /\ n \in Nat
      <4>1. reading.eax \in DOMAIN reading.bytes
        BY <1>1, <1>2, <3>2 DEF ReadInv
      <4>2. QED
        BY <3>2, <4>1 DEF Array
    <3>4. Joined(typed, <<>>, reading.bytes, n)
      BY <1>1, <3>2, <3>3 DEF ReadInv
    <3>5. \A k \in 1 .. size : reading.bytes[k] = NUL <=> k > n
      <4>1. DOMAIN reading.bytes = 1 .. size
        BY <3>2 DEF Array
      <4>2. QED
        BY <1>1, <2>3, <3>2, <3>3, <4>1 DEF ReadInv
    <3>6. IF Overruns(reading.bytes) THEN n = size ELSE strlen(reading.bytes) = n
      BY <3>2, <3>5, LengthIs
    <3>7. length = n
      BY <1>3, <1>5, <3>1, <3>6
    <3>8. Array(typed, n) /\ \A k \in 1 .. n : typed[k] = reading.bytes[k]
      BY <3>3, <3>4, JoinedToNone
    <3>9. /\ LineOf(n) = Front(typed) /\ Array(Front(typed), n - 1)
          /\ \A k \in DOMAIN CutAt(n) : CutAt(n)[k] = NUL
      BY <3>2, <3>3, <3>5, <3>8, LineCut
    <3>10. n - 1 \in Nat
      OBVIOUS
    <3>11. AreWords(tokenize_line(Front(typed), WordLimit).words, Front(typed))
      BY <3>9, <3>10, TokensAreWords
    <3>12. QED
      BY <3>7, <3>9, <3>11
  <2>4. ShellInv'
    BY <1>1, <2>1, <2>3 DEF ShellInv
  <2>5. QED
    BY <2>2, <2>4
<1>6. QED
  BY <1>3, <1>4, <1>5

LEMMA ReadsTyping ==
  ASSUME IInv, Typed, ReadInv, ShellInv, shell_reads PROVE ReadInv' /\ ShellInv'
<1>1. /\ UNCHANGED reading /\ current = "shell" /\ call' = Read(shell.input) /\ typed' = <<>>
      /\ shell' = [shell EXCEPT !.pc = "eval"]
  BY DEF shell_reads, At, Runs, Trap
<1>2. reading'.size = 0
  BY <1>1, ShellRuns
<1>3. /\ shell'.pc = "eval" /\ shell'.input = shell.input /\ shell'.clean = shell.clean
      /\ call'.name = "read" /\ call'.bytes = shell.input
  BY <1>1, PlaceKept, FieldsKept DEF Read, Does
<1>4. Line' = shell.input /\ Entered' = 0 /\ Base' = <<>>
  BY <1>3 DEF Line, Entered, Base
<1>5. Joined(<<>>, <<>>, shell.input, 0)
  <2>1. 0 \in Nat
    OBVIOUS
  <2>2. QED
    BY <2>1, EmptyArray, JoinedNone
<1>6. shell.clean => \A k \in DOMAIN shell.input : shell.input[k] = NUL <=> k > 0
  <2>1. Array(shell.input, InputSize) /\ InputSize \in Nat
    BY SizesAre DEF Typed, ShellTyped
  <2>2. \A k \in DOMAIN shell.input : k > 0
    BY <2>1 DEF Array
  <2>3. QED
    BY <2>2 DEF ShellInv
<1>7. ReadInv'
  BY <1>1, <1>2, <1>3, <1>4, <1>5, <1>6 DEF ReadInv
<1>8. ShellInv'
  BY <1>3 DEF ShellInv
<1>9. QED
  BY <1>7, <1>8

LEMMA DataReadsTyping ==
  ASSUME IInv, Typed, ReadInv, ShellInv, data_reads PROVE ReadInv' /\ ShellInv'
<1> DEFINE bytes == [k \in 1 .. DataSize |-> NUL]
<1>1. /\ UNCHANGED <<reading, typed>> /\ current = "shell" /\ call' = Read(bytes)
      /\ shell' = [shell EXCEPT !.pc = "datum"] /\ shell.pc = "data"
  BY DEF data_reads, At, Runs, Trap
<1> HIDE DEF bytes
<1>2. reading'.size = 0
  BY <1>1, ShellRuns
<1>3. /\ shell'.pc = "datum" /\ shell'.input = shell.input /\ shell'.clean = shell.clean
      /\ shell'.data = shell.data /\ call'.name = "read"
  BY <1>1, PlaceKept, FieldsKept DEF Read, Does
<1>4. Entered' = 0 /\ Base' = shell.data
  BY <1>3 DEF Entered, Base
<1>5. Joined(typed, shell.data, Line', 0)
  <2>1. PICK m \in Nat : typed = shell.data /\ Array(shell.data, m)
    BY <1>1 DEF ShellInv
  <2>2. QED
    BY <2>1, JoinedNone
<1>6. ReadInv'
  BY <1>1, <1>2, <1>3, <1>4, <1>5 DEF ReadInv
<1>7. ShellInv'
  BY <1>3 DEF ShellInv
<1>8. QED
  BY <1>6, <1>7

\* What is read goes behind the text.
LEMMA AppendsTyping ==
  ASSUME IInv, Typed, ReadInv, ShellInv, data_appends PROVE ReadInv' /\ ShellInv'
<1>1. /\ UNCHANGED <<call, reading, typed>> /\ current = "shell" /\ shell.pc = "datum"
      /\ call.name = "none"
  BY NoneCalls DEF data_appends, At, Runs, Typed
<1>2. reading.size = 0
  BY <1>1, ShellRuns
<1>3. PICK size \in Nat : size = DataSize
  BY SizesAre
<1>4. Line = reading.bytes /\ Array(reading.bytes, size) /\ Entered = reading.eax /\ Base = shell.data
  BY <1>1, <1>2, <1>3 DEF Typed, LineTyped, Line, Entered, Base
<1>5. PICK n \in 1 .. size : n = reading.eax
  <2>1. reading.eax \in DOMAIN reading.bytes
    BY <1>1, <1>2, <1>4 DEF ReadInv
  <2>2. QED
    BY <1>4, <2>1 DEF Array
<1>6. Joined(typed, shell.data, reading.bytes, n)
  BY <1>1, <1>4, <1>5 DEF ReadInv
<1>7. PICK m \in Nat : JoinedAt(typed, shell.data, m, reading.bytes, n)
  BY <1>6 DEF Joined
<1> DEFINE part == SubSeq(reading.bytes, 1, reading.eax)
           data == shell.data \o part
           rest == Front(data)
<1>8. shell' = IF reading.bytes[reading.eax] = "\n"
               THEN [shell EXCEPT !.pc = "store", !.data = rest]
               ELSE [shell EXCEPT !.pc = "data", !.data = data]
  BY AppendsIs
<1>9. Array(part, n) /\ \A k \in 1 .. n : part[k] = reading.bytes[k]
  <2>1. n \in 0 .. size /\ part = SubSeq(reading.bytes, 1, n)
    BY <1>5
  <2> HIDE DEF part
  <2>2. Array(SubSeq(reading.bytes, 1, n), n) /\ \A k \in 1 .. n : SubSeq(reading.bytes, 1, n)[k] = reading.bytes[k]
    BY <1>4, <2>1, PartArray
  <2>3. QED
    BY <2>1, <2>2
<1>10. Glued(data, shell.data, part)
  BY DEF Glued
<1> HIDE DEF part, data
<1>11. data = typed /\ Array(typed, m + n)
  <2>1. Array(shell.data, m) /\ Array(typed, m + n) /\ n \in Nat /\ m + n \in Nat
    BY <1>7 DEF JoinedAt
  <2>2. /\ Array(data, m + n)
        /\ \A k \in 1 .. m : data[k] = shell.data[k]
        /\ \A k \in 1 .. n : data[m + k] = part[k]
    BY <1>9, <1>10, <2>1, JoinedArray
  <2>3. ASSUME NEW k \in 1 .. m + n PROVE data[k] = typed[k]
    <3>1. CASE k <= m
      <4>1. k \in 1 .. m
        BY <3>1
      <4>2. QED
        BY <1>7, <2>2, <4>1 DEF JoinedAt
    <3>2. CASE ~ (k <= m)
      <4>1. PICK j \in 1 .. n : k = m + j
        <5>1. k - m \in 1 .. n /\ k = m + (k - m)
          BY <3>2
        <5>2. QED
          BY <5>1
      <4>2. data[m + j] = part[j] /\ typed[m + j] = reading.bytes[j]
        BY <1>7, <2>2 DEF JoinedAt
      <4>3. QED
        BY <1>9, <4>1, <4>2
    <3>3. QED
      BY <3>1, <3>2
  <2>4. QED
    BY <2>1, <2>2, <2>3, SameArray
<1>12. rest = Front(typed)
  BY <1>11
<1> HIDE DEF rest
<1>13. CASE shell' = [shell EXCEPT !.pc = "store", !.data = rest]
  <2>1. shell'.pc = "store" /\ shell'.data = rest /\ shell'.input = shell.input /\ shell'.clean = shell.clean
    BY <1>13, PlaceKept, FieldsKept
  <2>2. ReadInv'
    BY <1>1, <1>2, <2>1 DEF ReadInv
  <2>3. ShellInv'
    BY <1>1, <1>12, <2>1 DEF ShellInv
  <2>4. QED
    BY <2>2, <2>3
<1>14. CASE shell' = [shell EXCEPT !.pc = "data", !.data = data]
  <2>1. shell'.pc = "data" /\ shell'.data = data /\ shell'.input = shell.input /\ shell'.clean = shell.clean
    BY <1>14, PlaceKept, FieldsKept
  <2>2. ReadInv'
    BY <1>1, <1>2, <2>1 DEF ReadInv
  <2>3. m + n \in Nat
    OBVIOUS
  <2>4. ShellInv'
    BY <1>1, <1>11, <2>1, <2>3 DEF ShellInv
  <2>5. QED
    BY <2>2, <2>4
<1>15. QED
  BY <1>8, <1>13, <1>14

LEMMA OpensTyping ==
  ASSUME IInv, Typed, ReadInv, ShellInv, command_opens PROVE ReadInv' /\ ShellInv'
<1>1. /\ UNCHANGED reading /\ current = "shell" /\ call' = Files(<<>>) /\ typed' = <<>>
      /\ shell.pc = "command"
  <2>1. \E name \in {"cat", "write"} : Commanded(name)
    BY Zenon DEF command_opens
  <2>2. current = "shell" /\ shell.pc = "command"
    BY <2>1 DEF Commanded, At, Runs
  <2>3. UNCHANGED reading /\ call' = Files(<<>>) /\ typed' = <<>>
    BY Zenon DEF command_opens, Trap
  <2>4. QED
    BY <2>2, <2>3
<1>2. reading'.size = 0 /\ call'.name = "files"
  BY <1>1, ShellRuns DEF Files, Does
<1>3. \E name \in {"cat", "write"}, opened \in BOOLEAN : \E pieces \in FileTexts :
        shell' = IF ~ opened THEN Fails
                 ELSE IF name = "cat" THEN Again(pieces \o printf(<<"\n">>))
                 ELSE [shell EXCEPT !.pc = "data"]
  BY Zenon DEF command_opens
<1>4. \/ \E text : shell' = Again(text)
      \/ shell' = Fails
      \/ shell' = [shell EXCEPT !.pc = "data"]
  BY <1>3
<1>5. CASE (\E text : shell' = Again(text)) \/ shell' = Fails
  <2>1. shell'.pc = "read" /\ shell'.input = shell.input /\ shell'.clean = shell.clean
    BY <1>5, AgainPlace, AgainFields
  <2>2. QED
    BY <1>2, <2>1, LeftTyping
<1>6. CASE shell' = [shell EXCEPT !.pc = "data"]
  <2>1. /\ shell'.pc = "data" /\ shell'.input = shell.input /\ shell'.clean = shell.clean
        /\ shell'.data = shell.data
    BY <1>6, PlaceKept, FieldsKept
  <2>2. shell.data = <<>>
    BY <1>1 DEF ShellInv
  <2>3. 0 \in Nat
    OBVIOUS
  <2>4. ReadInv'
    BY <1>2, <2>1 DEF ReadInv
  <2>5. ShellInv'
    BY <1>1, <2>1, <2>2, <2>3, EmptyArray DEF ShellInv
  <2>6. QED
    BY <2>4, <2>5
<1>7. QED
  BY <1>4, <1>5, <1>6

\* Steps that end a command, or start a program.
LEMMA EndsTyping ==
  ASSUME IInv, Typed, ReadInv, ShellInv,
         command_fails \/ command_fs_ops \/ command_run \/ shell_ran \/ data_stores
  PROVE  ReadInv' /\ ShellInv'
<1>1. UNCHANGED reading /\ current = "shell"
  BY Zenon DEF command_fails, command_fs_ops, command_run, shell_ran, data_stores, Commanded, At, Runs
<1>2. reading'.size = 0
  BY <1>1, ShellRuns
<1>3. CASE command_run
  <2>1. shell' = [shell EXCEPT !.pc = "ran"]
    BY <1>3 DEF command_run
  <2>2. shell'.pc = "ran" /\ shell'.input = shell.input /\ shell'.clean = shell.clean
    BY <2>1, PlaceKept, FieldsKept
  <2>3. QED
    BY <1>2, <2>2, LeftTyping
<1>4. CASE command_fails \/ command_fs_ops \/ shell_ran \/ data_stores
  <2>1. shell' = Fails \/ shell' = Again(<<>>)
    BY <1>4 DEF command_fails, command_fs_ops, shell_ran, data_stores
  <2>2. shell'.pc = "read" /\ shell'.input = shell.input /\ shell'.clean = shell.clean
    BY <2>1, AgainPlace, AgainFields
  <2>3. call'.name # "run"
    <3>1. CASE command_fails \/ shell_ran
      <4>1. call' = call /\ frames = <<>>
        BY <3>1 DEF command_fails, shell_ran, At, Runs
      <4>2. call.name = "none"
        BY <4>1, NoneCalls DEF Typed
      <4>3. QED
        BY <4>1, <4>2
    <3>2. CASE command_fs_ops \/ data_stores
      <4>1. \E calls : call' = Files(calls)
        BY <3>2 DEF command_fs_ops, data_stores, Trap
      <4>2. QED
        BY <4>1 DEF Files, Does
    <3>3. QED
      BY <1>4, <3>1, <3>2
  <2>4. QED
    BY <1>2, <2>2, <2>3, LeftTyping
<1>5. QED
  BY <1>3, <1>4

-----------------------------------------------------------------------------
(* The other steps *)

LEMMA ReadTyping ==
  ASSUME IInv, Typed, ReadInv, ShellInv, syscall_read PROVE ReadInv' /\ ShellInv'
<1>1. call' = Nothing /\ UNCHANGED <<shell, typed>> /\ call.name = "read"
  BY DEF syscall_read, Handling
<1>2. /\ reading'.count = 0 /\ reading'.bytes = call.bytes
      /\ reading'.size \in {InputSize, DataSize} /\ reading'.size > 0 /\ call'.name = "none"
  BY <1>1, ReadStep, NothingTyped, SizesAre
<1>3. Line' = Line /\ Entered' = 0 /\ Entered = 0 /\ Base' = Base
  BY <1>1, <1>2 DEF Line, Entered, Base
<1>4. shell.pc \in {"eval", "datum"}
  BY <1>1 DEF Typed, LineTyped
<1>5. ReadInv'
  <2>1. ~ (reading'.size = 0)
    BY <1>2, SizesAre
  <2>2. QED
    BY <1>1, <1>2, <1>3, <1>4, <2>1 DEF ReadInv
<1>6. ShellInv'
  BY <1>1 DEF ShellInv
<1>7. QED
  BY <1>5, <1>6

LEMMA RunTyping ==
  ASSUME IInv, Typed, ReadInv, ShellInv, syscall_run PROVE ReadInv' /\ ShellInv'
<1>1. call' = Nothing /\ UNCHANGED typed /\ call.name = "run"
  BY DEF syscall_run, Handling
<1>2. reading'.size = 0 /\ shell'.input = shell.input /\ shell'.pc = shell.pc
  BY RunStep
<1>3. shell.pc = "ran" /\ call'.name = "none"
  BY <1>1, NothingTyped DEF ReadInv
<1>4. shell'.clean = shell.clean
  <2>1. \E loads \in BOOLEAN : shell' = [shell EXCEPT !.child = loads]
    BY DEF syscall_run
  <2>2. QED
    BY <2>1 DEF Typed, ShellTyped
<1>5. QED
  BY <1>2, <1>3, <1>4, LeftTyping

LEMMA ChildEndsTyping ==
  ASSUME IInv, Typed, ReadInv, ShellInv, child_ends PROVE ReadInv' /\ ShellInv'
<1>1. call' = Nothing /\ UNCHANGED typed /\ call.name # "read"
  BY EndStep DEF child_ends
<1>2. call'.name = "none"
  BY <1>1, NothingTyped
<1> DEFINE b == reading.blocked /\ call.name # "exit"
<1>3. reading' = [reading EXCEPT !.blocked = b] /\ shell' = [shell EXCEPT !.child = FALSE]
  BY DEF child_ends
<1> HIDE DEF b
<1>4. /\ reading'.size = reading.size /\ reading'.count = reading.count
      /\ reading'.bytes = reading.bytes /\ reading'.eax = reading.eax
  BY <1>3 DEF Typed, ReadingTyped
<1>5. /\ shell'.pc = shell.pc /\ shell'.data = shell.data /\ shell'.input = shell.input
      /\ shell'.clean = shell.clean /\ shell'.words = shell.words
  BY <1>3 DEF Typed, ShellTyped
<1>6. QED
  BY <1>1, <1>2, <1>4, <1>5, SameTyping

LEMMA NextTyping ==
  ASSUME IInv, Typed, ReadInv, ShellInv, [Next]_vars PROVE ReadInv' /\ ShellInv'
<1>1. CASE shell_evaluates \/ shell_reads \/ data_reads \/ data_appends \/ command_opens
  BY <1>1, EvaluatesTyping, ReadsTyping, DataReadsTyping, AppendsTyping, OpensTyping
<1>2. CASE command_fails \/ command_fs_ops \/ command_run \/ shell_ran \/ data_stores
  BY <1>2, EndsTyping
<1>3. CASE syscall_read \/ syscall_run \/ child_ends
  BY <1>3, ReadTyping, RunTyping, ChildEndsTyping
<1>4. ASSUME UNCHANGED <<reading, shell, typed>>,
             call'.name = call.name \/ (call.name # "read" /\ call'.name \notin {"read", "run"}),
             call.name = "read" => call'.bytes = call.bytes
      PROVE  ReadInv' /\ ShellInv'
  BY <1>4, SameTyping
<1>5. CASE handler_prints
  <2>1. UNCHANGED <<reading, shell, typed>> /\ call.name # "read" /\ \E q : call' = [call EXCEPT !.print = q]
    BY <1>5 DEF handler_prints, Handling
  <2>2. call'.name = call.name
    BY <2>1 DEF Typed, CallTyped
  <2>3. QED
    BY <1>4, <2>1, <2>2
<1>6. CASE syscall_ends
  <2>1. UNCHANGED <<reading, shell, typed>> /\ call.name # "read" /\ call' = Nothing
    BY <1>6 DEF syscall_ends, Handling
  <2>2. QED
    BY <1>4, <2>1, NothingTyped
<1>7. CASE child_exits \/ child_faults
  <2>1. UNCHANGED <<reading, shell, typed>> /\ call.name = "none"
    BY <1>7, NoneCalls DEF child_exits, child_faults, Runs, Typed
  <2>2. call'.name \in {"exit", "exception"}
    BY <1>7 DEF child_exits, child_faults, Trap, Does
  <2>3. QED
    BY <1>4, <2>1, <2>2
<1>8. CASE shell_writes
  <2> DEFINE out == Tail(shell.out)
  <2>1. UNCHANGED <<reading, typed>> /\ call.name = "none" /\ shell' = [shell EXCEPT !.out = out]
    BY <1>8, NoneCalls DEF shell_writes, Runs, Typed
  <2>2. call'.name = "write"
    BY <1>8 DEF shell_writes, Trap, Write, Does
  <2> HIDE DEF out
  <2>3. /\ shell'.pc = shell.pc /\ shell'.data = shell.data /\ shell'.input = shell.input
        /\ shell'.clean = shell.clean /\ shell'.words = shell.words
    BY <2>1, PlaceKept, FieldsKept
  <2>4. QED
    BY <2>1, <2>2, <2>3, SameTyping
<1>9. CASE irq_keyboard
  <2>1. ShellInv /\ UNCHANGED <<shell, call>>
    BY <1>9 DEF irq_keyboard
  <2>2. CASE UNCHANGED <<reading, typed>>
    BY <1>4, <2>1, <2>2
  <2>3. ASSUME NEW c, keyboard_key(c) PROVE ReadInv' /\ ShellInv'
    <3>1. ReadInv'
      BY <1>9, <2>3, KeyTyping
    <3>2. CASE shell.pc \in {"eval", "datum"}
      BY <2>1, <3>1, <3>2 DEF ShellInv
    <3>3. CASE shell.pc \notin {"eval", "datum"}
      <4>1. ~ (reading.size > 0)
        BY <3>3 DEF ReadInv
      <4>2. typed' = typed
        BY <2>3, <4>1 DEF keyboard_key, Edited, Reads
      <4>3. QED
        BY <2>1, <3>1, <4>2 DEF ShellInv
    <3>4. QED
      BY <3>2, <3>3
  <2>4. QED
    BY <1>9, <2>2, <2>3 DEF irq_keyboard
<1>10. CASE UNCHANGED vars \/ kernel_prints \/ press \/ tick \/ leave
            \/ (\E line \in Lines : accept(line)) \/ irq_timer \/ irq_other
  BY <1>4, <1>10 DEF vars, kernel_prints, press, tick, leave, accept, irq_timer, irq_other
<1>11. QED
  BY <1>1, <1>2, <1>3, <1>5, <1>6, <1>7, <1>8, <1>9, <1>10 DEF Next

LEMMA InitTyping == Init => ReadInv /\ ShellInv
<1> SUFFICES ASSUME Init PROVE ReadInv /\ ShellInv
  OBVIOUS
<1>1. call = Nothing /\ reading = Idle
  BY DEF Init
<1>2. PICK bytes \in StackBytes :
        shell = [pc |-> "read", out |-> printf(Prompt), input |-> bytes, words |-> <<>>,
                 count |-> 0, data |-> <<>>, child |-> FALSE,
                 clean |-> \A k \in DOMAIN bytes : bytes[k] = NUL]
  BY DEF Init
<1> DEFINE clean == \A k \in DOMAIN bytes : bytes[k] = NUL
<1>3. shell.pc = "read" /\ shell.input = bytes /\ shell.clean = clean
  BY <1>2
<1>4. reading.size = 0 /\ call.name = "none"
  BY <1>1, NothingTyped DEF Idle
<1>5. ReadInv
  BY <1>3, <1>4 DEF ReadInv
<1>6. ShellInv
  BY <1>3 DEF ShellInv
<1>7. QED
  BY <1>5, <1>6

\* The command the shell executes, and the text the write command stores, are
\* what the user typed and corrected for them, for every session and whatever
\* comes between two keys.
THEOREM LineStaysTyped == Spec => []LineIsTyped
<1> DEFINE Inv == IInv /\ Typed /\ ReadInv /\ ShellInv
<1>1. Init => Inv
  BY InitIInv, InitTyped, InitTyping
<1>2. Inv /\ [Next]_vars => Inv'
  BY NextIInv, NextTyped, NextTyping
<1>3. Inv => LineIsTyped
  BY DEF ShellInv, LineIsTyped
<1>4. QED
  BY <1>1, <1>2, <1>3, PTL DEF Spec
===============================================================================
